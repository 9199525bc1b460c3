--------------------------- MODULE DeliveryProofs ---------------------------
(***************************************************************************)
(* Two answers to a delivery that may be lost or repeated: the email       *)
(* outbox, where a number fences off an earlier attempt, and the page of a *)
(* multiplayer room, where a kept id lets a repeated action be recognised. *)
(* And the waitlist, whose alerts the outbox delivers: who is told, in     *)
(* which order, and that there are no more of them than places.            *)
(***************************************************************************)
EXTENDS EmailOutbox, LiveRoom, Waitlist, TLAPS, FiniteSetTheorems, WellFoundedInduction

-----------------------------------------------------------------------------
(***************************************************************************)
(* The email queue, for any messages, recipients, couriers and number of   *)
(* attempts: a row offered for another attempt is out of reach of every    *)
(* courier that still holds an earlier one.  The fence is the number of    *)
(* attempts, so the invariant says what makes it one: a courier's number   *)
(* is never ahead of its row's, and no two couriers hold the same number   *)
(* of one row.                                                             *)
(***************************************************************************)

Busy(c) == courier[c] # Free
Row(c) == mail[courier[c].mail]

(* Whoever holds a message holds a numbered attempt at it. *)
HoldsAnAttempt ==
  \A c \in Couriers : Busy(c) => /\ courier[c].mail \in Mails
                                 /\ courier[c].attempt <= Row(c).attempts
                                 /\ Row(c).st # "none"

AttemptIsOnes ==
  \A c, d \in Couriers :
    Busy(c) /\ Busy(d) /\ courier[c].mail = courier[d].mail /\ courier[c].attempt = courier[d].attempt
    => c = d

(* The inductive invariant. *)
OutboxInv == OutboxTypeOK /\ HoldsAnAttempt /\ AttemptIsOnes /\ OfferedIsFree

-----------------------------------------------------------------------------
(* A change of rows that keeps their attempts, and makes none available     *)
(* that a courier holds.                                                   *)
LEMMA RowsChange ==
  ASSUME OutboxInv, OutboxTypeOK',
         \A c \in Couriers : courier'[c] # Free => courier'[c] = courier[c],
         \A m \in Mails : mail'[m].attempts = mail[m].attempts,
         \A m \in Mails : mail[m].st # "none" => mail'[m].st # "none",
         \A m \in Mails : mail'[m].st = "pending" =>
           \/ mail[m].st \in {"none", "pending"}
           \/ \A c \in Couriers : courier'[c] # Free /\ courier'[c].mail = m
                                  => courier'[c].attempt # mail[m].attempts
  PROVE  OutboxInv'
<1>1. HoldsAnAttempt'
  BY DEF OutboxInv, OutboxTypeOK, HoldsAnAttempt, Busy, Row
<1>2. AttemptIsOnes'
  BY DEF OutboxInv, AttemptIsOnes, Busy
<1>3. OfferedIsFree'
  BY DEF OutboxInv, OutboxTypeOK, HoldsAnAttempt, OfferedIsFree, Busy, Row
<1>4. QED BY <1>1, <1>2, <1>3 DEF OutboxInv

LEMMA OutboxInitInv == OutboxInit => OutboxInv
  BY OutboxAssumption
     DEF OutboxInit, OutboxInv, OutboxTypeOK, HoldsAnAttempt, AttemptIsOnes, OfferedIsFree, Busy,
         Free, Settled

MailRows == [st : {"none", "pending", "processing"} \cup Settled, attempts : 0..MaxAttempts,
             locked : BOOLEAN]
Attempts == [mail : Mails \cup {NoMail}, attempt : 0..MaxAttempts, ans : {"none"} \cup Answers]

LEMMA RowStatusChanged ==
  ASSUME OutboxTypeOK, NEW m \in Mails, NEW s \in {"none", "pending", "processing"} \cup Settled
  PROVE  [mail EXCEPT ![m].st = s] \in [Mails -> MailRows] /\ SetMail(m, s) \in [Mails -> MailRows]
  BY DEF OutboxTypeOK, MailRows, SetMail

LEMMA RowUnlocked ==
  ASSUME OutboxTypeOK, NEW m \in Mails
  PROVE  [mail EXCEPT ![m].locked = FALSE] \in [Mails -> MailRows]
  BY DEF OutboxTypeOK, MailRows

LEMMA CourierChanged ==
  ASSUME OutboxTypeOK, NEW c \in Couriers
  PROVE  /\ [courier EXCEPT ![c] = Free] \in [Couriers -> Attempts]
         /\ \A a \in Answers : [courier EXCEPT ![c].ans = a] \in [Couriers -> Attempts]
  BY OutboxAssumption DEF OutboxTypeOK, Attempts, Free

LEMMA OutboxTypeStep ==
  ASSUME OutboxTypeOK, HoldsAnAttempt, [OutboxNext]_outbox
  PROVE  OutboxTypeOK'
<1>1. CASE \E c \in Couriers, m \in Mails : ClaimMail(c, m)
  BY <1>1, OutboxAssumption DEF ClaimMail, OutboxTypeOK, Settled, Answers
<1>2. CASE \E c \in Couriers : Deliver(c)
  <2>1. PICK c \in Couriers, a \in Answers :
          /\ courier' = [courier EXCEPT ![c].ans = a]
          /\ sent' = sent \/ (courier[c] # Free /\ sent' = sent \cup {courier[c].mail})
          /\ UNCHANGED <<mail, blocked>>
    BY <1>2 DEF Deliver
  <2>2. courier' \in [Couriers -> Attempts]
    BY <2>1, CourierChanged
  <2>3. sent' \subseteq Mails
    BY <2>1 DEF HoldsAnAttempt, Busy, OutboxTypeOK
  <2>4. QED BY <2>1, <2>2, <2>3 DEF OutboxTypeOK, Attempts
<1>3. CASE \E c \in Couriers : FinishAttempt(c)
  <2>1. PICK c \in Couriers : FinishAttempt(c)
    BY <1>3
  <2>2. courier' \in [Couriers -> Attempts] /\ sent' = sent
    BY <2>1, CourierChanged DEF FinishAttempt
  <2>3. Outcome(c) \in {"none", "pending", "processing"} \cup Settled
    BY DEF Outcome, Settled
  <2>4. courier[c].mail \in Mails => mail' \in [Mails -> MailRows]
    BY <2>1, <2>3, RowStatusChanged DEF FinishAttempt, OutboxTypeOK, MailRows
  <2>5. courier[c].mail \in Mails
    BY <2>1 DEF FinishAttempt, HoldsAnAttempt, Busy
  <2>6. QED BY <2>1, <2>2, <2>4, <2>5 DEF FinishAttempt, OutboxTypeOK, Attempts, MailRows
<1>4. CASE \E c \in Couriers : CourierLost(c)
  BY <1>4, CourierChanged DEF CourierLost, OutboxTypeOK, Attempts
<1>5. CASE \E m \in Mails : InsertEmail(m)
  BY <1>5, RowStatusChanged DEF InsertEmail, OutboxTypeOK, MailRows
<1>6. CASE \E m \in Mails : LockLapses(m)
  BY <1>6, RowUnlocked DEF LockLapses, OutboxTypeOK, MailRows
<1>7. CASE \E m \in Mails : StopDelivery(m) \/ ContentExpires(m) \/ CancelMail(m)
  <2>1. PICK m \in Mails : StopDelivery(m) \/ ContentExpires(m) \/ CancelMail(m)
    BY <1>7
  <2>2. UNCHANGED <<blocked, courier, sent>>
    BY <2>1 DEF StopDelivery, ContentExpires, CancelMail
  <2>3. mail' = SetMail(m, "failed") \/ mail' = SetMail(m, "cancelled")
    BY <2>1 DEF StopDelivery, ContentExpires, CancelMail
  <2>4. mail' \in [Mails -> MailRows]
    <3>1. {"failed", "cancelled"} \subseteq {"none", "pending", "processing"} \cup Settled
      BY DEF Settled
    <3>2. \A st \in {"failed", "cancelled"} : SetMail(m, st) \in [Mails -> MailRows]
      BY <3>1, RowStatusChanged
    <3>3. QED BY <2>3, <3>2
  <2>5. QED BY <2>2, <2>4 DEF OutboxTypeOK, MailRows
<1>8. CASE \E m \in Mails : BounceReported(m)
  <2>1. PICK m \in Mails : BounceReported(m)
    BY <1>8
  <2>2. mail' \in [Mails -> MailRows]
    BY <2>1, RowStatusChanged DEF BounceReported, OutboxTypeOK, MailRows, Settled
  <2>3. QED BY <2>1, <2>2 DEF BounceReported, OutboxTypeOK, MailRows
<1>9. CASE \E p \in blocked : Unblock(p)
  BY <1>9 DEF Unblock, OutboxTypeOK
<1>10. CASE UNCHANGED outbox
  BY <1>10 DEF outbox, OutboxTypeOK
<1>11. QED BY <1>1, <1>2, <1>3, <1>4, <1>5, <1>6, <1>7, <1>8, <1>9, <1>10 DEF OutboxNext

(* The number a claim takes is new: nobody holds it. *)
LEMMA ClaimMailInv ==
  ASSUME OutboxInv, OutboxTypeOK', NEW c \in Couriers, NEW m \in Mails, ClaimMail(c, m)
  PROVE  OutboxInv'
<1>1. /\ mail' = [mail EXCEPT ![m] = [st |-> "processing", attempts |-> mail[m].attempts + 1,
                                      locked |-> TRUE]]
      /\ courier' = [courier EXCEPT ![c] = [mail |-> m, attempt |-> mail[m].attempts + 1,
                                            ans |-> "none"]]
  BY DEF ClaimMail
<1>2. mail[m].attempts \in Nat /\ \A d \in Couriers : courier[d].attempt \in Nat
  BY DEF OutboxInv, OutboxTypeOK
<1>3. \A n \in Mails : mail[n] \in [st : {"none", "pending", "processing"} \cup Settled,
                                    attempts : 0..MaxAttempts, locked : BOOLEAN]
  BY DEF OutboxInv, OutboxTypeOK
<1>4. \A d \in Couriers : Busy(d) /\ courier[d].mail = m => courier[d].attempt < mail[m].attempts + 1
  BY <1>2 DEF OutboxInv, HoldsAnAttempt, Row
<1>5. HoldsAnAttempt'
  <2> SUFFICES ASSUME NEW d \in Couriers, Busy(d)'
               PROVE  /\ courier'[d].mail \in Mails
                      /\ courier'[d].attempt <= mail'[courier'[d].mail].attempts
                      /\ mail'[courier'[d].mail].st # "none"
    BY DEF HoldsAnAttempt, Row
  <2>1. CASE d = c
    BY <1>1, <1>2, <1>3, <2>1 DEF OutboxInv, OutboxTypeOK
  <2>2. CASE d # c
    <3>1. Busy(d) /\ courier'[d] = courier[d]
      BY <1>1, <2>2 DEF Busy, OutboxInv, OutboxTypeOK
    <3>2. QED BY <1>1, <1>2, <1>4, <3>1 DEF OutboxInv, OutboxTypeOK, HoldsAnAttempt, Row
  <2>3. QED BY <2>1, <2>2
<1>6. AttemptIsOnes'
  <2>1. \A d \in Couriers \ {c} : courier'[d] = courier[d]
    BY <1>1 DEF OutboxInv, OutboxTypeOK
  <2>2. courier'[c].mail = m /\ courier'[c].attempt = mail[m].attempts + 1
    BY <1>1 DEF OutboxInv, OutboxTypeOK
  <2>3. \A d \in Couriers \ {c} :
          Busy(d)' /\ courier'[d].mail = m => courier'[d].attempt # courier'[c].attempt
    BY <1>2, <1>4, <2>1, <2>2 DEF Busy
  <2>4. QED BY <2>1, <2>2, <2>3 DEF OutboxInv, AttemptIsOnes, Busy
<1>7. OfferedIsFree'
  <2> SUFFICES ASSUME NEW d \in Couriers, Busy(d)',
                      mail'[courier'[d].mail].attempts = courier'[d].attempt
               PROVE  mail'[courier'[d].mail].st # "pending"
    BY DEF OfferedIsFree, Busy
  <2>1. CASE courier'[d].mail = m
    BY <1>1, <2>1 DEF OutboxInv, OutboxTypeOK
  <2>2. CASE courier'[d].mail # m
    <3>1. d # c
      BY <1>1, <2>2 DEF OutboxInv, OutboxTypeOK
    <3>2. Busy(d) /\ courier'[d] = courier[d]
      BY <1>1, <3>1 DEF Busy, OutboxInv, OutboxTypeOK
    <3>3. mail'[courier[d].mail] = mail[courier[d].mail]
      BY <1>1, <2>2, <3>2 DEF OutboxInv, OutboxTypeOK, HoldsAnAttempt
    <3>4. QED BY <3>2, <3>3 DEF OutboxInv, OfferedIsFree, Busy
  <2>3. QED BY <2>1, <2>2
<1>8. QED BY <1>5, <1>6, <1>7 DEF OutboxInv

(* An answer changes only what its courier remembers of it. *)
LEMMA DeliverInv ==
  ASSUME OutboxInv, OutboxTypeOK', NEW c \in Couriers, Deliver(c)
  PROVE  OutboxInv'
<1>1. /\ mail' = mail
      /\ \A d \in Couriers : Busy(d)' =>
           Busy(d) /\ courier'[d].mail = courier[d].mail /\ courier'[d].attempt = courier[d].attempt
  BY DEF Deliver, Busy, OutboxInv, OutboxTypeOK
<1>2. HoldsAnAttempt'
  BY <1>1 DEF OutboxInv, HoldsAnAttempt, Row
<1>3. AttemptIsOnes'
  BY <1>1 DEF OutboxInv, AttemptIsOnes
<1>4. OfferedIsFree'
  BY <1>1 DEF OutboxInv, OfferedIsFree, Busy
<1>5. QED BY <1>2, <1>3, <1>4 DEF OutboxInv

(* A settled attempt frees its courier; nobody else holds that attempt. *)
LEMMA FinishAttemptInv ==
  ASSUME OutboxInv, OutboxTypeOK', NEW c \in Couriers, FinishAttempt(c)
  PROVE  OutboxInv'
<1>1. Busy(c) /\ courier' = [courier EXCEPT ![c] = Free]
  BY DEF FinishAttempt, Busy
<1>2. courier[c].mail \in Mails
  BY <1>1 DEF OutboxInv, HoldsAnAttempt
<1>3. courier'[c] = Free /\ \A d \in Couriers \ {c} : courier'[d] = courier[d]
  BY <1>1 DEF OutboxInv, OutboxTypeOK
<1>4. CASE ~Mine(c)
  BY <1>3, <1>4, RowsChange DEF FinishAttempt
<1>5. CASE Mine(c)
  <2>1. mail' = SetMail(courier[c].mail, Outcome(c))
    BY <1>5 DEF FinishAttempt
  <2>2. Row(c).attempts = courier[c].attempt
    BY <1>5 DEF Mine, Row
  <2>3. \A m \in Mails : mail'[m].attempts = mail[m].attempts
    BY <1>2, <2>1 DEF SetMail, OutboxInv, OutboxTypeOK
  <2>4. \A m \in Mails : mail[m].st # "none" => mail'[m].st # "none"
    BY <1>2, <2>1 DEF SetMail, Outcome, OutboxInv, OutboxTypeOK
  <2>5. \A m \in Mails : mail'[m].st = "pending" => mail[m].st = "pending" \/ m = courier[c].mail
    BY <1>2, <2>1 DEF SetMail, OutboxInv, OutboxTypeOK
  <2>6. \A d \in Couriers : courier'[d] # Free /\ courier'[d].mail = courier[c].mail
                            => courier'[d].attempt # mail[courier[c].mail].attempts
    BY <1>1, <1>3, <2>2 DEF OutboxInv, AttemptIsOnes, Busy, Row
  <2>7. QED BY <1>3, <2>3, <2>4, <2>5, <2>6, RowsChange
<1>6. QED BY <1>4, <1>5

LEMMA CourierLostInv ==
  ASSUME OutboxInv, OutboxTypeOK', NEW c \in Couriers, CourierLost(c)
  PROVE  OutboxInv'
<1>1. mail' = mail /\ \A d \in Couriers : courier'[d] # Free => courier'[d] = courier[d]
  BY DEF CourierLost, OutboxInv, OutboxTypeOK
<1>2. QED BY <1>1, RowsChange

LEMMA RowStepInv ==
  ASSUME OutboxInv, OutboxTypeOK', NEW m \in Mails,
         InsertEmail(m) \/ LockLapses(m) \/ StopDelivery(m) \/ ContentExpires(m) \/ CancelMail(m)
           \/ BounceReported(m)
  PROVE  OutboxInv'
<1>1. courier' = courier
  BY DEF InsertEmail, LockLapses, StopDelivery, ContentExpires, CancelMail, BounceReported
<1>2. \/ mail' = mail \/ mail' = [mail EXCEPT ![m].locked = FALSE]
      \/ mail[m].st = "none" /\ mail' = [mail EXCEPT ![m].st = "pending"]
      \/ \E s \in Settled : mail' = [mail EXCEPT ![m].st = s, ![m].locked = FALSE]
  BY DEF InsertEmail, LockLapses, StopDelivery, ContentExpires, CancelMail, BounceReported, SetMail,
         Settled
<1>3. /\ \A n \in Mails : mail'[n].attempts = mail[n].attempts
      /\ \A n \in Mails : mail[n].st # "none" => mail'[n].st # "none"
      /\ \A n \in Mails : mail'[n].st = "pending" => mail[n].st \in {"none", "pending"}
  <2>1. mail \in [Mails -> MailRows]
    BY DEF OutboxInv, OutboxTypeOK, MailRows
  <2>2. CASE mail' = mail \/ mail' = [mail EXCEPT ![m].locked = FALSE]
    BY <2>1, <2>2, <1>1 DEF OutboxInv, OutboxTypeOK, MailRows, Settled
  <2>3. CASE mail[m].st = "none" /\ mail' = [mail EXCEPT ![m].st = "pending"]
    BY <2>1, <2>3 DEF MailRows, Settled
  <2>4. CASE \E s \in Settled : mail' = [mail EXCEPT ![m].st = s, ![m].locked = FALSE]
    BY <2>1, <2>4 DEF MailRows, Settled
  <2>5. QED BY <1>2, <2>2, <2>3, <2>4
<1>4. QED BY <1>1, <1>3, RowsChange

LEMMA OutboxNextInv == OutboxInv /\ [OutboxNext]_outbox => OutboxInv'
<1> SUFFICES ASSUME OutboxInv, [OutboxNext]_outbox PROVE OutboxInv'
  OBVIOUS
<1>1. OutboxTypeOK'
  BY OutboxTypeStep DEF OutboxInv
<1>2. CASE \E c \in Couriers, m \in Mails : ClaimMail(c, m)
  BY <1>1, <1>2, ClaimMailInv
<1>3. CASE \E c \in Couriers : Deliver(c) \/ FinishAttempt(c) \/ CourierLost(c)
  BY <1>1, <1>3, DeliverInv, FinishAttemptInv, CourierLostInv
<1>4. CASE \E m \in Mails : \/ InsertEmail(m) \/ LockLapses(m) \/ StopDelivery(m)
                            \/ ContentExpires(m) \/ CancelMail(m) \/ BounceReported(m)
  BY <1>1, <1>4, RowStepInv
<1>5. CASE (\E p \in blocked : Unblock(p)) \/ UNCHANGED outbox
  <2>1. mail' = mail /\ courier' = courier
    BY <1>5 DEF Unblock, outbox
  <2>2. QED BY <1>1, <2>1, RowsChange
<1>6. QED BY <1>2, <1>3, <1>4, <1>5 DEF OutboxNext

LEMMA OutboxInvAlways == OutboxSpec => []OutboxInv
  BY OutboxInitInv, OutboxNextInv, PTL DEF OutboxSpec

-----------------------------------------------------------------------------
(* No row runs out of the attempts it is allowed, and the queue holds what  *)
(* its columns may hold.                                                   *)
THEOREM OutboxTypeCorrect == OutboxSpec => []OutboxTypeOK
<1>1. OutboxInv => OutboxTypeOK
  BY DEF OutboxInv
<1>2. QED BY OutboxInvAlways, <1>1, PTL

(* claimEmailBatch and the settling statements, fenced by the attempt: a    *)
(* row that waits for its next attempt is in no courier's hands, so a late  *)
(* report of an earlier attempt settles nothing.                           *)
THEOREM LateReportsSettleNothing == OutboxSpec => []OfferedIsFree
<1>1. OutboxInv => OfferedIsFree
  BY DEF OutboxInv
<1>2. QED BY OutboxInvAlways, <1>1, PTL

-----------------------------------------------------------------------------
(***************************************************************************)
(* A page in a multiplayer room, for any controls, any number of intents   *)
(* and of lost answers: what a person meant once happens once, what the    *)
(* page was told happened did, and only a room that is gone ends it.       *)
(*                                                                         *)
(* The dispatcher keeps the id of an uncertain action exactly as long as   *)
(* the intent is the same: so an id and its intent are one, and the        *)
(* receipt of an id tells whether its intent has happened.  The argument   *)
(* needs that a page waits for its answer before it sends again.           *)
(***************************************************************************)

Types ==
  /\ LiveRoomTypeOK
  /\ applied \in [Ids -> Nat] /\ told \subseteq Ids

(* The id of a request stands for the intent it was sent for. *)
IdsAreIntents ==
  /\ request # Nothing => request.id = request.of /\ request.gen \in 0..generation
  /\ \A r \in late : r[1] = r[2]

(* Of a control with nothing in flight, the id that is kept is the intent  *)
(* that is open; an action in flight for this screen is the open one, and  *)
(* for an older screen nothing is open or kept.                            *)
KeptIsOpen ==
  /\ \A f \in Controls :
       (request = Nothing \/ request.control # f) => uncertain[f] = open[f]
  /\ request # Nothing /\ request.gen = generation => open[request.control] = request.of
  /\ request # Nothing /\ request.gen # generation =>
       \A f \in Controls : uncertain[f] = 0 /\ open[f] = 0

(* The receipts tell what has happened. *)
ReceiptsTell ==
  /\ \A i \in Ids : applied[i] = IF receipts[i] = 0 THEN 0 ELSE 1
  /\ request.at = "accepted" => applied[request.of] = 1
  /\ \A i \in told : applied[i] = 1

PollStands ==
  /\ reading # NoRead => ~ended /\ failures < 3
  /\ reading.at = "none" => reading = NoRead
  /\ failures = 3 => ended

RoomInv == Types /\ IdsAreIntents /\ KeptIsOpen /\ ReceiptsTell /\ PollStands

LEMMA Bounds ==
  /\ MaxSequence \in Nat \ {0} /\ MaxIntents \in Nat /\ MaxLosses \in Nat /\ Blips \in Nat
  /\ 0 \notin Ids /\ Ids \subseteq Nat
  BY LiveRoomAssumption DEF Ids

(* The request in flight. *)
Requests ==
  [at : {"sent", "accepted", "refused", "gone"}, id : Ids, of : Ids, control : Controls,
   gen : Nat, seq : 0..MaxSequence]

-----------------------------------------------------------------------------
LEMMA RoomInit == LiveRoomInit => RoomInv
<1> SUFFICES ASSUME LiveRoomInit PROVE RoomInv
  OBVIOUS
<1> USE DEF LiveRoomInit, Page
<1>1. Types
  <2>1. /\ room \in RoomRows /\ 1 \in 1..(MaxIntents + 1)
        /\ reading \in [at : {"none", "asked", "ok", "unavailable"}, seq : 0..MaxSequence]
    BY Bounds DEF NoRead, RoomRows
  <2>2. latest \in 0..MaxSequence /\ shown \in 0..MaxSequence /\ losses \in 0..MaxLosses
    BY Bounds
  <2>3. receipts \in [Ids -> 0..MaxSequence] /\ applied \in [Ids -> Nat]
    BY Bounds
  <2>4. uncertain \in [Controls -> {0} \cup Ids] /\ open \in [Controls -> {0} \cup Ids]
    OBVIOUS
  <2>5. failures \in 0..3 /\ ended \in BOOLEAN /\ unavailable \in BOOLEAN
    <3>1. failures = 0 /\ ended = FALSE /\ unavailable = FALSE
      OBVIOUS
    <3>2. failures \in 0..3
      BY <3>1
    <3>3. QED BY Zenon, <3>1, <3>2
  <2>6. QED BY <2>1, <2>2, <2>3, <2>4, <2>5 DEF Types, LiveRoomTypeOK
<1>2. IdsAreIntents /\ KeptIsOpen
  BY DEF IdsAreIntents, KeptIsOpen
<1>3. ReceiptsTell
  BY DEF ReceiptsTell, Nothing
<1>4. PollStands
  BY DEF PollStands
<1>5. QED BY <1>1, <1>2, <1>3, <1>4 DEF RoomInv

(* A step of the room alone, or of the poll. *)
LEMMA RoomMoves ==
  ASSUME RoomInv, OthersAct \/ RoomCloses
  PROVE  RoomInv'
<1>1. /\ UNCHANGED <<receipts, late, latest, shown, generation, uncertain, request, nextId, open,
                     told, reading, failures, ended, unavailable, losses, applied>>
      /\ room' \in RoomRows
  <2>1. room \in RoomRows
    BY DEF RoomInv, Types, LiveRoomTypeOK
  <2>2. CASE OthersAct
    <3>1. room.seq + 1 \in 1..MaxSequence /\ room' = [room EXCEPT !.seq = room.seq + 1]
      BY <2>1, <2>2, Bounds DEF OthersAct, RoomRows
    <3>2. QED BY <2>1, <2>2, <3>1 DEF OthersAct, action, poll, RoomRows
  <2>3. CASE RoomCloses
    BY <2>1, <2>3 DEF RoomCloses, action, poll, RoomRows
  <2>4. QED BY <2>2, <2>3
<1>2. Types'
  BY <1>1 DEF RoomInv, Types, LiveRoomTypeOK
<1>3. IdsAreIntents' /\ KeptIsOpen' /\ ReceiptsTell' /\ PollStands'
  BY <1>1 DEF RoomInv, IdsAreIntents, KeptIsOpen, ReceiptsTell, PollStands
<1>4. QED BY <1>2, <1>3 DEF RoomInv

LEMMA PollMoves ==
  ASSUME RoomInv, StartRead \/ ReadRoom \/ ReadAnswered \/ Unreachable
  PROVE  RoomInv'
<1>1. UNCHANGED <<room, receipts, late, shown, generation, uncertain, request, nextId, open, told,
                  unavailable, applied>>
  BY DEF StartRead, ReadRoom, ReadAnswered, Unreachable, server, action
<1>2. Types
  BY DEF RoomInv
<1>3. IdsAreIntents' /\ KeptIsOpen' /\ ReceiptsTell'
  BY <1>1 DEF RoomInv, IdsAreIntents, KeptIsOpen, ReceiptsTell
<1>4. /\ reading' \in [at : {"none", "asked", "ok", "unavailable"}, seq : 0..MaxSequence]
      /\ latest' \in 0..MaxSequence
      /\ failures' \in 0..3 /\ ended' \in BOOLEAN /\ losses' \in 0..MaxLosses
      /\ PollStands'
  <2>1. CASE StartRead
    BY <1>2, <2>1 DEF StartRead, RoomInv, PollStands, Types, LiveRoomTypeOK, NoRead
  <2>2. CASE ReadRoom
    <3>1. reading # NoRead /\ reading'.at \in {"ok", "unavailable"}
      BY <2>2 DEF ReadRoom, NoRead
    <3>2. reading' \in [at : {"none", "asked", "ok", "unavailable"}, seq : 0..MaxSequence]
      <4>1. room.seq \in 0..MaxSequence /\ 0 \in 0..MaxSequence
        BY <1>2, Bounds DEF Types, LiveRoomTypeOK, RoomRows
      <4>2. QED BY <2>2, <4>1 DEF ReadRoom
    <3>3. UNCHANGED <<latest, failures, ended, losses>>
      BY <2>2 DEF ReadRoom
    <3>4. QED BY <1>2, <3>1, <3>2, <3>3 DEF RoomInv, PollStands, Types, LiveRoomTypeOK
  <2>3. CASE ReadAnswered
    <3>1. /\ reading \in [at : {"none", "asked", "ok", "unavailable"}, seq : 0..MaxSequence]
          /\ reading # NoRead /\ latest \in 0..MaxSequence /\ failures \in 0..3
      BY <1>2, <2>3 DEF ReadAnswered, Types, LiveRoomTypeOK, NoRead
    <3>2. failures \in 0..2
      BY <3>1 DEF RoomInv, PollStands
    <3>3. /\ failures' \in 0..3 /\ ended' \in BOOLEAN
          /\ failures' >= 3 => ended'
      <4>1. failures' = Failures /\ Failures \in 0..3 /\ ended' = Ends(Failures)
        BY <2>3, <3>2 DEF ReadAnswered, Failures
      <4>2. CASE Failures >= 3
        BY <4>1, <4>2 DEF Ends
      <4>3. CASE ~(Failures >= 3)
        BY <4>1, <4>3 DEF Ends
      <4>4. QED BY <4>2, <4>3
    <3>4. latest' \in {0, reading.seq, latest}
      BY <2>3, <3>3 DEF ReadAnswered, Newest
    <3>5. reading' = NoRead /\ losses' = losses
      BY <2>3 DEF ReadAnswered
    <3>6. NoRead \in [at : {"none", "asked", "ok", "unavailable"}, seq : 0..MaxSequence]
      BY Bounds DEF NoRead
    <3>7. latest' \in 0..MaxSequence
      BY <3>1, <3>4, Bounds
    <3>8. PollStands'
      BY <3>3, <3>5 DEF PollStands
    <3>9. QED BY <1>2, <3>3, <3>5, <3>6, <3>7, <3>8 DEF Types, LiveRoomTypeOK
  <2>4. CASE Unreachable
    <3>1. reading' = NoRead /\ losses' = losses + 1 /\ losses < MaxLosses
          /\ UNCHANGED <<latest, failures, ended>>
      BY <2>4 DEF Unreachable
    <3>2. losses' \in 0..MaxLosses
      BY <1>2, <3>1, Bounds DEF Types, LiveRoomTypeOK
    <3>3. NoRead \in [at : {"none", "asked", "ok", "unavailable"}, seq : 0..MaxSequence]
      BY Bounds DEF NoRead
    <3>4. QED BY <1>2, <3>1, <3>2, <3>3 DEF RoomInv, PollStands, Types, LiveRoomTypeOK
  <2>5. QED BY <2>1, <2>2, <2>3, <2>4
<1>5. Types'
  BY <1>1, <1>2, <1>4 DEF Types, LiveRoomTypeOK
<1>6. QED BY <1>3, <1>4, <1>5 DEF RoomInv

(* The server: an action that has no receipt has not happened. *)
LEMMA TransitionTells ==
  ASSUME RoomInv, NEW i \in Ids, NEW ans, NEW seq \in 0..MaxSequence, Transition(i, i, ans, seq)
  PROVE  /\ room' \in RoomRows
         /\ receipts' \in [Ids -> 0..MaxSequence] /\ applied' \in [Ids -> Nat]
         /\ \A j \in Ids : applied'[j] = IF receipts'[j] = 0 THEN 0 ELSE 1
         /\ \A j \in Ids : applied[j] = 1 => applied'[j] = 1
         /\ ans = "accepted" => applied'[i] = 1
         /\ ans = "gone" => ~room.open
<1>1. /\ room \in RoomRows /\ receipts \in [Ids -> 0..MaxSequence]
      /\ applied \in [Ids -> Nat]
      /\ \A j \in Ids : applied[j] = IF receipts[j] = 0 THEN 0 ELSE 1
  BY DEF RoomInv, Types, LiveRoomTypeOK, ReceiptsTell
<1>2. CASE UNCHANGED <<server, applied>>
  BY <1>1, <1>2 DEF Transition, server
<1>3. CASE /\ room.open /\ receipts[i] = 0 /\ room.seq < MaxSequence
           /\ ans = "accepted" /\ seq = room.seq + 1
           /\ room' = [room EXCEPT !.seq = seq]
           /\ receipts' = [receipts EXCEPT ![i] = seq]
           /\ applied' = [applied EXCEPT ![i] = @ + 1]
  <2>1. seq \in 1..MaxSequence /\ seq # 0
    BY <1>1, <1>3, Bounds DEF RoomRows
  <2>2. applied[i] = 0 /\ applied' = [applied EXCEPT ![i] = 1]
    <3>1. applied[i] = 0
      BY <1>1, <1>3
    <3>2. applied' = [applied EXCEPT ![i] = applied[i] + 1]
      BY <1>1, <1>3
    <3>3. QED BY <3>1, <3>2
  <2>3. room' \in RoomRows
    BY <1>1, <1>3, <2>1 DEF RoomRows
  <2>4. QED BY <1>1, <1>3, <2>1, <2>2, <2>3
<1>4. QED BY <1>2, <1>3 DEF Transition

-----------------------------------------------------------------------------
(* The dispatcher. *)

LEMMA InFlight ==
  ASSUME Types
  PROVE  /\ request # Nothing => request \in Requests
         /\ request = Nothing => request.at = "none"
<1>1. request = Nothing \/ request \in Requests
  BY DEF Types, LiveRoomTypeOK, Requests
<1>2. Nothing.at = "none"
  BY DEF Nothing
<1>3. QED BY <1>1, <1>2

(* What is pressed anew gets the next id as its intent and as its action's. *)
LEMMA PressKeeps ==
  ASSUME RoomInv, NEW f \in Controls, Press(f)
  PROVE  RoomInv'
<1>1. Types /\ request = Nothing /\ uncertain[f] = open[f] /\ nextId \in Ids
      /\ uncertain[f] \in {0} \cup Ids /\ generation \in Nat
  BY DEF Press, RoomInv, KeptIsOpen, Types, LiveRoomTypeOK
<1>2. PICK i \in Ids : i = ActionId(f) /\ i = Intent(f)
  BY <1>1 DEF ActionId, Intent
<1>3. /\ request' = [at |-> "sent", id |-> i, of |-> i, control |-> f, gen |-> generation,
                     seq |-> 0]
      /\ open' = [open EXCEPT ![f] = i] /\ nextId' \in {nextId, nextId + 1}
      /\ UNCHANGED <<room, receipts, late, latest, shown, generation, uncertain, reading,
                     failures, ended, unavailable, losses, applied, told>>
  BY <1>2 DEF Press, server, poll
<1>4. Types'
  <2>1. request' \in Requests
    BY <1>1, <1>3, Bounds DEF Requests
  <2>2. nextId' \in 1..(MaxIntents + 1)
    BY <1>1, <1>3, Bounds DEF Ids
  <2>3. open' \in [Controls -> {0} \cup Ids]
    BY <1>1, <1>3 DEF Types, LiveRoomTypeOK
  <2>4. QED BY <1>1, <1>3, <2>1, <2>2, <2>3 DEF Types, LiveRoomTypeOK, Requests
<1>5. /\ request' # Nothing /\ request'.id = i /\ request'.of = i /\ request'.gen = generation
      /\ request'.control = f /\ request'.at = "sent"
  BY <1>3 DEF Nothing
<1>6. IdsAreIntents'
  BY <1>1, <1>3, <1>5 DEF RoomInv, IdsAreIntents
<1>7. KeptIsOpen'
  BY <1>1, <1>3, <1>5 DEF RoomInv, KeptIsOpen, Types, LiveRoomTypeOK
<1>8. ReceiptsTell' /\ PollStands'
  BY <1>3, <1>5 DEF RoomInv, ReceiptsTell, PollStands
<1>9. QED BY <1>4, <1>6, <1>7, <1>8 DEF RoomInv

LEMMA ArrivesKeeps ==
  ASSUME RoomInv, Arrives
  PROVE  RoomInv'
<1>1. Types /\ request.at = "sent" /\ request # Nothing /\ request \in Requests
  BY InFlight DEF Arrives, RoomInv
<1>2. PICK ans \in {"accepted", "refused", "gone"}, seq \in 0..MaxSequence :
        /\ Transition(request.id, request.of, ans, seq)
        /\ request' = [request EXCEPT !.at = ans, !.seq = seq]
  BY DEF Arrives
<1>3. PICK i \in Ids : i = request.id /\ i = request.of
  BY <1>1 DEF RoomInv, IdsAreIntents, Requests
<1>4. Transition(i, i, ans, seq)
  BY <1>2, <1>3
<1>5. /\ room' \in RoomRows
      /\ receipts' \in [Ids -> 0..MaxSequence] /\ applied' \in [Ids -> Nat]
      /\ \A j \in Ids : applied'[j] = IF receipts'[j] = 0 THEN 0 ELSE 1
      /\ \A j \in Ids : applied[j] = 1 => applied'[j] = 1
      /\ ans = "accepted" => applied'[i] = 1
  BY <1>4, TransitionTells
<1>6. /\ request' \in Requests /\ request'.at = ans /\ request'.id = i /\ request'.of = i
      /\ request'.control = request.control /\ request'.gen = request.gen /\ request' # Nothing
  BY <1>1, <1>2, <1>3 DEF Requests, Nothing
<1>7. UNCHANGED <<late, latest, shown, generation, uncertain, nextId, open, told, reading,
                  failures, ended, unavailable, losses>>
  BY DEF Arrives, poll
<1>8. Types'
  BY <1>1, <1>5, <1>6, <1>7 DEF Types, LiveRoomTypeOK, Requests
<1>9. IdsAreIntents' /\ PollStands'
  BY <1>1, <1>6, <1>7 DEF RoomInv, IdsAreIntents, PollStands
<1>10. KeptIsOpen'
  BY <1>1, <1>3, <1>6, <1>7 DEF RoomInv, KeptIsOpen
<1>11. ReceiptsTell'
  BY <1>1, <1>5, <1>6, <1>7 DEF RoomInv, Types, ReceiptsTell
<1>12. QED BY <1>8, <1>9, <1>10, <1>11 DEF RoomInv

LEMMA ArrivesLateKeeps ==
  ASSUME RoomInv, ArrivesLate
  PROVE  RoomInv'
<1>1. Types
  BY DEF RoomInv
<1>2. PICK r \in late, ans \in {"accepted", "refused", "gone"}, seq \in 0..MaxSequence :
        Transition(r[1], r[2], ans, seq) /\ late' = late \ {r}
  BY DEF ArrivesLate
<1>3. PICK i \in Ids : i = r[1] /\ i = r[2]
  BY <1>1, <1>2 DEF RoomInv, IdsAreIntents, Types, LiveRoomTypeOK
<1>4. Transition(i, i, ans, seq)
  BY <1>2, <1>3
<1>5. /\ room' \in RoomRows
      /\ receipts' \in [Ids -> 0..MaxSequence] /\ applied' \in [Ids -> Nat]
      /\ \A j \in Ids : applied'[j] = IF receipts'[j] = 0 THEN 0 ELSE 1
      /\ \A j \in Ids : applied[j] = 1 => applied'[j] = 1
  BY <1>4, TransitionTells
<1>6. UNCHANGED <<latest, shown, generation, uncertain, request, nextId, open, told, reading,
                  failures, ended, unavailable, losses>>
  BY DEF ArrivesLate, action, poll
<1>7. Types'
  BY <1>1, <1>2, <1>5, <1>6 DEF Types, LiveRoomTypeOK
<1>8. IdsAreIntents' /\ KeptIsOpen' /\ PollStands'
  BY <1>2, <1>6 DEF RoomInv, IdsAreIntents, KeptIsOpen, PollStands
<1>9. request.at = "accepted" => request.of \in Ids
  BY <1>1, InFlight DEF Requests
<1>10. ReceiptsTell'
  BY <1>1, <1>5, <1>6, <1>9 DEF RoomInv, Types, ReceiptsTell
<1>11. QED BY <1>7, <1>8, <1>10 DEF RoomInv

LEMMA AnsweredKeeps ==
  ASSUME RoomInv, Answered
  PROVE  RoomInv'
<1>1. Types /\ request # Nothing /\ request \in Requests
  BY InFlight DEF Answered, RoomInv
<1>2. PICK f \in Controls, i \in Ids : f = request.control /\ i = request.of
  BY <1>1 DEF Requests
<1>3. /\ uncertain' = [uncertain EXCEPT ![f] = 0]
      /\ open' = IF open[f] = i THEN [open EXCEPT ![f] = 0] ELSE open
      /\ told' = IF request.at = "accepted" THEN told \cup {i} ELSE told
      /\ request' = Nothing
      /\ UNCHANGED <<room, receipts, late, shown, generation, nextId, reading, failures, ended,
                     losses, applied>>
  BY <1>2 DEF Answered, server, poll
<1>4. latest' \in 0..MaxSequence /\ unavailable' \in BOOLEAN
  BY <1>1 DEF Answered, Requests, Types, LiveRoomTypeOK, Newest
<1>5. Types'
  BY <1>1, <1>2, <1>3, <1>4 DEF Types, LiveRoomTypeOK
<1>6. IdsAreIntents' /\ PollStands'
  BY <1>3 DEF RoomInv, IdsAreIntents, PollStands
<1>7. KeptIsOpen'
  BY <1>1, <1>2, <1>3 DEF RoomInv, KeptIsOpen, Types, LiveRoomTypeOK
<1>8. ReceiptsTell'
  BY <1>1, <1>2, <1>3 DEF RoomInv, ReceiptsTell, Nothing
<1>9. QED BY <1>5, <1>6, <1>7, <1>8 DEF RoomInv

LEMMA FailsKeeps ==
  ASSUME RoomInv, Fails
  PROVE  RoomInv'
<1>1. Types /\ request # Nothing /\ request \in Requests
  BY InFlight DEF Fails, RoomInv
<1>2. PICK f \in Controls, i \in Ids : f = request.control /\ i = request.of /\ i = request.id
  BY <1>1 DEF Requests, RoomInv, IdsAreIntents
<1>3. /\ uncertain' = IF request.gen = generation THEN [uncertain EXCEPT ![f] = i] ELSE uncertain
      /\ late' \in {late, late \cup {<<i, i>>}} /\ losses < MaxLosses /\ losses' = losses + 1
      /\ request' = Nothing
      /\ UNCHANGED <<room, receipts, latest, shown, generation, nextId, open, told, reading,
                     failures, ended, unavailable, applied>>
  BY <1>2 DEF Fails, Kept, server, poll
<1>4. Types'
  <2>1. uncertain' \in [Controls -> {0} \cup Ids] /\ late' \subseteq (Ids \X Ids)
    BY <1>1, <1>2, <1>3 DEF Types, LiveRoomTypeOK
  <2>2. losses' \in 0..MaxLosses
    BY <1>1, <1>3, Bounds DEF Types, LiveRoomTypeOK
  <2>3. QED BY <1>1, <1>3, <2>1, <2>2 DEF Types, LiveRoomTypeOK
<1>5. IdsAreIntents' /\ PollStands'
  BY <1>3 DEF RoomInv, IdsAreIntents, PollStands
<1>6. KeptIsOpen'
  BY <1>1, <1>2, <1>3 DEF RoomInv, KeptIsOpen, Types, LiveRoomTypeOK
<1>7. ReceiptsTell'
  BY <1>3 DEF RoomInv, ReceiptsTell, Nothing
<1>8. QED BY <1>4, <1>5, <1>6, <1>7 DEF RoomInv

LEMMA RenderKeeps ==
  ASSUME RoomInv, Render
  PROVE  RoomInv'
<1>1. /\ shown' = latest /\ generation' = generation + 1
      /\ uncertain' = [f \in Controls |-> 0] /\ open' = [f \in Controls |-> 0]
      /\ UNCHANGED <<room, receipts, late, latest, request, nextId, told, reading, failures,
                     ended, unavailable, losses, applied>>
  BY DEF Render, server, poll
<1>2. Types'
  BY <1>1 DEF RoomInv, Types, LiveRoomTypeOK
<1>3. generation \in Nat
  BY DEF RoomInv, Types, LiveRoomTypeOK
<1>4. IdsAreIntents' /\ ReceiptsTell' /\ PollStands'
  BY <1>1, <1>3 DEF RoomInv, IdsAreIntents, ReceiptsTell, PollStands
<1>5. request # Nothing => request.gen # generation'
  BY <1>1, <1>3 DEF RoomInv, IdsAreIntents
<1>6. KeptIsOpen'
  BY <1>1, <1>5 DEF KeptIsOpen
<1>7. QED BY <1>2, <1>4, <1>6 DEF RoomInv

LEMMA RoomStep ==
  ASSUME RoomInv, [LiveRoomNext]_roomvars
  PROVE  RoomInv'
<1>1. CASE UNCHANGED roomvars
  <2>1. Types'
    BY <1>1 DEF roomvars, RoomInv, Types, LiveRoomTypeOK
  <2>2. IdsAreIntents' /\ KeptIsOpen' /\ ReceiptsTell' /\ PollStands'
    BY <1>1 DEF roomvars, RoomInv, IdsAreIntents, KeptIsOpen, ReceiptsTell, PollStands
  <2>3. QED BY <2>1, <2>2 DEF RoomInv
<1>2. CASE \E f \in Controls : Press(f)
  BY <1>2, PressKeeps
<1>3. QED BY <1>1, <1>2, RoomMoves, PollMoves, ArrivesKeeps, ArrivesLateKeeps, AnsweredKeeps,
             FailsKeeps, RenderKeeps DEF LiveRoomNext

LEMMA RoomInvariant == LiveRoomSpec => []RoomInv
  BY RoomInit, RoomStep, PTL DEF LiveRoomSpec

-----------------------------------------------------------------------------
(* Room, dispatcher and poll keep their types: among them, that no more than *)
(* three reads in a row find the room unavailable before the page has ended. *)
THEOREM LiveRoomTypeCorrect == LiveRoomSpec => []LiveRoomTypeOK
<1>1. RoomInv => LiveRoomTypeOK
  BY DEF RoomInv, Types
<1>2. QED BY <1>1, RoomInvariant, PTL

(* useReliableMultiplayerAction and transitionPostgresRoom together: however *)
(* often a control is pressed and a request is repeated or late, what was  *)
(* meant once happens at most once.                                        *)
THEOREM MeantOnce == LiveRoomSpec => []MeantOnceHappensOnce
<1>1. RoomInv => MeantOnceHappensOnce
  BY DEF RoomInv, ReceiptsTell, MeantOnceHappensOnce
<1>2. QED BY <1>1, RoomInvariant, PTL

(* An action reported accepted has happened: the receipt that answered for *)
(* it was its own.                                                         *)
THEOREM ToldIsTrue == LiveRoomSpec => []AcceptedHappened
<1>1. RoomInv => AcceptedHappened
  BY DEF RoomInv, ReceiptsTell, AcceptedHappened
<1>2. QED BY <1>1, RoomInvariant, PTL

-----------------------------------------------------------------------------
(* What ends the page was found out about a room that is gone. *)
GoneIsGone ==
  /\ Over => ~room.open
  /\ request.at = "gone" => ~room.open
  /\ reading.at = "unavailable" => ~room.open \/ failures < Blips

LEMMA GoneStep ==
  ASSUME RoomInv, GoneIsGone, Blips < 3, [LiveRoomNext]_roomvars
  PROVE  GoneIsGone'
<1> USE DEF GoneIsGone
<1>0. Types
  BY DEF RoomInv
<1>1. CASE OthersAct \/ RoomCloses
  <2>1. room.open' => room.open
    <3>1. room \in RoomRows
      BY <1>0 DEF Types, LiveRoomTypeOK
    <3>2. CASE OthersAct
      BY <3>1, <3>2 DEF OthersAct, RoomRows
    <3>3. CASE RoomCloses
      BY <3>1, <3>3 DEF RoomCloses, RoomRows
    <3>4. QED BY <1>1, <3>2, <3>3
  <2>2. UNCHANGED <<ended, unavailable, failures, reading, request>>
    BY <1>1 DEF OthersAct, RoomCloses, action, poll
  <2>3. QED BY <2>1, <2>2 DEF Over
<1>2. CASE \E f \in Controls : Press(f)
  BY <1>2 DEF Press, Over, server, poll
<1>3. CASE Arrives
  BY <1>0, <1>3 DEF Arrives, Transition, Over, server, poll, Types, LiveRoomTypeOK, Nothing
<1>4. CASE ArrivesLate
  BY <1>0, <1>4 DEF ArrivesLate, Transition, Over, server, action, poll, Types, LiveRoomTypeOK
<1>5. CASE Answered
  BY <1>5 DEF Answered, Over, server, poll, Nothing
<1>6. CASE Fails \/ Render
  BY <1>6 DEF Fails, Render, Over, server, poll, Nothing
<1>7. CASE StartRead \/ ReadRoom \/ Unreachable
  BY <1>0, <1>7 DEF StartRead, ReadRoom, Unreachable, Over, server, action, NoRead, Types,
                    LiveRoomTypeOK
<1>8. CASE ReadAnswered
  <2>1. /\ UNCHANGED <<room, request, unavailable>> /\ reading'.at = "none"
        /\ failures' = Failures /\ (failures' < 3 => ~ended')
    <3>1. UNCHANGED <<room, request, unavailable>> /\ reading'.at = "none"
      BY <1>8 DEF ReadAnswered, server, action, NoRead
    <3>2. failures' = Failures /\ ended' = Ends(Failures) /\ Failures \in Nat
      BY <1>0, <1>8 DEF ReadAnswered, Failures, Types, LiveRoomTypeOK
    <3>3. Failures < 3 => ~Ends(Failures)
      BY <3>2 DEF Ends
    <3>4. QED BY <3>1, <3>2, <3>3
  <2>2. failures \in Nat /\ Blips \in Nat /\ (failures < 3)
    BY <1>0, <1>8, Bounds DEF ReadAnswered, RoomInv, PollStands, NoRead, Types, LiveRoomTypeOK
  <2>3. CASE reading.at = "unavailable" /\ room.open
    <3>1. failures < Blips
      BY <2>3
    <3>2. failures' < 3
      BY <2>1, <2>2, <2>3, <3>1 DEF Failures
    <3>3. ~ended'
      BY <2>1, <3>2
    <3>4. QED BY <2>1, <3>3 DEF Over
  <2>4. CASE reading.at # "unavailable"
    <3>1. failures' < 3
      BY <2>1, <2>4 DEF Failures
    <3>2. QED BY <2>1, <2>4, <3>1 DEF Over
  <2>5. CASE ~room.open
    BY <2>1, <2>5
  <2>6. QED BY <2>3, <2>4, <2>5
<1>9. CASE UNCHANGED roomvars
  BY <1>9 DEF roomvars, Over
<1>10. QED BY <1>1, <1>2, <1>3, <1>4, <1>5, <1>6, <1>7, <1>8, <1>9 DEF LiveRoomNext

(* useLiveRoomSnapshot ends after UNAVAILABLE_READS_BEFORE_ENDING reads, and  *)
(* an action ends the session that finds its room gone: if a live room is  *)
(* never reported unavailable more than twice in a row, only a room that is *)
(* gone ends a page.                                                       *)
THEOREM OnlyGoneEnds == ASSUME Blips < 3 PROVE LiveRoomSpec => []LiveRoomGoesOn
<1>1. LiveRoomInit => GoneIsGone
  <2> SUFFICES ASSUME LiveRoomInit PROVE GoneIsGone
    OBVIOUS
  <2>1. request.at = "none" /\ reading.at = "none"
    BY DEF LiveRoomInit, Page, Nothing, NoRead
  <2>2. ended = FALSE /\ unavailable = FALSE
    BY DEF LiveRoomInit, Page
  <2>3. QED BY <2>1, <2>2 DEF GoneIsGone, Over
<1>2. RoomInv /\ GoneIsGone /\ [LiveRoomNext]_roomvars => GoneIsGone'
  BY GoneStep
<1>3. GoneIsGone => LiveRoomGoesOn
  BY DEF GoneIsGone, LiveRoomGoesOn
<1>4. QED BY <1>1, <1>2, <1>3, RoomInvariant, PTL DEF LiveRoomSpec

-----------------------------------------------------------------------------
(***************************************************************************)
(* The waitlist, for any types, quantities, capacities and people.  The    *)
(* turns of the line are a recursive function, which is shown to exist and *)
(* then followed turn by turn: were there a turn where a fact fails, there *)
(* would be a first.  Two invariants carry the properties.  WaitInv: the   *)
(* types, that told is queued, and that whoever stands in the line         *)
(* confirmed once.  PlacesInv: what was told or is credited is within what *)
(* came free, and would be if all that is on sale and was not seen were    *)
(* credited as well.                                                       *)
(***************************************************************************)

(* Counting. *)

(* Of some natural numbers one is the least. *)
LEMMA LeastNumber ==
  ASSUME NEW S \in SUBSET Nat, S # {}
  PROVE  \E n \in S : \A m \in S : n <= m
<1>1. \E n \in S : \A m \in S : ~(<<m, n>> \in OpToRel(<, Nat))
  BY NatLessThanWellFounded, WFMin
<1>2. PICK n \in S : \A m \in S : ~(m < n)
  BY <1>1 DEF OpToRel
<1> QED BY <1>2

(* The smaller of two numbers. *)
LEMMA MinOfTwo ==
  ASSUME NEW a \in Nat, NEW b \in Nat
  PROVE  Min({a, b}) = IF a <= b THEN a ELSE b
<1>1. CASE a <= b
  <2>1. \A y \in {a, b} : a <= y
    BY <1>1
  <2>2. \A x \in {a, b} : (\A y \in {a, b} : x <= y) => x = a
    BY <1>1
  <2> QED BY <1>1, <2>1, <2>2 DEF Min
<1>2. CASE ~(a <= b)
  <2>1. \A y \in {a, b} : b <= y
    BY <1>2
  <2>2. \A x \in {a, b} : (\A y \in {a, b} : x <= y) => x = b
    BY <1>2
  <2> QED BY <1>2, <2>1, <2>2 DEF Min
<1> QED BY <1>1, <1>2

(* The largest of some numbers up to a bound is one of them. *)
LEMMA MaxUpTo ==
  ASSUME NEW S \in SUBSET Nat, S # {}, NEW b \in Nat, \A n \in S : n <= b
  PROVE  Max(S) \in S
<1> DEFINE T == {k \in Nat : \E n \in S : n + k = b}
<1>1. T # {}
  <2>1. PICK n \in S : n <= b
    OBVIOUS
  <2>2. b - n \in Nat /\ n + (b - n) = b
    BY <2>1
  <2> QED BY <2>2
<1>2. PICK k \in T : \A m \in T : k <= m
  BY <1>1, LeastNumber
<1>3. PICK n \in S : n + k = b
  BY <1>2
<1>4. \A y \in S : n >= y
  <2>1. TAKE y \in S
  <2>2. b - y \in Nat /\ y + (b - y) = b
    OBVIOUS
  <2>3. k <= b - y
    BY <1>2, <2>2
  <2> QED BY <1>3, <2>3
<1> QED BY <1>4 DEF Max

LEMMA KindsFinite == IsFiniteSet(Kinds) /\ IsFiniteSet(Scopes)
<1>1. TypeOrder \in Seq(Kinds)
  BY WaitlistAssumption
<1>2. Len(TypeOrder) \in Nat /\ DOMAIN TypeOrder = 1..Len(TypeOrder)
  BY <1>1
<1>3. IsFiniteSet(1..Len(TypeOrder))
  BY <1>2, FS_Interval
<1>4. TypeOrder \in Surjection(1..Len(TypeOrder), Kinds)
  BY <1>1, <1>2 DEF Surjection, Kinds, Range
<1>5. IsFiniteSet(Kinds)
  BY <1>3, <1>4, FS_Surjection
<1> QED BY <1>5, FS_AddElement DEF Scopes

(* A sum is the size of a set of places. *)
Places(f) == UNION {{t} \X (1..f[t]) : t \in Kinds}
Counts(f) == \A t \in Kinds : f[t] \in Nat

LEMMA PlaceOf ==
  ASSUME NEW f, NEW x
  PROVE  x \in Places(f) <=> \E t \in Kinds : \E i \in 1..f[t] : x = <<t, i>>
  BY DEF Places

(* There are finitely many. *)
LEMMA PlacesFinite ==
  ASSUME NEW f, Counts(f)
  PROVE  IsFiniteSet(Places(f)) /\ Total(f) \in Nat /\ Total(f) = Cardinality(Places(f))
<1> DEFINE g == [t \in Kinds |-> {t} \X (1..f[t])]
           G == {{t} \X (1..f[t]) : t \in Kinds}
<1>1. g \in Surjection(Kinds, G)
  BY DEF Surjection
<1>2. IsFiniteSet(G)
  <2> HIDE DEF g, G
  <2> QED BY <1>1, KindsFinite, FS_Surjection
<1>3. \A T \in G : IsFiniteSet(T)
  <2>1. SUFFICES ASSUME NEW t \in Kinds PROVE IsFiniteSet({t} \X (1..f[t]))
    OBVIOUS
  <2>2. IsFiniteSet({t})
    BY FS_Singleton
  <2>3. f[t] \in Int
    BY DEF Counts
  <2>4. IsFiniteSet(1..f[t])
    BY <2>3, FS_Interval
  <2> QED BY <2>2, <2>4, FS_Product
<1>4. IsFiniteSet(UNION G)
  <2> HIDE DEF G
  <2> QED BY <1>2, <1>3, FS_UNION
<1> QED BY <1>4, FS_CardinalityType DEF Total, Places

-----------------------------------------------------------------------------
(* What is free, and what is credited. *)

EventTyped ==
  /\ sold \in [Kinds -> Nat] /\ \A t \in Kinds : sold[t] <= Quantity[t]
  /\ capacity \in Capacities

(* A type has no more on sale than it has places, or than the event has. *)
LEMMA AvailableCounted ==
  ASSUME EventTyped
  PROVE  /\ Available \in [Scopes -> Nat]
         /\ \A t \in Kinds : Available[t] <= Raw[t] /\ Available[t] <= Available[Event]
<1>1. Raw \in [Kinds -> Nat]
  BY WaitlistAssumption DEF EventTyped, Raw, Difference
<1>2. Total(Raw) \in Nat /\ Total(sold) \in Nat
  BY <1>1, PlacesFinite DEF Counts, EventTyped
<1>3. PlacesLeft \in Nat
  BY <1>2, WaitlistAssumption DEF EventTyped, PlacesLeft, Difference
<1> DEFINE all == Min({Total(Raw), PlacesLeft})
<1>4. all \in Nat
  BY <1>2, <1>3, MinOfTwo
<1> HIDE DEF all
<1>5. \A t \in Kinds : Min({Raw[t], all}) \in Nat /\ Min({Raw[t], all}) <= Raw[t] /\ Min({Raw[t], all}) <= all
  BY <1>1, <1>4, MinOfTwo
<1>6. Available = [s \in Scopes |-> IF s = Event THEN all ELSE Min({Raw[s], all})]
  BY DEF Available, all
<1> QED BY <1>4, <1>5, <1>6, WaitlistAssumption DEF Scopes

(* The same after a step. *)
LEMMA AvailableCountedNext ==
  ASSUME EventTyped'
  PROVE  Available'[Event] \in Nat
<1>1. Raw' \in [Kinds -> Nat]
  BY WaitlistAssumption DEF EventTyped, Raw, Difference
<1>2. Total(Raw)' \in Nat /\ Total(sold)' \in Nat
  <2>1. Total(Raw') \in Nat /\ Total(sold') \in Nat
    BY <1>1, PlacesFinite DEF Counts, EventTyped
  <2> QED BY <2>1 DEF Total
<1>3. PlacesLeft' \in Nat
  BY <1>2, WaitlistAssumption DEF EventTyped, PlacesLeft, Difference
<1>4. Min({Total(Raw)', PlacesLeft'}) \in Nat
  BY <1>2, <1>3, MinOfTwo
<1> QED BY <1>4 DEF Available, Scopes, Min

(* What a reconciliation credits the event with: no more than is free, nor  *)
(* than was credited or is new.                                            *)
LEMMA CreditedCounted ==
  ASSUME EventTyped, seen \in [Scopes -> Nat] \cup {NoRows}, credits \in [Scopes -> Nat]
  PROVE  /\ Credited \in [Scopes -> Nat] /\ Delta \in [Scopes -> Nat] /\ CapacityDelta \in Nat
         /\ IF CapacityBinds THEN \E s \in Scopes : CapacityDelta = Delta[s]
                             ELSE CapacityDelta \in {Delta[Event], Total(Delta)}
         /\ Credited[Event] <= Available[Event] /\ Credited[Event] <= credits[Event] + CapacityDelta
         /\ Min({credits[Event], Available[Event]}) <= Credited[Event]
<1> DEFINE add == [s \in Scopes |-> IF s = Event THEN CapacityDelta ELSE Delta[s]]
<1>1. Available \in [Scopes -> Nat] /\ Event \in Scopes
  BY AvailableCounted DEF Scopes
<1>2. \A s \in Scopes : Seen(s) \in Nat
  BY DEF Seen
<1>3. Delta \in [Scopes -> Nat] /\ \A s \in Scopes : Delta[s] <= Available[Event]
  <2>1. \A s \in Scopes : Available[s] <= Available[Event]
    BY <1>1, AvailableCounted DEF Scopes
  <2>2. \A s \in Scopes : Difference(Available[s], Seen(s)) \in Nat
                          /\ Difference(Available[s], Seen(s)) <= Available[Event]
    BY <1>1, <1>2, <2>1 DEF Difference
  <2> QED BY <2>2 DEF Delta
<1>4. Max(Range(Delta)) \in Range(Delta)
  <2>1. Range(Delta) \in SUBSET Nat /\ Range(Delta) # {} /\ \A n \in Range(Delta) : n <= Available[Event]
    BY <1>1, <1>3 DEF Range
  <2> QED BY <2>1, <1>1, MaxUpTo
<1>5. Max({Delta[Event], Total(Delta)}) \in {Delta[Event], Total(Delta)} /\ Total(Delta) \in Nat
  <2>1. Total(Delta) \in Nat
    BY <1>3, PlacesFinite DEF Counts, Scopes
  <2>2. \A n \in {Delta[Event], Total(Delta)} : n <= Delta[Event] + Total(Delta)
    BY <2>1, <1>1, <1>3
  <2> QED BY <2>1, <2>2, <1>1, <1>3, MaxUpTo
<1>6. IF CapacityBinds THEN \E s \in Scopes : CapacityDelta = Delta[s]
                       ELSE CapacityDelta \in {Delta[Event], Total(Delta)}
  BY <1>3, <1>4, <1>5 DEF CapacityDelta, Range
<1>7. CapacityDelta \in Nat
  BY <1>1, <1>3, <1>5, <1>6
<1>8. add \in [Scopes -> Nat] /\ add[Event] = CapacityDelta
  BY <1>1, <1>3, <1>7
<1>9. Credited = [s \in Scopes |-> Min({Available[s], credits[s] + add[s]})]
  BY DEF Credited
<1> HIDE DEF add
<1>10. \A s \in Scopes :
         /\ Credited[s] \in Nat /\ Credited[s] <= Available[s] /\ Credited[s] <= credits[s] + add[s]
         /\ credits[s] <= Credited[s] \/ Credited[s] = Available[s]
  <2>1. TAKE s \in Scopes
  <2>2. Available[s] \in Nat /\ credits[s] + add[s] \in Nat /\ credits[s] <= credits[s] + add[s]
    BY <1>1, <1>8
  <2>3. Credited[s] = IF Available[s] <= credits[s] + add[s] THEN Available[s] ELSE credits[s] + add[s]
    BY <2>2, <1>9, MinOfTwo
  <2> QED BY <2>2, <2>3
<1>11. Min({credits[Event], Available[Event]}) <= Credited[Event]
  BY <1>1, <1>10, MinOfTwo
<1> QED BY <1>1, <1>3, <1>6, <1>7, <1>8, <1>9, <1>10, <1>11

-----------------------------------------------------------------------------
(* The turns of the line. *)

Start == [credits |-> Credited, told |-> [p \in People |-> Untold]]

(* A line can be gone through: the turns up to each place exist. *)
LEMMA TurnsExist ==
  ASSUME line \in Seq(People)
  PROVE  \E f : f = [i \in 0..Len(line) |-> IF i = 0 THEN Start ELSE Take(f[i - 1], line[i])]
<1> DEFINE Goes(n, f) == f = [i \in 0..n |-> IF i = 0 THEN Start ELSE Take(f[i - 1], line[i])]
           T == {n \in Nat : ~ \E f : Goes(n, f)}
<1>1. Len(line) \in Nat
  OBVIOUS
<1>2. ASSUME T # {} PROVE FALSE
  <2>1. PICK n \in T : \A m \in T : n <= m
    BY <1>2, LeastNumber
  <2>2. CASE n = 0
    <3> DEFINE f == [i \in 0..0 |-> Start]
    <3>1. \A i \in 0..0 : i = 0
      OBVIOUS
    <3>2. f = [i \in 0..0 |-> IF i = 0 THEN Start ELSE Take(f[i - 1], line[i])]
      BY <3>1
    <3>3. Goes(0, f)
      BY <3>2
    <3> QED BY <2>1, <2>2, <3>3
  <2>3. CASE n # 0
    <3>1. n - 1 \in Nat /\ ~(n <= n - 1)
      BY <2>1, <2>3
    <3>2. n - 1 \notin T
      BY <2>1, <3>1
    <3>3. PICK g : Goes(n - 1, g)
      BY <3>1, <3>2
    <3> DEFINE f == [i \in 0..n |-> IF i = n THEN Take(g[n - 1], line[n]) ELSE g[i]]
    <3>4. \A i \in 0..n : f[i] = IF i = 0 THEN Start ELSE Take(f[i - 1], line[i])
      <4>1. TAKE i \in 0..n
      <4>2. CASE i = n
        <5>1. i # 0 /\ i - 1 \in 0..n /\ i - 1 # n
          BY <4>2, <2>1, <2>3
        <5>2. f[i - 1] = g[n - 1]
          BY <5>1, <4>2
        <5> QED BY <4>2, <5>1, <5>2
      <4>3. CASE i # n
        <5>1. i \in 0..(n - 1)
          BY <4>3, <2>1
        <5>2. f[i] = g[i]
          BY <4>3
        <5>3. g[i] = IF i = 0 THEN Start ELSE Take(g[i - 1], line[i])
          <6> HIDE DEF f
          <6> QED BY <3>3, <5>1
        <5>4. i # 0 => f[i - 1] = g[i - 1]
          BY <5>1, <2>1
        <5> QED BY <5>2, <5>3, <5>4
      <4> QED BY <4>2, <4>3
    <3>5. Goes(n, f)
      BY <3>4
    <3> QED BY <2>1, <3>5
  <2> QED BY <2>2, <2>3
<1>3. Len(line) \notin T
  BY <1>2
<1> QED BY <1>1, <1>3

LEMMA Turns ==
  ASSUME line \in Seq(People)
  PROVE  /\ Turn[0] = Start
         /\ \A i \in 1..Len(line) : Turn[i] = Take(Turn[i - 1], line[i])
<1>1. Turn = [i \in 0..Len(line) |-> IF i = 0 THEN Start ELSE Take(Turn[i - 1], line[i])]
  BY TurnsExist DEF Turn, Start
<1>2. Len(line) \in Nat
  OBVIOUS
<1> QED BY <1>1, <1>2

PlanTyped(plan) ==
  /\ DOMAIN plan = {"credits", "told"}
  /\ plan.credits \in [Scopes -> Nat] /\ plan.told \in [People -> Kinds \cup {Untold}]

(* The first of some types is one of them. *)
LEMMA FirstIsOne ==
  ASSUME NEW S \in SUBSET Kinds, S # {}
  PROVE  First(S) \in S
<1> DEFINE I == {i \in DOMAIN TypeOrder : TypeOrder[i] \in S}
<1>1. I \in SUBSET Nat
  BY WaitlistAssumption
<1>2. I # {}
  BY DEF Kinds, Range
<1>3. \E i \in I : \A j \in I : i <= j
  <2> HIDE DEF I
  <2> QED BY <1>1, <1>2, LeastNumber
<1>4. Min(I) \in I
  BY <1>3 DEF Min
<1> QED BY <1>4 DEF First

(* What one turn does: it takes nothing, or a credit of the event and one   *)
(* of a type for a candidate.                                              *)
Takes(plan, p) == Candidate(p) /\ Offers(plan.credits, entry[p].scope) # {}
LEMMA OneTurn ==
  ASSUME NEW plan, PlanTyped(plan), NEW p \in People
  PROVE  /\ PlanTyped(Take(plan, p))
         /\ \A s \in Scopes : Take(plan, p).credits[s] <= plan.credits[s]
         /\ ~Takes(plan, p) => Take(plan, p) = plan
         /\ Takes(plan, p) => /\ Take(plan, p).credits[Event] + 1 = plan.credits[Event]
                              /\ Chosen(Take(plan, p)) = Chosen(plan) \cup {p}
<1>1. CASE ~Takes(plan, p)
  <2>1. Take(plan, p) = plan
    BY <1>1 DEF Take, Takes
  <2> QED BY <1>1, <2>1 DEF PlanTyped
<1>2. CASE Takes(plan, p)
  <2> DEFINE t == First(Offers(plan.credits, entry[p].scope))
             c == [plan.credits EXCEPT ![Event] = @ - 1, ![t] = @ - 1]
             d == [plan.told EXCEPT ![p] = t]
  <2>1. t \in Offers(plan.credits, entry[p].scope)
    <3>1. Offers(plan.credits, entry[p].scope) \in SUBSET Kinds
      BY DEF Offers
    <3> QED BY <1>2, <3>1, FirstIsOne DEF Takes
  <2>2. Take(plan, p) = [credits |-> c, told |-> d]
    BY <1>2 DEF Take, Takes
  <2> HIDE DEF t
  <2>3. t \in Kinds /\ t # Event /\ t # Untold /\ t \in Scopes /\ Event \in Scopes
    BY <2>1, WaitlistAssumption DEF Offers, Scopes
  <2>4. plan.credits[Event] \in Nat /\ plan.credits[t] \in Nat
        /\ plan.credits[Event] > 0 /\ plan.credits[t] > 0
    BY <2>1, <2>3 DEF Offers, PlanTyped
  <2>5. c \in [Scopes -> Nat] /\ \A s \in Scopes : c[s] <= plan.credits[s]
    BY <2>3, <2>4 DEF PlanTyped
  <2>6. c[Event] + 1 = plan.credits[Event]
    BY <2>3, <2>4 DEF PlanTyped
  <2>7. d \in [People -> Kinds \cup {Untold}]
    BY <2>3 DEF PlanTyped
  <2>8. {q \in People : d[q] # Untold} = Chosen(plan) \cup {p}
    BY <2>3 DEF Chosen, PlanTyped
  <2> HIDE DEF c, d
  <2>9. Take(plan, p).credits = c /\ Take(plan, p).told = d /\ DOMAIN Take(plan, p) = {"credits", "told"}
    BY <2>2
  <2> QED BY <1>2, <2>5, <2>6, <2>7, <2>8, <2>9 DEF PlanTyped, Chosen
<1> QED BY <1>1, <1>2

(* Nobody stands in the line twice. *)
LineOnce == \A i, j \in DOMAIN line : line[i] = line[j] => i = j

(* After turn k: the credits of the event are spent on as many people, and  *)
(* who was chosen is a candidate who had an offer in his turn.             *)
Spent(k) ==
  /\ PlanTyped(Turn[k])
  /\ IsFiniteSet(Chosen(Turn[k]))
  /\ Turn[k].credits[Event] + Cardinality(Chosen(Turn[k])) = Credited[Event]
  /\ \A p \in Chosen(Turn[k]) : \E j \in 1..k : line[j] = p /\ Takes(Turn[j - 1], p)
  /\ \A m \in 0..k : /\ PlanTyped(Turn[m])
                     /\ \A s \in Scopes : Turn[k].credits[s] <= Turn[m].credits[s]
                     /\ Chosen(Turn[m]) \subseteq Chosen(Turn[k])

(* Turn by turn: a first turn where this fails would follow one where it    *)
(* holds.                                                                  *)
LEMMA LineSpent ==
  ASSUME line \in Seq(People), LineOnce, Credited \in [Scopes -> Nat]
  PROVE  \A k \in 0..Len(line) : Spent(k)
<1> DEFINE T == {k \in 0..Len(line) : ~Spent(k)}
<1>0. Len(line) \in Nat /\ DOMAIN line = 1..Len(line)
  OBVIOUS
<1>e. Event \in Scopes
  BY DEF Scopes
<1>1. Spent(0)
  <2>1. Turn[0] = Start
    BY Turns
  <2>2. PlanTyped(Start)
    BY DEF Start, PlanTyped
  <2>3. Chosen(Start) = {}
    BY DEF Start, Chosen
  <2>4. IsFiniteSet({}) /\ Cardinality({}) = 0
    BY FS_EmptySet
  <2>5. Start.credits[Event] = Credited[Event] /\ Credited[Event] \in Nat
    BY <1>e DEF Start
  <2>6. \A s \in Scopes : Start.credits[s] <= Start.credits[s]
    BY <2>2 DEF PlanTyped
  <2>7. \A m \in 0..0 : m = 0
    OBVIOUS
  <2> QED BY <2>1, <2>2, <2>3, <2>4, <2>5, <2>6, <2>7 DEF Spent
<1>2. ASSUME NEW k \in 0..Len(line), k # 0, Spent(k - 1)
      PROVE  Spent(k)
  <2> DEFINE plan == Turn[k - 1]
             next == Turn[k]
             p == line[k]
  <2>1. k \in 1..Len(line) /\ k - 1 \in 0..k /\ k - 1 \in Nat /\ k \in Nat
    BY <1>0, <1>2
  <2>2. p \in People
    BY <2>1
  <2>3. next = Take(plan, p)
    BY <2>1, Turns
  <2>4. /\ PlanTyped(plan) /\ IsFiniteSet(Chosen(plan))
        /\ plan.credits[Event] + Cardinality(Chosen(plan)) = Credited[Event]
    BY <1>2 DEF Spent
  <2>5. \A q \in Chosen(plan) : \E j \in 1..(k - 1) : line[j] = q /\ Takes(Turn[j - 1], q)
    BY <1>2 DEF Spent
  <2>6. \A m \in 0..(k - 1) :
          /\ PlanTyped(Turn[m])
          /\ \A s \in Scopes : plan.credits[s] <= Turn[m].credits[s]
          /\ Chosen(Turn[m]) \subseteq Chosen(plan)
    BY <1>2 DEF Spent
  <2>7. p \notin Chosen(plan)
    <3>1. ASSUME NEW j \in 1..(k - 1), line[j] = p PROVE FALSE
      <4>1. j \in DOMAIN line /\ k \in DOMAIN line /\ j # k
        BY <1>0, <2>1, <3>1
      <4> QED BY <3>1, <4>1 DEF LineOnce
    <3> QED BY <2>5, <3>1
  <2> HIDE DEF plan, next, p
  <2>8. /\ PlanTyped(next) /\ \A s \in Scopes : next.credits[s] <= plan.credits[s]
        /\ ~Takes(plan, p) => next = plan
        /\ Takes(plan, p) => /\ next.credits[Event] + 1 = plan.credits[Event]
                             /\ Chosen(next) = Chosen(plan) \cup {p}
    BY <2>2, <2>3, <2>4, OneTurn
  <2>9. plan.credits[Event] \in Nat /\ next.credits[Event] \in Nat /\ Credited[Event] \in Nat
        /\ Cardinality(Chosen(plan)) \in Nat
    BY <2>4, <2>8, <1>e, FS_CardinalityType DEF PlanTyped
  <2>10. /\ IsFiniteSet(Chosen(next))
         /\ next.credits[Event] + Cardinality(Chosen(next)) = Credited[Event]
    <3>1. CASE Takes(plan, p)
      <4>1. /\ IsFiniteSet(Chosen(plan) \cup {p})
            /\ Cardinality(Chosen(plan) \cup {p}) = Cardinality(Chosen(plan)) + 1
        BY <2>4, <2>7, FS_AddElement
      <4>2. Cardinality(Chosen(next)) = Cardinality(Chosen(plan)) + 1 /\ IsFiniteSet(Chosen(next))
        BY <3>1, <4>1, <2>8
      <4>3. next.credits[Event] + 1 = plan.credits[Event]
        BY <3>1, <2>8
      <4> DEFINE x == next.credits[Event]
                 y == plan.credits[Event]
                 n == Cardinality(Chosen(plan))
                 c == Credited[Event]
      <4>4. x + 1 = y /\ y + n = c /\ x \in Nat /\ y \in Nat /\ n \in Nat /\ c \in Nat
        BY <4>3, <2>4, <2>9
      <4>5. x + (n + 1) = c
        <5> HIDE DEF x, y, n, c
        <5> QED BY <4>4
      <4> QED BY <4>2, <4>5
    <3>2. CASE ~Takes(plan, p)
      BY <3>2, <2>8, <2>4
    <3> QED BY <3>1, <3>2
  <2>11. Chosen(plan) \subseteq Chosen(next)
    BY <2>8
  <2>12. \A q \in Chosen(next) : \E j \in 1..k : line[j] = q /\ Takes(Turn[j - 1], q)
    <3>1. TAKE q \in Chosen(next)
    <3>2. CASE q \in Chosen(plan)
      <4>1. PICK j \in 1..(k - 1) : line[j] = q /\ Takes(Turn[j - 1], q)
        BY <3>2, <2>5
      <4>2. j \in 1..k
        BY <2>1
      <4> QED BY <4>1, <4>2
    <3>3. CASE q \notin Chosen(plan)
      <4>1. Takes(plan, p) /\ q = p
        BY <3>3, <3>1, <2>8
      <4>2. k \in 1..k /\ line[k] = q /\ Takes(Turn[k - 1], q)
        BY <4>1, <2>1 DEF plan, p
      <4> QED BY <4>2
    <3> QED BY <3>2, <3>3
  <2>13. \A m \in 0..k :
           /\ PlanTyped(Turn[m])
           /\ \A s \in Scopes : next.credits[s] <= Turn[m].credits[s]
           /\ Chosen(Turn[m]) \subseteq Chosen(next)
    <3>1. TAKE m \in 0..k
    <3>2. CASE m = k
      <4>1. \A s \in Scopes : next.credits[s] \in Nat
        BY <2>8 DEF PlanTyped
      <4> QED BY <3>2, <4>1, <2>8 DEF next
    <3>3. CASE m # k
      <4>1. m \in 0..(k - 1)
        BY <3>3, <2>1
      <4>2. /\ PlanTyped(Turn[m]) /\ \A s \in Scopes : plan.credits[s] <= Turn[m].credits[s]
            /\ Chosen(Turn[m]) \subseteq Chosen(plan)
        BY <4>1, <2>6
      <4>4. \A s \in Scopes : next.credits[s] \in Nat /\ plan.credits[s] \in Nat /\ Turn[m].credits[s] \in Nat
        BY <2>8, <2>4, <4>1, <2>6 DEF PlanTyped
      <4> QED BY <4>2, <4>4, <2>8, <2>11
    <3> QED BY <3>2, <3>3
  <2> QED BY <2>8, <2>10, <2>12, <2>13 DEF Spent, next
<1>3. ASSUME T # {} PROVE FALSE
  <2>1. T \in SUBSET Nat
    BY <1>0
  <2>2. PICK k \in T : \A m \in T : k <= m
    <3> HIDE DEF T
    <3> QED BY <1>3, <2>1, LeastNumber
  <2>3. k \in 0..Len(line) /\ k # 0 /\ ~Spent(k)
    BY <2>2, <1>1
  <2>4. k - 1 \in 0..Len(line) /\ ~(k <= k - 1)
    BY <2>3, <1>0
  <2>5. Spent(k - 1)
    BY <2>2, <2>4
  <2> QED BY <2>3, <2>5, <1>2
<1> QED BY <1>3

-----------------------------------------------------------------------------
(* The inductive invariant: the types, and that whoever stands in the line  *)
(* confirmed once.                                                         *)
LinePast == \A i \in DOMAIN line : entry[line[i]].st \notin {"none", "pending"}
WaitInv == WaitTypeOK /\ ToldIsQueued /\ LineOnce /\ LinePast

(* The plan of a reconciliation chooses candidates only, and spends a       *)
(* credit of the event on each.                                            *)
LEMMA PlanMade ==
  ASSUME WaitInv, NEW plan, plan = Turn[Len(line)]
  PROVE  /\ PlanTyped(plan) /\ IsFiniteSet(Chosen(plan))
         /\ plan.credits[Event] + Cardinality(Chosen(plan)) = Credited[Event]
         /\ \A p \in Chosen(plan) : p \in People /\ Candidate(p)
<1>1. EventTyped /\ line \in Seq(People) /\ LineOnce /\ seen \in [Scopes -> Nat] \cup {NoRows}
      /\ credits \in [Scopes -> Nat]
  BY DEF WaitInv, WaitTypeOK, EventTyped
<1>2. Credited \in [Scopes -> Nat]
  BY <1>1, CreditedCounted
<1>3. Len(line) \in 0..Len(line)
  BY <1>1
<1>4. Spent(Len(line))
  BY <1>1, <1>2, <1>3, LineSpent
<1> QED BY <1>4 DEF Spent, Takes, Chosen

(* Whoever waits longer for the same type or for any ticket is chosen too. *)
LEMMA FirstChosen ==
  ASSUME WaitInv, NEW i \in DOMAIN line, NEW j \in DOMAIN line, i < j,
         entry[line[i]].scope \in {Event, entry[line[j]].scope}, Candidate(line[i]),
         line[j] \in Chosen(Turn[Len(line)])
  PROVE  line[i] \in Chosen(Turn[Len(line)])
<1>1. EventTyped /\ line \in Seq(People) /\ LineOnce /\ seen \in [Scopes -> Nat] \cup {NoRows}
      /\ credits \in [Scopes -> Nat]
  BY DEF WaitInv, WaitTypeOK, EventTyped
<1>2. Credited \in [Scopes -> Nat]
  BY <1>1, CreditedCounted
<1>3. Len(line) \in Nat /\ DOMAIN line = 1..Len(line) /\ Len(line) \in 0..Len(line)
  BY <1>1
<1>4. \A k \in 0..Len(line) : Spent(k)
  BY <1>1, <1>2, LineSpent
<1>5. Takes(Turn[j - 1], line[j])
  <2>1. PICK k \in 1..Len(line) : line[k] = line[j] /\ Takes(Turn[k - 1], line[j])
    BY <1>3, <1>4 DEF Spent
  <2>2. k = j
    BY <1>1, <1>3, <2>1 DEF LineOnce
  <2> QED BY <2>1, <2>2
<1>6. /\ i - 1 \in 0..Len(line) /\ j - 1 \in 0..Len(line) /\ i - 1 \in 0..(j - 1)
      /\ i \in 0..Len(line) /\ i \in 1..Len(line) /\ line[i] \in People
  BY <1>1, <1>3
<1>7. /\ PlanTyped(Turn[i - 1]) /\ PlanTyped(Turn[j - 1])
      /\ \A s \in Scopes : Turn[j - 1].credits[s] <= Turn[i - 1].credits[s]
  BY <1>4, <1>6 DEF Spent
<1>8. Offers(Turn[j - 1].credits, entry[line[j]].scope)
        \subseteq Offers(Turn[i - 1].credits, entry[line[i]].scope)
  <2>1. SUFFICES ASSUME NEW t \in Offers(Turn[j - 1].credits, entry[line[j]].scope)
                 PROVE  t \in Offers(Turn[i - 1].credits, entry[line[i]].scope)
    OBVIOUS
  <2>2. t \in Kinds /\ Turn[j - 1].credits[Event] > 0 /\ Turn[j - 1].credits[t] > 0
        /\ entry[line[j]].scope \in {Event, t}
    BY DEF Offers
  <2>3. t \in Scopes /\ Event \in Scopes
    BY <2>2 DEF Scopes
  <2>4. \A s \in {t, Event} : /\ Turn[j - 1].credits[s] \in Nat /\ Turn[i - 1].credits[s] \in Nat
                              /\ Turn[j - 1].credits[s] <= Turn[i - 1].credits[s]
    BY <2>3, <1>7 DEF PlanTyped
  <2>5. Turn[i - 1].credits[Event] > 0 /\ Turn[i - 1].credits[t] > 0
    BY <2>2, <2>4
  <2>6. entry[line[i]].scope \in {Event, t}
    BY <2>2
  <2> QED BY <2>2, <2>5, <2>6 DEF Offers
<1>9. Takes(Turn[i - 1], line[i])
  BY <1>5, <1>8 DEF Takes
<1>10. Turn[i] = Take(Turn[i - 1], line[i])
  BY <1>1, <1>6, Turns
<1>11. line[i] \in Chosen(Turn[i])
  BY <1>6, <1>7, <1>9, <1>10, OneTurn
<1> QED BY <1>3, <1>4, <1>6, <1>11 DEF Spent

-----------------------------------------------------------------------------
(* The steps. *)

Entries ==
  /\ entry \in [People -> [st : {"none", "pending", "active", "notified", "converted", "ended"},
                            scope : Scopes]]
  /\ line \in Seq(People) /\ {p \in People : entry[p].st = "active"} \subseteq Range(line)
  /\ ToldIsQueued /\ LineOnce /\ LinePast
Rest ==
  /\ queued \subseteq People /\ stopped \subseteq People
  /\ seen \in [Scopes -> Nat] \cup {NoRows} /\ credits \in [Scopes -> Nat]
EventKnown ==
  /\ EventTyped /\ status \in {"published", "sold-out", "over"} /\ freed \in 0..MaxFreed

LEMMA WaitParts ==
  /\ WaitInv <=> Entries /\ Rest /\ EventKnown
  /\ WaitInv' <=> Entries' /\ Rest' /\ EventKnown'
  BY DEF WaitInv, WaitTypeOK, Entries, Rest, EventKnown, EventTyped

LEMMA WaitInvInit == WaitInit => WaitInv
<1>1. SUFFICES ASSUME WaitInit PROVE WaitInv
  OBVIOUS
<1>2. sold \in [Kinds -> Nat]
  <2>1. UNION {0..Quantity[t] : t \in Kinds} \subseteq Nat
    BY WaitlistAssumption
  <2> QED BY <1>1, <2>1 DEF WaitInit
<1>3. EventKnown
  BY <1>1, <1>2, WaitlistAssumption DEF WaitInit, EventKnown, EventTyped
<1>4. Rest
  BY <1>1 DEF WaitInit, Rest
<1>5. Entries
  BY <1>1 DEF WaitInit, Entries, NoEntry, Scopes, ToldIsQueued, LineOnce, LinePast
<1> QED BY <1>3, <1>4, <1>5, WaitParts

(* What sells or comes back moves nobody who waits. *)
LEMMA EventSteps ==
  ASSUME WaitInv, NEW t \in Kinds
  PROVE  /\ Sell(t) => WaitInv'
         /\ ReturnTicket(t) => WaitInv'
         /\ \A u \in Kinds : Exchange(t, u) => WaitInv'
<1>0. Entries /\ Rest /\ EventKnown
  BY WaitParts
<1>1. ASSUME UNCHANGED <<mails, waiting, inventory>> PROVE Entries' /\ Rest'
  BY <1>0, <1>1 DEF mails, waiting, inventory, Entries, Rest, ToldIsQueued, LineOnce, LinePast
<1>2. EventTyped /\ Available[t] \in Nat /\ Raw[t] \in Nat /\ Available[t] <= Raw[t] /\ Available[Event] \in Nat
  <2>1. EventTyped
    BY <1>0 DEF EventKnown
  <2>2. Raw[t] \in Nat
    BY <2>1, WaitlistAssumption DEF EventTyped, Raw, Difference
  <2> QED BY <2>1, <2>2, AvailableCounted DEF Scopes
<1>3. \A u \in Kinds : Raw[u] > 0 => sold[u] + 1 <= Quantity[u] /\ sold[u] \in Nat /\ Quantity[u] \in Nat
  BY <1>2, WaitlistAssumption DEF EventTyped, Raw, Difference
<1>q. sold[t] \in Nat /\ Quantity[t] \in Nat /\ sold[t] <= Quantity[t]
  BY <1>2, WaitlistAssumption DEF EventTyped
<1>4. ASSUME Sell(t) PROVE WaitInv'
  <2>1. Raw[t] > 0 /\ sold' = [sold EXCEPT ![t] = @ + 1] /\ UNCHANGED <<capacity, status, freed>>
        /\ UNCHANGED <<mails, waiting, inventory>>
    BY <1>4, <1>2 DEF Sell
  <2>2. EventKnown'
    BY <1>0, <1>3, <2>1 DEF EventKnown, EventTyped
  <2> QED BY <1>1, <2>1, <2>2, WaitParts
<1>5. ASSUME ReturnTicket(t) PROVE WaitInv'
  <2>1. sold[t] > 0 /\ sold' = [sold EXCEPT ![t] = @ - 1] /\ UNCHANGED <<capacity, status>>
        /\ Freeing(MoreAvailable) /\ UNCHANGED <<mails, waiting, inventory>>
    BY <1>5 DEF ReturnTicket
  <2>2. EventTyped'
    <3>1. sold[t] - 1 \in Nat /\ sold[t] - 1 <= Quantity[t]
      BY <1>q, <2>1
    <3>2. sold' \in [Kinds -> Nat] /\ \A v \in Kinds : sold'[v] = IF v = t THEN sold[t] - 1 ELSE sold[v]
      BY <1>2, <2>1, <3>1 DEF EventTyped
    <3> QED BY <1>2, <2>1, <3>1, <3>2 DEF EventTyped
  <2>3. MoreAvailable \in Nat
    BY <1>2, <2>2, AvailableCountedNext DEF MoreAvailable, Difference
  <2>4. EventKnown'
    BY <1>0, <2>1, <2>2, <2>3, WaitlistAssumption DEF EventKnown, Freeing
  <2> QED BY <1>1, <2>1, <2>4, WaitParts
<1>6. ASSUME NEW u \in Kinds, Exchange(t, u) PROVE WaitInv'
  <2>1. t # u /\ sold[t] > 0 /\ Raw[u] > 0 /\ sold' = [sold EXCEPT ![t] = @ - 1, ![u] = @ + 1]
        /\ UNCHANGED <<capacity, status>> /\ Freeing(1) /\ UNCHANGED <<mails, waiting, inventory>>
    BY <1>6 DEF Exchange
  <2>2. EventTyped'
    <3>1. sold[t] - 1 \in Nat /\ sold[t] - 1 <= Quantity[t] /\ sold[u] + 1 \in Nat /\ sold[u] + 1 <= Quantity[u]
      BY <1>q, <1>3, <2>1
    <3>2. /\ sold' \in [Kinds -> Nat]
          /\ \A v \in Kinds : sold'[v] = IF v = t THEN sold[t] - 1 ELSE IF v = u THEN sold[u] + 1 ELSE sold[v]
      BY <1>2, <2>1, <3>1 DEF EventTyped
    <3> QED BY <1>2, <2>1, <3>1, <3>2 DEF EventTyped
  <2>4. EventKnown'
    BY <1>0, <2>1, <2>2, WaitlistAssumption DEF EventKnown, Freeing
  <2> QED BY <1>1, <2>1, <2>4, WaitParts
<1> QED BY <1>4, <1>5, <1>6

LEMMA ChangeEventStep ==
  ASSUME WaitInv, NEW c \in Capacities, NEW s \in {"published", "sold-out", "over"}, ChangeEvent(c, s)
  PROVE  WaitInv'
<1>0. Entries /\ Rest /\ EventKnown
  BY WaitParts
<1>1. Entries' /\ Rest'
  BY <1>0 DEF ChangeEvent, mails, waiting, inventory, Entries, Rest, ToldIsQueued, LineOnce, LinePast
<1>2. EventTyped /\ EventTyped'
  BY <1>0 DEF EventKnown, EventTyped, ChangeEvent
<1>3. MoreAvailable \in Nat
  <2>1. Available[Event] \in Nat
    BY <1>2, AvailableCounted DEF Scopes
  <2> QED BY <1>2, <2>1, AvailableCountedNext DEF MoreAvailable, Difference
<1>4. EventKnown'
  BY <1>0, <1>2, <1>3, WaitlistAssumption DEF EventKnown, Freeing, ChangeEvent
<1> QED BY <1>1, <1>4, WaitParts

LEMMA SameEvent ==
  ASSUME EventKnown, UNCHANGED <<event, freed>>
  PROVE  EventKnown'
  BY DEF EventKnown, EventTyped, event

(* One entry changes, and the line is left alone. *)
LEMMA OneEntry ==
  ASSUME Entries, NEW p \in People,
         NEW e \in [st : {"none", "pending", "active", "notified", "converted", "ended"}, scope : Scopes],
         entry' = [entry EXCEPT ![p] = e], UNCHANGED <<line, queued>>,
         e.st = "active" => entry[p].st = "active",
         e.st \in {"none", "pending"} => entry[p].st \in {"none", "pending"},
         e.st \in {"notified", "converted"} <=> entry[p].st \in {"notified", "converted"}
  PROVE  Entries'
<1>1. entry' \in [People -> [st : {"none", "pending", "active", "notified", "converted", "ended"},
                            scope : Scopes]]
  BY DEF Entries
<1>2. entry'[p] = e /\ \A q \in People : q # p => entry'[q] = entry[q]
  BY DEF Entries
<1>3. {q \in People : entry'[q].st = "active"} \subseteq {q \in People : entry[q].st = "active"}
  BY <1>2
<1>4. ToldIsQueued'
  BY <1>2 DEF Entries, ToldIsQueued
<1>5. LinePast'
  <2>1. \A i \in DOMAIN line : line[i] \in People
    BY DEF Entries
  <2> QED BY <1>2, <2>1 DEF Entries, LinePast
<1>6. LineOnce'
  BY DEF Entries, LineOnce
<1> QED BY <1>1, <1>3, <1>4, <1>5, <1>6 DEF Entries

LEMMA BuyAlertedStep ==
  ASSUME WaitInv, NEW t \in Kinds, NEW p \in People, BuyAlerted(t, p)
  PROVE  WaitInv'
<1>0. Entries /\ Rest /\ EventKnown
  BY WaitParts
<1>1. Available[t] \in Nat /\ Raw[t] \in Nat /\ Available[t] <= Raw[t]
  <2>1. EventTyped
    BY <1>0 DEF EventKnown
  <2>2. Raw[t] \in Nat
    BY <2>1, WaitlistAssumption DEF EventTyped, Raw, Difference
  <2> QED BY <2>1, <2>2, AvailableCounted DEF Scopes
<1>2. Raw[t] > 0 /\ sold' = [sold EXCEPT ![t] = @ + 1] /\ UNCHANGED <<capacity, status, freed>>
  BY <1>1 DEF BuyAlerted
<1>3. sold[t] + 1 <= Quantity[t] /\ sold[t] \in Nat
  <2>1. sold[t] \in Nat /\ Quantity[t] \in Nat
    BY <1>0, WaitlistAssumption DEF EventKnown, EventTyped
  <2>2. Raw[t] = IF status = "published" THEN Difference(Quantity[t], sold[t]) ELSE 0
    BY DEF Raw
  <2> QED BY <1>2, <2>1, <2>2 DEF Difference
<1>4. EventKnown'
  BY <1>0, <1>2, <1>3 DEF EventKnown, EventTyped
<1>5. Rest'
  BY <1>0 DEF BuyAlerted, Rest, mails, inventory
<1> DEFINE e == [entry[p] EXCEPT !.st = "converted"]
<1>6. /\ e \in [st : {"none", "pending", "active", "notified", "converted", "ended"}, scope : Scopes]
      /\ e.st = "converted" /\ entry' = [entry EXCEPT ![p] = e]
  BY <1>0 DEF BuyAlerted, Entries
<1>7. Entries'
  <2> HIDE DEF e
  <2> QED BY <1>0, <1>6, OneEntry DEF BuyAlerted, mails
<1> QED BY <1>4, <1>5, <1>7, WaitParts

(* initializeInventoryState keeps to numbers. *)
LEMMA InitialisedStep ==
  ASSUME Rest, EventTyped, Initialised
  PROVE  seen' \in [Scopes -> Nat] /\ credits' \in [Scopes -> Nat]
<1>1. Available \in [Scopes -> Nat]
  BY AvailableCounted
<1>2. \A s \in Scopes : Min({credits[s], Available[s]}) \in Nat
  BY <1>1, MinOfTwo DEF Rest
<1>3. seen # NoRows => \A s \in Scopes : Min({seen[s], Available[s]}) \in Nat
  BY <1>1, MinOfTwo DEF Rest
<1> QED BY <1>1, <1>2, <1>3 DEF Initialised

LEMMA PersonSteps ==
  ASSUME WaitInv, NEW p \in People
  PROVE  /\ \A s \in ScopesAsked : RequestWaitlist(p, s) \/ RequestStopped(p, s) => WaitInv'
         /\ Leave(p) => WaitInv'
         /\ Stop(p) \/ Resume(p) => WaitInv'
<1>0. Entries /\ Rest /\ EventKnown
  BY WaitParts
<1>1. /\ Ended \in [st : {"none", "pending", "active", "notified", "converted", "ended"}, scope : Scopes]
      /\ Ended.st = "ended"
  BY DEF Ended, Scopes
<1>2. ASSUME NEW s \in ScopesAsked, RequestWaitlist(p, s) PROVE WaitInv'
  <2> DEFINE e == [st |-> "pending", scope |-> s]
  <2>1. /\ e \in [st : {"none", "pending", "active", "notified", "converted", "ended"}, scope : Scopes]
        /\ e.st = "pending" /\ entry' = [entry EXCEPT ![p] = e] /\ entry[p].st \in {"none", "pending"}
    BY <1>2, WaitlistAssumption DEF RequestWaitlist, Scopes
  <2>2. Entries'
    <3> HIDE DEF e
    <3> QED BY <1>0, <1>2, <2>1, OneEntry DEF RequestWaitlist, mails
  <2>3. Rest'
    BY <1>0, <1>2, InitialisedStep DEF RequestWaitlist, Rest, EventKnown, mails
  <2> QED BY <1>0, <1>2, <2>2, <2>3, SameEvent, WaitParts DEF RequestWaitlist
<1>3. ASSUME entry' = [entry EXCEPT ![p] = Ended], entry[p].st \in {"none", "pending", "active"},
             UNCHANGED <<mails, event, line, inventory, freed>>
      PROVE  WaitInv'
  <2>1. Entries'
    BY <1>0, <1>1, <1>3, OneEntry DEF mails
  <2>2. Rest'
    BY <1>0, <1>3 DEF Rest, mails, inventory
  <2> QED BY <1>0, <1>3, <2>1, <2>2, SameEvent, WaitParts
<1>4. ASSUME Stop(p) \/ Resume(p) PROVE WaitInv'
  <2>1. UNCHANGED <<queued, event, waiting, inventory, freed>> /\ stopped' \subseteq People
    BY <1>0, <1>4 DEF Stop, Resume, Rest
  <2>2. Entries'
    BY <1>0, <2>1 DEF Entries, ToldIsQueued, LineOnce, LinePast, waiting
  <2>3. Rest'
    BY <1>0, <2>1 DEF Rest, inventory
  <2> QED BY <1>0, <2>1, <2>2, <2>3, SameEvent, WaitParts
<1> QED BY <1>2, <1>3, <1>4 DEF RequestStopped, Leave

LEMMA ConfirmStep ==
  ASSUME WaitInv, NEW p \in People, Confirm(p)
  PROVE  WaitInv'
<1>0. Entries /\ Rest /\ EventKnown
  BY WaitParts
<1>1. Rest' /\ EventKnown'
  BY <1>0, SameEvent DEF Confirm, Rest, mails, inventory
<1>2. CASE entry' = [entry EXCEPT ![p] = Ended] /\ UNCHANGED line
  <2>1. /\ Ended \in [st : {"none", "pending", "active", "notified", "converted", "ended"}, scope : Scopes]
        /\ Ended.st = "ended"
    BY DEF Ended, Scopes
  <2>2. Entries'
    BY <1>0, <1>2, <2>1, OneEntry DEF Confirm, mails
  <2> QED BY <1>1, <2>2, WaitParts
<1>3. CASE entry' = [entry EXCEPT ![p].st = "active"] /\ line' = Append(line, p)
  <2>1. /\ entry' \in [People -> [st : {"none", "pending", "active", "notified", "converted", "ended"},
                                  scope : Scopes]]
        /\ entry'[p].st = "active" /\ \A q \in People : q # p => entry'[q] = entry[q]
    BY <1>0, <1>3 DEF Entries
  <2>2. /\ line' \in Seq(People) /\ DOMAIN line' = 1..(Len(line) + 1) /\ Len(line) \in Nat
        /\ DOMAIN line = 1..Len(line) /\ line'[Len(line) + 1] = p
        /\ \A i \in DOMAIN line : line'[i] = line[i] /\ i \in DOMAIN line' /\ line[i] \in People
    BY <1>0, <1>3 DEF Entries
  <2>3. \A i \in DOMAIN line' : i \in DOMAIN line \/ i = Len(line) + 1
    BY <2>2
  <2>4. \A i \in DOMAIN line : line[i] # p
    BY <1>0 DEF Confirm, Entries, LinePast
  <2>5. LineOnce'
    BY <1>0, <2>2, <2>3, <2>4 DEF Entries, LineOnce
  <2>6. LinePast'
    BY <1>0, <2>1, <2>2, <2>3 DEF Entries, LinePast
  <2>7. ToldIsQueued'
    BY <1>0, <2>1 DEF Confirm, Entries, ToldIsQueued, mails
  <2>8. {q \in People : entry'[q].st = "active"} \subseteq Range(line')
    <3>1. Range(line) \subseteq Range(line')
      BY <2>2 DEF Range
    <3>2. p \in Range(line')
      BY <2>2 DEF Range
    <3> QED BY <1>0, <2>1, <3>1, <3>2 DEF Entries
  <2>9. Entries'
    BY <2>1, <2>2, <2>5, <2>6, <2>7, <2>8 DEF Entries, Range
  <2> QED BY <1>1, <2>9, WaitParts
<1> QED BY <1>2, <1>3 DEF Confirm

(* What a reconciliation makes of the entries. *)
ReconcileEnded(old) ==
  LET waits == {p \in People : entry[p].st \in {"pending", "active"}}
  IN IF status = "over" THEN waits ELSE old \cup (waits \cap stopped)

ReconcileTold(old, bounced, plan) ==
  /\ stopped' = stopped \cup bounced
  /\ queued' = queued \cup (Chosen(plan) \ bounced)
  /\ entry' = [p \in People |-> entry'[p]]
  /\ \A p \in People :
       entry'[p] = IF p \in ReconcileEnded(old) \/ (p \in Chosen(plan) /\ p \in bounced) THEN Ended
                   ELSE IF p \in Chosen(plan) THEN [entry[p] EXCEPT !.st = "notified"] ELSE entry[p]
  /\ seen' = Available /\ credits' = Restored(plan, Chosen(plan) \cap bounced)
  /\ UNCHANGED <<event, line>>
  /\ IF seen = NoRows THEN Freeing(Available[Event]) ELSE UNCHANGED freed
  /\ \A p \in People : p \in ReconcileEnded(old) => entry[p].st \in {"pending", "active"} /\ p \notin Chosen(plan)
  /\ \A p \in People : entry[p].st = "active" /\ p \notin ReconcileEnded(old) => Candidate(p)

LEMMA ReconcileTells ==
  ASSUME WaitInv, NEW old \in SUBSET {p \in People : entry[p].st = "pending"},
         NEW bounced \in SUBSET {p \in People : entry[p].st = "active"}, Reconcile(old, bounced),
         NEW plan, plan = Turn[Len(line)]
  PROVE  ReconcileTold(old, bounced, plan)
<1>1. \A p \in Chosen(plan) : p \in People /\ Candidate(p)
  BY PlanMade
<1>2. Chosen(plan) \ (Chosen(plan) \cap bounced) = Chosen(plan) \ bounced
  OBVIOUS
<1>3. \A p \in People : p \in ReconcileEnded(old) => entry[p].st \in {"pending", "active"} /\ ~Candidate(p)
  BY DEF ReconcileEnded, Candidate
<1>4. \A p \in People : entry[p].st = "active" /\ p \notin ReconcileEnded(old) => Candidate(p)
  BY DEF ReconcileEnded, Candidate
<1>5. /\ stopped' = stopped \cup bounced /\ queued' = queued \cup (Chosen(plan) \ bounced)
      /\ entry' = [p \in People |-> Reconciled(p, ReconcileEnded(old), Chosen(plan) \cap bounced, Chosen(plan))]
      /\ seen' = Available /\ credits' = Restored(plan, Chosen(plan) \cap bounced)
      /\ UNCHANGED <<event, line>>
      /\ IF seen = NoRows THEN Freeing(Available[Event]) ELSE UNCHANGED freed
  BY <1>2 DEF Reconcile, ReconcileEnded
<1>6. /\ entry' = [p \in People |-> entry'[p]]
      /\ \A p \in People :
           entry'[p] = IF p \in ReconcileEnded(old) \/ (p \in Chosen(plan) /\ p \in bounced) THEN Ended
                       ELSE IF p \in Chosen(plan) THEN [entry[p] EXCEPT !.st = "notified"] ELSE entry[p]
  BY <1>5 DEF Reconciled
<1> QED BY <1>1, <1>3, <1>4, <1>5, <1>6 DEF ReconcileTold

LEMMA ReconcileStep ==
  ASSUME WaitInv, ReconcileSome
  PROVE  WaitInv'
<1>0. Entries /\ Rest /\ EventKnown
  BY WaitParts
<1>1. PICK old \in SUBSET {p \in People : entry[p].st = "pending"},
           bounced \in SUBSET {p \in People : entry[p].st = "active"} : Reconcile(old, bounced)
  BY DEF ReconcileSome
<1> DEFINE plan == Turn[Len(line)]
           gone == ReconcileEnded(old)
<1>2. /\ stopped' = stopped \cup bounced
      /\ queued' = queued \cup (Chosen(plan) \ bounced)
      /\ entry' = [p \in People |-> entry'[p]]
      /\ \A p \in People :
           entry'[p] = IF p \in gone \/ (p \in Chosen(plan) /\ p \in bounced) THEN Ended
                       ELSE IF p \in Chosen(plan) THEN [entry[p] EXCEPT !.st = "notified"] ELSE entry[p]
      /\ seen' = Available /\ credits' = Restored(plan, Chosen(plan) \cap bounced)
      /\ UNCHANGED <<event, line>>
      /\ IF seen = NoRows THEN Freeing(Available[Event]) ELSE UNCHANGED freed
      /\ \A p \in People : p \in gone => entry[p].st \in {"pending", "active"} /\ p \notin Chosen(plan)
  <2>1. plan = Turn[Len(line)] /\ gone = ReconcileEnded(old)
    OBVIOUS
  <2> HIDE DEF plan, gone
  <2>2. ReconcileTold(old, bounced, plan)
    BY <1>1, <2>1, ReconcileTells
  <2> QED BY <2>1, <2>2 DEF ReconcileTold
<1>3. /\ PlanTyped(plan) /\ IsFiniteSet(Chosen(plan))
      /\ \A p \in Chosen(plan) : p \in People /\ entry[p].st = "active"
  BY PlanMade DEF Candidate
<1> HIDE DEF plan, gone
<1>4. EventKnown'
  <2>1. Available[Event] \in Nat
    BY <1>0, AvailableCounted DEF EventKnown, Scopes
  <2>2. freed' \in 0..MaxFreed
    BY <1>0, <1>2, <2>1, WaitlistAssumption DEF EventKnown, Freeing
  <2> QED BY <1>0, <1>2, <2>2 DEF EventKnown, EventTyped, event
<1>5. Rest'
  <2>1. Available \in [Scopes -> Nat]
    BY <1>0, AvailableCounted DEF EventKnown
  <2>2. \A s \in Scopes : Cardinality({p \in Chosen(plan) \cap bounced : s \in {Event, plan.told[p]}}) \in Nat
    <3>1. TAKE s \in Scopes
    <3>2. {p \in Chosen(plan) \cap bounced : s \in {Event, plan.told[p]}} \in SUBSET Chosen(plan)
      OBVIOUS
    <3> QED BY <1>3, <3>2, FS_Subset, FS_CardinalityType
  <2>3. \A s \in Scopes : Restored(plan, Chosen(plan) \cap bounced)[s] \in Nat
    <3>1. TAKE s \in Scopes
    <3> DEFINE n == Cardinality({p \in Chosen(plan) \cap bounced : s \in {Event, plan.told[p]}})
    <3>2. Restored(plan, Chosen(plan) \cap bounced)[s] = Min({Available[s], plan.credits[s] + n})
      BY DEF Restored
    <3>3. n \in Nat
      BY <2>2
    <3> HIDE DEF n
    <3>4. Available[s] \in Nat /\ plan.credits[s] + n \in Nat
      BY <1>3, <2>1, <3>3 DEF PlanTyped
    <3> QED BY <3>2, <3>4, MinOfTwo
  <2>4. credits' \in [Scopes -> Nat]
    BY <1>2, <2>3 DEF Restored
  <2> QED BY <1>0, <1>2, <1>3, <2>1, <2>4 DEF Rest
<1>7. \A p \in People :
        /\ entry'[p] \in [st : {"none", "pending", "active", "notified", "converted", "ended"}, scope : Scopes]
        /\ entry'[p].st = "active" => entry[p].st = "active"
        /\ entry'[p].st \in {"none", "pending"} => entry[p].st \in {"none", "pending"}
        /\ entry'[p].st \in {"notified", "converted"} <=>
             entry[p].st \in {"notified", "converted"} \/ p \in Chosen(plan) \ bounced
  <2>1. TAKE p \in People
  <2>2. entry[p] \in [st : {"none", "pending", "active", "notified", "converted", "ended"}, scope : Scopes]
    BY <1>0 DEF Entries
  <2>3. CASE p \in gone \/ (p \in Chosen(plan) /\ p \in bounced)
    <3>1. entry'[p] = Ended
      BY <2>3, <1>2
    <3>2. entry[p].st \in {"pending", "active"} /\ p \notin Chosen(plan) \ bounced
      BY <2>3, <1>2, <1>3
    <3> QED BY <3>1, <3>2 DEF Ended, Scopes
  <2>4. CASE ~(p \in gone \/ (p \in Chosen(plan) /\ p \in bounced)) /\ p \in Chosen(plan)
    <3>1. entry'[p] = [entry[p] EXCEPT !.st = "notified"]
      BY <2>4, <1>2
    <3> QED BY <2>2, <2>4, <3>1
  <2>5. CASE ~(p \in gone \/ (p \in Chosen(plan) /\ p \in bounced)) /\ p \notin Chosen(plan)
    <3>1. entry'[p] = entry[p]
      BY <2>5, <1>2
    <3> QED BY <2>2, <2>5, <3>1
  <2> QED BY <2>3, <2>4, <2>5
<1>8. Entries'
  <2>1. entry' \in [People -> [st : {"none", "pending", "active", "notified", "converted", "ended"},
                              scope : Scopes]]
    BY <1>2, <1>7
  <2>2. {p \in People : entry'[p].st = "active"} \subseteq {p \in People : entry[p].st = "active"}
    BY <1>7
  <2>3. ToldIsQueued'
    BY <1>0, <1>2, <1>7 DEF Entries, ToldIsQueued
  <2>4. LinePast'
    <3>1. \A i \in DOMAIN line : line[i] \in People
      BY <1>0 DEF Entries
    <3> QED BY <1>0, <1>2, <1>7, <3>1 DEF Entries, LinePast
  <2>5. LineOnce'
    BY <1>0, <1>2 DEF Entries, LineOnce
  <2> QED BY <1>0, <1>2, <2>1, <2>2, <2>3, <2>4, <2>5 DEF Entries
<1> QED BY <1>4, <1>5, <1>8, WaitParts

LEMMA WaitInvNext ==
  ASSUME WaitInv, [WaitNext]_wvars
  PROVE  WaitInv'
<1>1. CASE UNCHANGED wvars
  BY <1>1 DEF wvars, mails, event, waiting, inventory, WaitInv, WaitTypeOK, ToldIsQueued, LineOnce, LinePast
<1>2. CASE WaitNext
  BY <1>2, EventSteps, ChangeEventStep, BuyAlertedStep, PersonSteps, ConfirmStep, ReconcileStep
     DEF WaitNext
<1> QED BY <1>1, <1>2

LEMMA WaitInvariant == WaitSpec => []WaitInv
<1>1. WaitInv /\ [WaitNext]_wvars => WaitInv'
  BY WaitInvNext
<1> QED BY <1>1, WaitInvInit, PTL DEF WaitSpec

-----------------------------------------------------------------------------
(* The types of the waitlist hold always: the counts are natural numbers,   *)
(* no type is sold beyond its places, and whoever waits is in the line.     *)
THEOREM WaitlistIsTyped == WaitSpec => []WaitTypeOK
<1>1. WaitInv => WaitTypeOK
  BY DEF WaitInv
<1> QED BY <1>1, WaitInvariant, PTL

(* reconcileEventWaitlist: an entry is marked as told exactly when its      *)
(* alert is in the outbox, whoever is blocked while it runs.               *)
THEOREM ToldAreQueued == WaitSpec => []ToldIsQueued
<1>1. WaitInv => ToldIsQueued
  BY DEF WaitInv
<1> QED BY <1>1, WaitInvariant, PTL

(* What the two action properties ask of one step. *)
Passed ==
  \A i, j \in DOMAIN line :
    (/\ i < j /\ entry[line[i]].scope \in {Event, entry[line[j]].scope}
     /\ entry[line[i]].st = "active" /\ entry[line[j]].st = "active"
     /\ entry'[line[j]].st = "notified")
      => entry'[line[i]].st # "active"
PlaceKept ==
  credits'[Event] + Cardinality(queued' \ queued) >= Min({credits[Event], Available[Event]})

(* Only a reconciliation marks an active entry as told. *)
LEMMA OthersTellNobody ==
  ASSUME WaitInv, WaitNext, ~ReconcileSome, NEW p \in People, entry[p].st = "active"
  PROVE  entry'[p].st # "notified"
<1>0. entry \in [People -> [st : {"none", "pending", "active", "notified", "converted", "ended"},
                            scope : Scopes]]
  BY DEF WaitInv, WaitTypeOK
<1>1. CASE UNCHANGED entry
  BY <1>1
<1>2. CASE \E t \in Kinds, q \in People : BuyAlerted(t, q)
  BY <1>0, <1>2 DEF BuyAlerted
<1>3. CASE \E q \in People : \/ \E s \in ScopesAsked : RequestWaitlist(q, s) \/ RequestStopped(q, s)
                             \/ Leave(q)
  BY <1>0, <1>3 DEF RequestWaitlist, RequestStopped, Leave, Ended
<1>4. CASE \E q \in People : Confirm(q)
  BY <1>0, <1>4 DEF Confirm, Ended
<1> QED BY <1>1, <1>2, <1>3, <1>4
        DEF WaitNext, Sell, ReturnTicket, Exchange, ChangeEvent, Stop, Resume, waiting

(* A step passes nobody. *)
LEMMA NobodyPassed ==
  ASSUME WaitInv, [WaitNext]_wvars
  PROVE  Passed
<1>1. SUFFICES ASSUME NEW i \in DOMAIN line, NEW j \in DOMAIN line, i < j,
                      entry[line[i]].scope \in {Event, entry[line[j]].scope},
                      entry[line[i]].st = "active", entry[line[j]].st = "active",
                      entry'[line[j]].st = "notified"
               PROVE  entry'[line[i]].st # "active"
  BY DEF Passed
<1>2. line[i] \in People /\ line[j] \in People
  BY DEF WaitInv, WaitTypeOK
<1>3. ReconcileSome
  <2>1. ~UNCHANGED wvars
    BY <1>1 DEF wvars, waiting
  <2> QED BY <1>1, <1>2, <2>1, OthersTellNobody
<1>4. PICK old \in SUBSET {p \in People : entry[p].st = "pending"},
           bounced \in SUBSET {p \in People : entry[p].st = "active"} : Reconcile(old, bounced)
  BY <1>3 DEF ReconcileSome
<1> DEFINE plan == Turn[Len(line)]
           gone == ReconcileEnded(old)
<1>5. /\ \A p \in People :
           entry'[p] = IF p \in gone \/ (p \in Chosen(plan) /\ p \in bounced) THEN Ended
                       ELSE IF p \in Chosen(plan) THEN [entry[p] EXCEPT !.st = "notified"] ELSE entry[p]
      /\ \A p \in People : entry[p].st = "active" /\ p \notin gone => Candidate(p)
  <2>1. plan = Turn[Len(line)] /\ gone = ReconcileEnded(old)
    OBVIOUS
  <2> HIDE DEF plan, gone
  <2>2. ReconcileTold(old, bounced, plan)
    BY <1>4, <2>1, ReconcileTells
  <2> QED BY <2>1, <2>2 DEF ReconcileTold
<1>6. line[j] \in Chosen(plan)
  <2> HIDE DEF plan, gone
  <2>1. line[j] \notin Chosen(plan) => entry'[line[j]] \in {Ended, entry[line[j]]}
    BY <1>2, <1>5
  <2> QED BY <1>1, <2>1 DEF Ended
<1>7. line[i] \notin gone => line[i] \in Chosen(plan)
  BY <1>1, <1>2, <1>5, <1>6, FirstChosen
<1>8. entry'[line[i]] \in {Ended, [entry[line[i]] EXCEPT !.st = "notified"]}
  <2> HIDE DEF plan, gone
  <2> QED BY <1>2, <1>5, <1>7
<1>9. entry[line[i]] \in [st : {"none", "pending", "active", "notified", "converted", "ended"},
                          scope : Scopes]
  BY <1>2 DEF WaitInv, WaitTypeOK
<1> QED BY <1>8, <1>9 DEF Ended

(* First come, first told, for any line and any types: an alert passes      *)
(* nobody who waits longer for the same type or for any ticket.            *)
THEOREM FirstComeAreFirstTold == WaitSpec => FirstComeFirstTold
<1>1. WaitInv /\ [WaitNext]_wvars => [Passed]_wvars
  BY NobodyPassed
<1> QED BY <1>1, WaitInvariant, PTL DEF WaitSpec, FirstComeFirstTold, Passed

(* A step loses no credit. *)
LEMMA NoCreditLost ==
  ASSUME WaitInv, [WaitNext]_wvars
  PROVE  PlaceKept
<1>0. /\ credits[Event] \in Nat /\ Available[Event] \in Nat /\ Event \in Scopes /\ EventTyped
      /\ seen \in [Scopes -> Nat] \cup {NoRows} /\ credits \in [Scopes -> Nat]
  <2>1. EventTyped
    BY WaitParts DEF EventKnown
  <2> QED BY <2>1, AvailableCounted DEF WaitInv, WaitTypeOK, Scopes
<1> DEFINE least == Min({credits[Event], Available[Event]})
<1>1. least \in Nat /\ least <= credits[Event] /\ least <= Available[Event]
  BY <1>0, MinOfTwo
<1>2. CASE queued' = queued /\ credits'[Event] \in Nat /\ credits'[Event] >= least
  <2>1. queued' \ queued = {}
    BY <1>2
  <2>2. Cardinality(queued' \ queued) = 0
    BY <2>1, FS_EmptySet
  <2> HIDE DEF least
  <2>3. credits'[Event] + 0 >= least
    BY <1>1, <1>2
  <2> QED BY <2>2, <2>3 DEF PlaceKept, least
<1>3. CASE ReconcileSome
  <2>1. PICK old \in SUBSET {p \in People : entry[p].st = "pending"},
             bounced \in SUBSET {p \in People : entry[p].st = "active"} : Reconcile(old, bounced)
    BY <1>3 DEF ReconcileSome
  <2> DEFINE plan == Turn[Len(line)]
             failed == Chosen(plan) \cap bounced
             alerted == Chosen(plan) \ bounced
  <2>2. queued' = queued \cup alerted /\ credits' = Restored(plan, failed)
    <3>1. plan = Turn[Len(line)]
      OBVIOUS
    <3> HIDE DEF plan
    <3>2. ReconcileTold(old, bounced, plan)
      BY <2>1, <3>1, ReconcileTells
    <3> QED BY <3>2 DEF ReconcileTold
  <2>3. /\ PlanTyped(plan) /\ IsFiniteSet(Chosen(plan))
        /\ plan.credits[Event] + Cardinality(Chosen(plan)) = Credited[Event]
        /\ \A p \in Chosen(plan) : p \in People /\ entry[p].st = "active"
    BY PlanMade DEF Candidate
  <2> HIDE DEF plan
  <2>4. queued' \ queued = alerted
    <3>1. \A p \in alerted : p \notin queued
      BY <2>3 DEF WaitInv, ToldIsQueued
    <3> QED BY <2>2, <3>1
  <2>5. /\ Cardinality(Chosen(plan)) \in Nat /\ Cardinality(failed) \in Nat
        /\ Cardinality(alerted) = Cardinality(Chosen(plan)) - Cardinality(failed)
        /\ Cardinality(failed) <= Cardinality(Chosen(plan))
    <3>1. failed \in SUBSET Chosen(plan)
      OBVIOUS
    <3>2. IsFiniteSet(failed) /\ Cardinality(failed) <= Cardinality(Chosen(plan))
      BY <2>3, <3>1, FS_Subset
    <3>3. Cardinality(alerted) = Cardinality(Chosen(plan)) - Cardinality(failed)
      BY <2>3, FS_Difference
    <3> HIDE DEF failed, alerted
    <3> QED BY <2>3, <3>2, <3>3, FS_CardinalityType
  <2>6. credits'[Event] = Min({Available[Event], plan.credits[Event] + Cardinality(failed)})
    <3>1. {p \in failed : Event \in {Event, plan.told[p]}} = failed
      OBVIOUS
    <3> QED BY <1>0, <2>2, <3>1 DEF Restored
  <2>7. /\ Credited[Event] \in Nat /\ Credited[Event] <= Available[Event]
        /\ least <= Credited[Event]
    BY <1>0, CreditedCounted
  <2> DEFINE c == plan.credits[Event]
             n == Cardinality(Chosen(plan))
             f == Cardinality(failed)
             a == Available[Event]
             k == Credited[Event]
  <2>8. c \in Nat /\ n \in Nat /\ f \in Nat /\ f <= n /\ a \in Nat /\ k \in Nat /\ k <= a /\ c + n = k /\ least <= k
        /\ Cardinality(queued' \ queued) = n - f
    BY <1>0, <2>3, <2>4, <2>5, <2>7 DEF PlanTyped
  <2>9. credits'[Event] = IF a <= c + f THEN a ELSE c + f
    <3>1. c + f \in Nat
      BY <2>8
    <3> QED BY <1>0, <2>6, <3>1, MinOfTwo
  <2> HIDE DEF c, n, f, a, k, least
  <2>10. credits'[Event] + (n - f) >= least
    BY <2>8, <2>9, <1>1
  <2> QED BY <2>8, <2>10 DEF PlaceKept, least
<1>4. CASE \E p \in People, s \in ScopesAsked : RequestWaitlist(p, s)
  <2>1. queued' = queued /\ credits'[Event] = least
    BY <1>0, <1>4 DEF RequestWaitlist, Initialised, mails
  <2> QED BY <1>1, <1>2, <2>1
<1>5. CASE UNCHANGED <<queued, credits>>
  BY <1>0, <1>1, <1>2, <1>5
<1> QED BY <1>3, <1>4, <1>5
        DEF WaitNext, Sell, BuyAlerted, ReturnTicket, Exchange, ChangeEvent, RequestStopped, Confirm,
            Leave, Stop, Resume, mails, inventory, wvars

(* A place waiting to be announced is given up only for an alert, or        *)
(* because it is no longer free, for any number of types and people.       *)
THEOREM NoCreditIsLost == WaitSpec => NoPlaceLost
<1>1. WaitInv /\ [WaitNext]_wvars => [PlaceKept]_wvars
  BY NoCreditLost
<1> QED BY <1>1, WaitInvariant, PTL DEF WaitSpec, NoPlaceLost, PlaceKept

-----------------------------------------------------------------------------
(* Places, added up. *)

(* More places of every type are more in all. *)
LEMMA TotalMonotone ==
  ASSUME NEW f, NEW g, Counts(f), Counts(g), \A t \in Kinds : f[t] <= g[t]
  PROVE  Total(f) <= Total(g)
<1>1. Places(f) \in SUBSET Places(g)
  <2>1. ASSUME NEW t \in Kinds, NEW i \in 1..f[t] PROVE i \in 1..g[t]
    <3>1. f[t] \in Nat /\ g[t] \in Nat /\ f[t] <= g[t]
      BY DEF Counts
    <3> QED BY <3>1
  <2> QED BY <2>1, PlaceOf
<1> QED BY <1>1, PlacesFinite, FS_Subset

(* One more place of a type is one more in all. *)
LEMMA TotalOneMore ==
  ASSUME NEW f, NEW g, Counts(f), Counts(g), NEW t \in Kinds, g[t] = f[t] + 1,
         \A u \in Kinds : u # t => g[u] = f[u]
  PROVE  Total(g) = Total(f) + 1
<1>1. f[t] \in Nat /\ g[t] \in Nat
  BY DEF Counts
<1>2. Places(g) = Places(f) \cup {<<t, f[t] + 1>>}
  <2>1. ASSUME NEW u \in Kinds, NEW i \in 1..g[u]
        PROVE  <<u, i>> \in Places(f) \cup {<<t, f[t] + 1>>}
    <3>1. CASE u # t
      <4>1. i \in 1..f[u]
        BY <3>1
      <4> QED BY <4>1, PlaceOf
    <3>2. CASE u = t /\ i = f[t] + 1
      BY <3>2
    <3>3. CASE u = t /\ i # f[t] + 1
      <4>1. i \in 1..f[t]
        BY <1>1, <3>3
      <4> QED BY <3>3, <4>1, PlaceOf
    <3> QED BY <3>1, <3>2, <3>3
  <2>2. ASSUME NEW u \in Kinds, NEW i \in 1..f[u] PROVE <<u, i>> \in Places(g)
    <3>1. i \in 1..g[u]
      BY <1>1
    <3> QED BY <3>1, PlaceOf
  <2>3. <<t, f[t] + 1>> \in Places(g)
    <3>1. f[t] + 1 \in 1..g[t]
      BY <1>1
    <3> QED BY <3>1, PlaceOf
  <2>4. Places(g) \subseteq Places(f) \cup {<<t, f[t] + 1>>}
    BY <2>1, PlaceOf
  <2>5. Places(f) \subseteq Places(g)
    BY <2>2, PlaceOf
  <2> QED BY <2>3, <2>4, <2>5
<1>3. <<t, f[t] + 1>> \notin Places(f)
  <2>1. f[t] + 1 \notin 1..f[t]
    BY <1>1
  <2> QED BY <2>1, PlaceOf
<1>4. IsFiniteSet(Places(f))
  BY PlacesFinite
<1>5. Cardinality(Places(g)) = Cardinality(Places(f)) + 1
  BY <1>2, <1>3, <1>4, FS_AddElement
<1> QED BY <1>5, PlacesFinite

(* Where one type has one place less, there is one less in all at most. *)
LEMMA TotalNearly ==
  ASSUME NEW f, NEW g, Counts(f), Counts(g), NEW t \in Kinds, f[t] <= g[t] + 1,
         \A u \in Kinds : u # t => f[u] <= g[u]
  PROVE  Total(f) <= Total(g) + 1
<1> DEFINE h == [u \in Kinds |-> IF u = t THEN g[t] + 1 ELSE g[u]]
<1>1. Counts(h) /\ h[t] = g[t] + 1 /\ \A u \in Kinds : u # t => h[u] = g[u]
  BY DEF Counts
<1>2. \A u \in Kinds : f[u] <= h[u]
  OBVIOUS
<1> HIDE DEF h
<1>3. Total(f) <= Total(h)
  BY <1>1, <1>2, TotalMonotone
<1>4. Total(h) = Total(g) + 1
  BY <1>1, TotalOneMore
<1> QED BY <1>3, <1>4

(* A type has no more places than there are in all. *)
LEMMA TotalCovers ==
  ASSUME NEW f, Counts(f), NEW t \in Kinds
  PROVE  f[t] <= Total(f)
<1>1. f[t] \in Nat
  BY DEF Counts
<1> DEFINE b == [i \in 1..f[t] |-> <<t, i>>]
           T == {<<t, i>> : i \in 1..f[t]}
<1>2. T \in SUBSET Places(f)
  BY PlaceOf
<1>3. b \in Bijection(1..f[t], T)
  BY DEF Bijection, Injection, Surjection, IsInjective
<1>4. IsFiniteSet(1..f[t]) /\ Cardinality(1..f[t]) = f[t]
  BY <1>1, FS_Interval
<1>5. Cardinality(T) = f[t]
  <2> HIDE DEF b, T
  <2>1. ExistsBijection(1..f[t], T)
    BY <1>3 DEF ExistsBijection
  <2> QED BY <2>1, <1>4, FS_Bijection
<1> HIDE DEF T
<1> QED BY <1>2, <1>5, PlacesFinite, FS_Subset

(* Sums add up. *)
LEMMA TotalAdds ==
  ASSUME NEW f, NEW g, NEW h, Counts(f), Counts(g), Counts(h),
         \A t \in Kinds : h[t] = f[t] + g[t]
  PROVE  Total(h) = Total(f) + Total(g)
<1> DEFINE b == [x \in Places(g) |-> <<x[1], f[x[1]] + x[2]>>]
           T == {<<x[1], f[x[1]] + x[2]>> : x \in Places(g)}
<1>0. \A t \in Kinds : f[t] \in Nat /\ g[t] \in Nat /\ h[t] = f[t] + g[t]
  BY DEF Counts
<1>1. \A x \in Places(g) : x = <<x[1], x[2]>> /\ x[1] \in Kinds /\ x[2] \in 1..g[x[1]]
  BY PlaceOf
<1>2. b \in Bijection(Places(g), T)
  <2>1. b \in [Places(g) -> T] /\ \A y \in T : \E x \in Places(g) : b[x] = y
    OBVIOUS
  <2>2. ASSUME NEW x \in Places(g), NEW y \in Places(g), b[x] = b[y] PROVE x = y
    <3>1. x[1] = y[1] /\ f[x[1]] + x[2] = f[y[1]] + y[2]
      BY <2>2
    <3>2. x[2] \in Nat /\ y[2] \in Nat /\ f[x[1]] \in Nat
      BY <1>0, <1>1
    <3>3. x[2] = y[2]
      BY <3>1, <3>2
    <3> QED BY <1>1, <3>1, <3>3
  <2> QED BY <2>1, <2>2 DEF Bijection, Injection, Surjection, IsInjective
<1>3. IsFiniteSet(Places(f)) /\ IsFiniteSet(Places(g))
  BY PlacesFinite
<1>4. IsFiniteSet(T) /\ Cardinality(T) = Cardinality(Places(g))
  <2> HIDE DEF b, T
  <2>1. ExistsBijection(Places(g), T)
    BY <1>2 DEF ExistsBijection
  <2> QED BY <2>1, <1>3, FS_Bijection
<1>5. Places(f) \cap T = {}
  <2>1. ASSUME NEW x \in Places(g), <<x[1], f[x[1]] + x[2]>> \in Places(f) PROVE FALSE
    <3>1. f[x[1]] + x[2] \in 1..f[x[1]]
      BY <2>1, PlaceOf
    <3> QED BY <1>0, <1>1, <3>1
  <2> QED BY <2>1
<1>6. Places(h) = Places(f) \cup T
  <2>1. ASSUME NEW t \in Kinds, NEW i \in 1..h[t] PROVE <<t, i>> \in Places(f) \cup T
    <3>1. CASE i \in 1..f[t]
      BY <3>1, PlaceOf
    <3>2. CASE i \notin 1..f[t]
      <4>1. i - f[t] \in 1..g[t] /\ f[t] + (i - f[t]) = i
        BY <1>0, <3>2
      <4>2. <<t, i - f[t]>> \in Places(g)
        BY <4>1, PlaceOf
      <4> QED BY <4>1, <4>2
    <3> QED BY <3>1, <3>2
  <2>2. ASSUME NEW t \in Kinds, NEW i \in 1..f[t] PROVE <<t, i>> \in Places(h)
    <3>1. i \in 1..h[t]
      BY <1>0
    <3> QED BY <3>1, PlaceOf
  <2>3. ASSUME NEW x \in Places(g) PROVE <<x[1], f[x[1]] + x[2]>> \in Places(h)
    <3>1. f[x[1]] + x[2] \in 1..h[x[1]] /\ x[1] \in Kinds
      BY <1>0, <1>1
    <3> QED BY <3>1, PlaceOf
  <2>4. Places(h) \subseteq Places(f) \cup T
    <3> HIDE DEF T
    <3> QED BY <2>1, PlaceOf
  <2>5. Places(f) \subseteq Places(h)
    BY <2>2, PlaceOf
  <2>6. T \subseteq Places(h)
    BY <2>3
  <2> QED BY <2>4, <2>5, <2>6
<1> HIDE DEF T
<1>7. Cardinality(Places(f) \cup T) = Cardinality(Places(f)) + Cardinality(T) - Cardinality(Places(f) \cap T)
  BY <1>3, <1>4, FS_Union
<1>8. Cardinality(Places(f) \cap T) = 0
  BY <1>5, FS_EmptySet
<1> DEFINE m == Total(f)
           n == Total(g)
<1>9. m \in Nat /\ n \in Nat /\ Cardinality(Places(f)) = m /\ Cardinality(T) = n
      /\ Total(h) = Cardinality(Places(f) \cup T)
  BY <1>4, <1>6, PlacesFinite
<1>10. Total(h) = m + n - 0
  BY <1>7, <1>8, <1>9
<1> HIDE DEF m, n
<1>11. m + n - 0 = m + n
  BY <1>9
<1> QED BY <1>10, <1>11 DEF m, n

-----------------------------------------------------------------------------
(* No more alerts than places. *)

(* What is on sale, from the places of each type and those left in all. *)
Shows(av, raw, left) ==
  /\ av \in [Scopes -> Nat]
  /\ av[Event] = IF Total(raw) <= left THEN Total(raw) ELSE left
  /\ \A t \in Kinds : av[t] = IF raw[t] <= av[Event] THEN raw[t] ELSE av[Event]

LEMMA ShowsOf ==
  ASSUME NEW raw \in [Kinds -> Nat], NEW left \in Nat, NEW av,
         av = [s \in Scopes |-> IF s = Event THEN Min({Total(raw), left})
                                ELSE Min({raw[s], Min({Total(raw), left})})]
  PROVE  Shows(av, raw, left)
<1>1. Total(raw) \in Nat
  BY PlacesFinite DEF Counts
<1> DEFINE all == Min({Total(raw), left})
<1>2. all = (IF Total(raw) <= left THEN Total(raw) ELSE left) /\ all \in Nat
  BY <1>1, MinOfTwo
<1> HIDE DEF all
<1>3. \A t \in Kinds : Min({raw[t], all}) = IF raw[t] <= all THEN raw[t] ELSE all
  BY <1>2, MinOfTwo
<1>4. av = [s \in Scopes |-> IF s = Event THEN all ELSE Min({raw[s], all})]
  BY DEF all
<1>5. \A t \in Kinds : t # Event /\ t \in Scopes
  BY WaitlistAssumption DEF Scopes
<1>6. av[Event] = all /\ \A t \in Kinds : av[t] = Min({raw[t], all})
  BY <1>4, <1>5 DEF Scopes
<1>7. av \in [Scopes -> Nat]
  BY <1>2, <1>3, <1>4, <1>5 DEF Scopes
<1> QED BY <1>2, <1>3, <1>6, <1>7 DEF Shows

LEMMA ShowsNow ==
  ASSUME EventTyped
  PROVE  /\ Raw \in [Kinds -> Nat] /\ PlacesLeft \in Nat /\ Shows(Available, Raw, PlacesLeft)
         /\ Total(sold) \in Nat /\ Total(Raw) \in Nat
<1>1. Raw \in [Kinds -> Nat]
  BY WaitlistAssumption DEF EventTyped, Raw, Difference
<1>2. Total(Raw) \in Nat /\ Total(sold) \in Nat
  BY <1>1, PlacesFinite DEF EventTyped, Counts
<1>3. PlacesLeft \in Nat
  BY <1>2, WaitlistAssumption DEF EventTyped, PlacesLeft, Difference
<1>4. Available = [s \in Scopes |-> IF s = Event THEN Min({Total(Raw), PlacesLeft})
                                    ELSE Min({Raw[s], Min({Total(Raw), PlacesLeft})})]
  BY DEF Available
<1>5. Shows(Available, Raw, PlacesLeft)
  BY <1>1, <1>3, <1>4, ShowsOf
<1> QED BY <1>1, <1>2, <1>3, <1>5

LEMMA ShowsNext ==
  ASSUME EventTyped'
  PROVE  /\ Raw' \in [Kinds -> Nat] /\ PlacesLeft' \in Nat /\ Shows(Available', Raw', PlacesLeft')
         /\ Total(sold') \in Nat /\ Total(Raw') \in Nat
         /\ PlacesLeft' = Difference(capacity', Total(sold'))
<1>1. Raw' \in [Kinds -> Nat]
  BY WaitlistAssumption DEF EventTyped, Raw, Difference
<1>2. Total(Raw') \in Nat /\ Total(sold') \in Nat
  BY <1>1, PlacesFinite DEF EventTyped, Counts
<1>a. Total(Raw)' = Total(Raw')
  BY DEF Total
<1>b. PlacesLeft' = Difference(capacity', Total(sold'))
  BY DEF PlacesLeft, Total, Difference
<1>3. PlacesLeft' \in Nat
  BY <1>b, <1>2, WaitlistAssumption DEF EventTyped, Difference
<1>4. Available' = [s \in Scopes |-> IF s = Event THEN Min({Total(Raw'), PlacesLeft'})
                                     ELSE Min({Raw'[s], Min({Total(Raw'), PlacesLeft'})})]
  BY <1>a DEF Available, Min, Scopes
<1>5. Shows(Available', Raw', PlacesLeft')
  BY <1>1, <1>3, <1>4, ShowsOf
<1> QED BY <1>1, <1>2, <1>3, <1>5, <1>b

(* No scope gains more than the event and its types do. *)
LEMMA ScopesGain ==
  ASSUME NEW raw \in [Kinds -> Nat], NEW raw2 \in [Kinds -> Nat], NEW left, NEW left2, NEW av, NEW av2,
         Shows(av, raw, left), Shows(av2, raw2, left2), NEW x \in Nat, av2[Event] <= av[Event] + x,
         \A t \in Kinds : raw2[t] <= raw[t] + x
  PROVE  \A s \in Scopes : av2[s] <= av[s] + x
<1>1. av[Event] \in Nat /\ av2[Event] \in Nat
  BY DEF Shows, Scopes
<1>2. ASSUME NEW t \in Kinds PROVE av2[t] <= av[t] + x
  <2>1. /\ av[t] = IF raw[t] <= av[Event] THEN raw[t] ELSE av[Event]
        /\ av2[t] = IF raw2[t] <= av2[Event] THEN raw2[t] ELSE av2[Event]
    BY DEF Shows
  <2>2. raw[t] \in Nat /\ raw2[t] \in Nat /\ raw2[t] <= raw[t] + x
    OBVIOUS
  <2> QED BY <1>1, <2>1, <2>2
<1> QED BY <1>2 DEF Scopes

(* What is on sale of each type covers what is on sale in all. *)
LEMMA TypesCover ==
  ASSUME NEW raw \in [Kinds -> Nat], NEW left \in Nat, NEW av, Shows(av, raw, left),
         NEW c, NEW d, Counts(c), Counts(d),
         \A t \in Kinds : d[t] = IF c[t] <= av[Event] THEN c[t] ELSE av[Event]
  PROVE  av[Event] <= Total(d) \/ Total(c) <= Total(d)
<1>0. av[Event] \in Nat /\ Total(d) \in Nat
  BY PlacesFinite DEF Shows, Scopes
<1>1. CASE \E t \in Kinds : ~(c[t] <= av[Event])
  <2>1. PICK t \in Kinds : ~(c[t] <= av[Event])
    BY <1>1
  <2>2. d[t] = av[Event]
    BY <2>1
  <2> QED BY <2>2, TotalCovers
<1>2. CASE \A t \in Kinds : c[t] <= av[Event]
  <2>1. \A t \in Kinds : c[t] <= d[t]
    BY <1>0, <1>2 DEF Counts
  <2> QED BY <2>1, TotalMonotone
<1> QED BY <1>1, <1>2

-----------------------------------------------------------------------------
(* Of each type, what both have. *)
Lesser(f, g) == [t \in Kinds |-> IF f[t] <= g[t] THEN f[t] ELSE g[t]]

LEMMA LesserCounts ==
  ASSUME NEW f \in [Kinds -> Nat], NEW g \in [Scopes -> Nat]
  PROVE  Counts(Lesser(f, g)) /\ Total(Lesser(f, g)) \in Nat
<1>1. Counts(Lesser(f, g))
  BY DEF Counts, Lesser, Scopes
<1> QED BY <1>1, PlacesFinite

(* What was told or is credited (u), against what came free (fr), what is   *)
(* on sale (av, of the places raw) and what was seen (sn).                 *)
Within(u, fr, av, sn, raw) ==
  /\ u <= fr
  /\ \A s \in Scopes : u + av[s] <= fr + sn[s]
  /\ u + av[Event] <= fr + Total(Lesser(raw, sn))

(* The inductive invariant of the counts.  That alerts and credits are      *)
(* within the places that came free is not enough: the next reconciliation *)
(* credits what is on sale and was not seen, per scope where the capacity  *)
(* binds, and added up over the types where it does not.  So neither of    *)
(* these may go beyond what came free.                                     *)
PlacesInv ==
  /\ IsFiniteSet(queued)
  /\ seen = NoRows => queued = {} /\ credits[Event] = 0
  /\ seen # NoRows => Within(Cardinality(queued) + credits[Event], freed, Available, seen, Raw)

(* A change of what is on sale that frees x places. *)
Moves(av, raw, av2, raw2, sn, x) ==
  /\ \A s \in Scopes : av2[s] <= av[s] + x
  /\ av2[Event] <= x \/ av2[Event] + Total(Lesser(raw, sn)) <= av[Event] + x + Total(Lesser(raw2, sn))

(* Such a change keeps within what came free. *)
LEMMA MovesWithin ==
  ASSUME NEW u \in Nat, NEW fr \in Nat, NEW x \in Nat, NEW sn \in [Scopes -> Nat],
         NEW raw \in [Kinds -> Nat], NEW raw2 \in [Kinds -> Nat],
         NEW av \in [Scopes -> Nat], NEW av2 \in [Scopes -> Nat],
         Within(u, fr, av, sn, raw), Moves(av, raw, av2, raw2, sn, x)
  PROVE  Within(u, fr + x, av2, sn, raw2)
<1>0. Event \in Scopes
  BY DEF Scopes
<1>1. u <= fr + x
  BY DEF Within
<1>2. ASSUME NEW s \in Scopes PROVE u + av2[s] <= (fr + x) + sn[s]
  <2>1. u + av[s] <= fr + sn[s] /\ av2[s] <= av[s] + x
    BY DEF Within, Moves
  <2>2. av[s] \in Nat /\ av2[s] \in Nat /\ sn[s] \in Nat
    OBVIOUS
  <2> QED BY <2>1, <2>2
<1>3. u + av2[Event] <= (fr + x) + Total(Lesser(raw2, sn))
  <2> DEFINE m == Total(Lesser(raw, sn))
             n == Total(Lesser(raw2, sn))
  <2>1. m \in Nat /\ n \in Nat
    BY LesserCounts
  <2>2. av[Event] \in Nat /\ av2[Event] \in Nat
    BY <1>0
  <2>3. u <= fr /\ u + av[Event] <= fr + m /\ (av2[Event] <= x \/ av2[Event] + m <= av[Event] + x + n)
    BY DEF Within, Moves
  <2> HIDE DEF m, n
  <2>4. u + av2[Event] <= (fr + x) + n
    BY <2>1, <2>2, <2>3
  <2> QED BY <2>4 DEF n
<1> QED BY <1>1, <1>2, <1>3 DEF Within

(* The places of each type, and none on sale unless published; now, and     *)
(* after a step.                                                           *)
LEMMA RawNow ==
  ASSUME EventTyped
  PROVE  /\ \A t \in Kinds : Raw[t] = IF status = "published" THEN Quantity[t] - sold[t] ELSE 0
         /\ status # "published" => Available[Event] = 0
<1>1. \A t \in Kinds : Quantity[t] \in Nat /\ sold[t] \in Nat /\ sold[t] <= Quantity[t]
  BY WaitlistAssumption DEF EventTyped
<1>2. \A t \in Kinds : Raw[t] = IF status = "published" THEN Quantity[t] - sold[t] ELSE 0
  BY <1>1 DEF Raw, Difference
<1>3. ASSUME status # "published" PROVE Available[Event] = 0
  <2>1. \A t \in Kinds : Raw[t] = 0
    BY <1>2, <1>3
  <2>2. Places(Raw) = {}
    <3>1. \A t \in Kinds : 1..Raw[t] = {}
      BY <2>1
    <3> QED BY <3>1, PlaceOf
  <2>3. Total(Raw) = 0
    BY <2>2, FS_EmptySet DEF Places, Total
  <2> QED BY <2>3, ShowsNow DEF Shows
<1> QED BY <1>2, <1>3

LEMMA RawNext ==
  ASSUME EventTyped'
  PROVE  /\ \A t \in Kinds : Raw'[t] = IF status' = "published" THEN Quantity[t] - sold'[t] ELSE 0
         /\ status' # "published" => Available'[Event] = 0
<1>1. \A t \in Kinds : Quantity[t] \in Nat /\ sold'[t] \in Nat /\ sold'[t] <= Quantity[t]
  BY WaitlistAssumption DEF EventTyped
<1>2. \A t \in Kinds : Raw'[t] = IF status' = "published" THEN Quantity[t] - sold'[t] ELSE 0
  BY <1>1 DEF Raw, Difference
<1>3. ASSUME status' # "published" PROVE Available'[Event] = 0
  <2>1. \A t \in Kinds : Raw'[t] = 0
    BY <1>2, <1>3
  <2>2. Places(Raw') = {}
    <3>1. \A t \in Kinds : 1..(Raw'[t]) = {}
      BY <2>1
    <3> QED BY <3>1, PlaceOf
  <2>3. Total(Raw') = 0
    BY <2>2, FS_EmptySet DEF Places, Total
  <2> QED BY <2>3, ShowsNext DEF Shows
<1> QED BY <1>2, <1>3

(* A ticket is sold. *)
LEMMA SoldMoves ==
  ASSUME EventTyped, EventTyped', NEW t \in Kinds, Available[t] > 0,
         sold' = [sold EXCEPT ![t] = @ + 1], UNCHANGED <<capacity, status>>, NEW sn \in [Scopes -> Nat]
  PROVE  Moves(Available, Raw, Available', Raw', sn, 0)
<1>1. Shows(Available, Raw, PlacesLeft) /\ Shows(Available', Raw', PlacesLeft')
      /\ Raw \in [Kinds -> Nat] /\ Raw' \in [Kinds -> Nat] /\ PlacesLeft \in Nat /\ PlacesLeft' \in Nat
      /\ Total(Raw) \in Nat /\ Total(Raw') \in Nat /\ Total(sold) \in Nat /\ Total(sold') \in Nat
      /\ PlacesLeft' = Difference(capacity', Total(sold'))
  BY ShowsNow, ShowsNext
<1>2. Available[Event] \in Nat /\ Available[t] \in Nat /\ Available'[Event] \in Nat
  BY <1>1 DEF Shows, Scopes
<1>3. /\ Available[Event] = IF Total(Raw) <= PlacesLeft THEN Total(Raw) ELSE PlacesLeft
      /\ Available'[Event] = IF Total(Raw') <= PlacesLeft' THEN Total(Raw') ELSE PlacesLeft'
      /\ Available[t] = IF Raw[t] <= Available[Event] THEN Raw[t] ELSE Available[Event]
  BY <1>1 DEF Shows
<1>4. Raw[t] > 0 /\ PlacesLeft > 0 /\ Raw[t] \in Nat
  BY <1>1, <1>2, <1>3
<1>5. sold'[t] = sold[t] + 1 /\ \A u \in Kinds : u # t => sold'[u] = sold[u]
  BY DEF EventTyped
<1>6. status = "published" /\ Raw[t] = Raw'[t] + 1 /\ \A u \in Kinds : u # t => Raw'[u] = Raw[u]
  <2>1. status = "published" /\ status' = "published"
    BY <1>4, RawNow
  <2>2. sold[t] \in Nat /\ Quantity[t] \in Nat
    BY WaitlistAssumption DEF EventTyped
  <2>3. Raw[t] = Quantity[t] - sold[t] /\ Raw'[t] = Quantity[t] - sold'[t]
    BY <2>1, RawNow, RawNext
  <2>4. \A u \in Kinds : u # t => Raw'[u] = Raw[u]
    BY <2>1, <1>5, RawNow, RawNext
  <2> QED BY <2>1, <2>2, <2>3, <2>4, <1>5
<1>7. Total(Raw) = Total(Raw') + 1
  BY <1>1, <1>6, TotalOneMore DEF Counts
<1>8. Total(sold') = Total(sold) + 1
  BY <1>5, TotalOneMore DEF EventTyped, Counts
<1>9. PlacesLeft = PlacesLeft' + 1
  <2>1. capacity \in Nat /\ capacity' = capacity
    BY WaitlistAssumption DEF EventTyped
  <2>2. PlacesLeft = Difference(capacity, Total(sold))
    BY DEF PlacesLeft
  <2> QED BY <2>1, <2>2, <1>1, <1>4, <1>8 DEF Difference
<1>10. Available[Event] = Available'[Event] + 1
  BY <1>1, <1>3, <1>7, <1>9
<1>11. \A u \in Kinds : Raw'[u] <= Raw[u] + 0
  BY <1>1, <1>6
<1>12. \A s \in Scopes : Available'[s] <= Available[s] + 0
  BY <1>1, <1>2, <1>10, <1>11, ScopesGain
<1>13. Total(Lesser(Raw, sn)) <= Total(Lesser(Raw', sn)) + 1
  <2>1. Counts(Lesser(Raw, sn)) /\ Counts(Lesser(Raw', sn))
    BY <1>1, LesserCounts
  <2>2. \A u \in Kinds : Raw[u] \in Nat /\ Raw'[u] \in Nat /\ sn[u] \in Nat
    BY <1>1 DEF Scopes
  <2>3. Lesser(Raw, sn)[t] <= Lesser(Raw', sn)[t] + 1
    BY <2>2, <1>6 DEF Lesser
  <2>4. \A u \in Kinds : u # t => Lesser(Raw, sn)[u] <= Lesser(Raw', sn)[u]
    BY <2>2, <1>6 DEF Lesser
  <2> QED BY <2>1, <2>3, <2>4, TotalNearly
<1>14. Total(Lesser(Raw, sn)) \in Nat /\ Total(Lesser(Raw', sn)) \in Nat
  BY <1>1, LesserCounts
<1>15. Available'[Event] + Total(Lesser(Raw, sn)) <= Available[Event] + 0 + Total(Lesser(Raw', sn))
  BY <1>2, <1>10, <1>13, <1>14
<1> QED BY <1>12, <1>15 DEF Moves

(* A ticket comes back. *)
LEMMA ReturnMoves ==
  ASSUME EventTyped, EventTyped', NEW t \in Kinds, sold[t] > 0,
         sold' = [sold EXCEPT ![t] = @ - 1], UNCHANGED <<capacity, status>>, NEW sn \in [Scopes -> Nat]
  PROVE  Moves(Available, Raw, Available', Raw', sn, MoreAvailable)
<1>1. Shows(Available, Raw, PlacesLeft) /\ Shows(Available', Raw', PlacesLeft')
      /\ Raw \in [Kinds -> Nat] /\ Raw' \in [Kinds -> Nat] /\ PlacesLeft \in Nat /\ PlacesLeft' \in Nat
      /\ Total(Raw) \in Nat /\ Total(Raw') \in Nat /\ Total(sold) \in Nat /\ Total(sold') \in Nat
      /\ PlacesLeft' = Difference(capacity', Total(sold'))
  BY ShowsNow, ShowsNext
<1>2. Available[Event] \in Nat /\ Available'[Event] \in Nat /\ Available \in [Scopes -> Nat]
  BY <1>1 DEF Shows, Scopes
<1>3. /\ Available[Event] = IF Total(Raw) <= PlacesLeft THEN Total(Raw) ELSE PlacesLeft
      /\ Available'[Event] = IF Total(Raw') <= PlacesLeft' THEN Total(Raw') ELSE PlacesLeft'
  BY <1>1 DEF Shows
<1>x. MoreAvailable \in Nat /\ Available'[Event] <= Available[Event] + MoreAvailable
  BY <1>2 DEF MoreAvailable, Difference
<1>4. CASE Available'[Event] = 0
  <2>1. \A s \in Scopes : Available'[s] = 0
    <3>1. \A u \in Kinds : Raw'[u] \in Nat /\ Available'[u] = IF Raw'[u] <= Available'[Event] THEN Raw'[u] ELSE Available'[Event]
      BY <1>1 DEF Shows
    <3>2. \A u \in Kinds : Available'[u] = 0
      BY <3>1, <1>4
    <3> QED BY <1>4, <3>2 DEF Scopes
  <2>2. \A s \in Scopes : Available'[s] <= Available[s] + MoreAvailable
    BY <2>1, <1>x, <1>2
  <2>3. Available'[Event] <= MoreAvailable
    BY <1>4, <1>x
  <2> QED BY <2>2, <2>3 DEF Moves
<1>5. CASE Available'[Event] # 0
  <2>1. status = "published" /\ status' = "published"
    BY <1>5, RawNext
  <2>2. sold[t] \in Nat /\ Quantity[t] \in Nat
    BY WaitlistAssumption DEF EventTyped
  <2>3. sold[t] = sold'[t] + 1 /\ \A u \in Kinds : u # t => sold'[u] = sold[u]
    BY <2>2 DEF EventTyped
  <2>4. Raw'[t] = Raw[t] + 1 /\ \A u \in Kinds : u # t => Raw'[u] = Raw[u]
    <3>1. Raw[t] = Quantity[t] - sold[t] /\ Raw'[t] = Quantity[t] - sold'[t]
      BY <2>1, RawNow, RawNext
    <3>2. \A u \in Kinds : u # t => Raw'[u] = Raw[u]
      BY <2>1, <2>3, RawNow, RawNext
    <3>3. sold'[t] \in Nat
      BY DEF EventTyped
    <3>4. sold[t] = sold'[t] + 1
      BY <2>3
    <3>5. Raw'[t] = Raw[t] + 1
      BY <2>2, <3>1, <3>3, <3>4
    <3> QED BY <3>2, <3>5
  <2>5. Total(Raw') = Total(Raw) + 1
    BY <1>1, <2>4, TotalOneMore DEF Counts
  <2>6. Total(sold) = Total(sold') + 1
    <3>1. \A u \in Kinds : u # t => sold[u] = sold'[u]
      BY <2>3
    <3> QED BY <2>3, <3>1, TotalOneMore DEF EventTyped, Counts
  <2>7. PlacesLeft' = PlacesLeft + 1
    <3>1. capacity \in Nat /\ capacity' = capacity
      BY WaitlistAssumption DEF EventTyped
    <3>2. PlacesLeft = Difference(capacity, Total(sold))
      BY DEF PlacesLeft
    <3>3. PlacesLeft' > 0
      BY <1>1, <1>3, <1>5
    <3> QED BY <3>1, <3>2, <3>3, <1>1, <2>6 DEF Difference
  <2>8. Available'[Event] = Available[Event] + 1
    BY <1>1, <1>3, <2>5, <2>7
  <2>9. MoreAvailable = 1
    BY <1>2, <2>8 DEF MoreAvailable, Difference
  <2>10. \A u \in Kinds : Raw'[u] <= Raw[u] + 1
    BY <1>1, <2>4
  <2>11. \A s \in Scopes : Available'[s] <= Available[s] + 1
    <3>1. Available'[Event] <= Available[Event] + 1 /\ 1 \in Nat
      BY <1>2, <2>8
    <3> QED BY <1>1, <3>1, <2>10, ScopesGain
  <2>12. Total(Lesser(Raw, sn)) <= Total(Lesser(Raw', sn))
    <3>1. Counts(Lesser(Raw, sn)) /\ Counts(Lesser(Raw', sn))
      BY <1>1, LesserCounts
    <3>2. \A u \in Kinds : Raw[u] \in Nat /\ Raw'[u] \in Nat /\ sn[u] \in Nat /\ Raw[u] <= Raw'[u]
      BY <1>1, <2>4 DEF Scopes
    <3>3. \A u \in Kinds : Lesser(Raw, sn)[u] <= Lesser(Raw', sn)[u]
      BY <3>2 DEF Lesser
    <3> QED BY <3>1, <3>3, TotalMonotone
  <2>13. Total(Lesser(Raw, sn)) \in Nat /\ Total(Lesser(Raw', sn)) \in Nat
    BY <1>1, LesserCounts
  <2>14. Available'[Event] + Total(Lesser(Raw, sn)) <= Available[Event] + 1 + Total(Lesser(Raw', sn))
    BY <1>2, <2>8, <2>12, <2>13
  <2> QED BY <2>9, <2>11, <2>14 DEF Moves
<1> QED BY <1>4, <1>5

(* A ticket is exchanged for one of another type. *)
LEMMA ExchangeMoves ==
  ASSUME EventTyped, EventTyped', NEW t \in Kinds, NEW u \in Kinds, t # u, sold[t] > 0, Raw[u] > 0,
         sold' = [sold EXCEPT ![t] = @ - 1, ![u] = @ + 1], UNCHANGED <<capacity, status>>,
         NEW sn \in [Scopes -> Nat]
  PROVE  Moves(Available, Raw, Available', Raw', sn, 1)
<1>1. Shows(Available, Raw, PlacesLeft) /\ Shows(Available', Raw', PlacesLeft')
      /\ Raw \in [Kinds -> Nat] /\ Raw' \in [Kinds -> Nat] /\ PlacesLeft \in Nat /\ PlacesLeft' \in Nat
      /\ Total(Raw) \in Nat /\ Total(Raw') \in Nat /\ Total(sold) \in Nat /\ Total(sold') \in Nat
      /\ PlacesLeft' = Difference(capacity', Total(sold'))
  BY ShowsNow, ShowsNext
<1>2. Available[Event] \in Nat /\ Available'[Event] \in Nat
  BY <1>1 DEF Shows, Scopes
<1>3. /\ Available[Event] = IF Total(Raw) <= PlacesLeft THEN Total(Raw) ELSE PlacesLeft
      /\ Available'[Event] = IF Total(Raw') <= PlacesLeft' THEN Total(Raw') ELSE PlacesLeft'
  BY <1>1 DEF Shows
<1>4. status = "published" /\ status' = "published"
  BY <1>1, RawNow
<1>5. sold[t] \in Nat /\ sold[u] \in Nat /\ \A v \in Kinds : Quantity[v] \in Nat
  BY WaitlistAssumption DEF EventTyped
<1>6. sold'[t] = sold[t] - 1 /\ sold'[u] = sold[u] + 1 /\ \A v \in Kinds : v \notin {t, u} => sold'[v] = sold[v]
  BY DEF EventTyped
<1>7. Raw'[t] = Raw[t] + 1 /\ Raw[u] = Raw'[u] + 1 /\ \A v \in Kinds : v \notin {t, u} => Raw'[v] = Raw[v]
  <2>1. \A v \in Kinds : Raw[v] = Quantity[v] - sold[v] /\ Raw'[v] = Quantity[v] - sold'[v]
    BY <1>4, RawNow, RawNext
  <2>2. Raw'[t] = Raw[t] + 1
    <3>1. Raw[t] = Quantity[t] - sold[t] /\ Raw'[t] = Quantity[t] - sold'[t] /\ sold'[t] = sold[t] - 1
      BY <1>6, <2>1
    <3>2. Quantity[t] \in Nat /\ sold[t] \in Nat
      BY <1>5
    <3> QED BY <3>1, <3>2
  <2>3. Raw[u] = Raw'[u] + 1
    <3>1. Raw[u] = Quantity[u] - sold[u] /\ Raw'[u] = Quantity[u] - sold'[u] /\ sold'[u] = sold[u] + 1
      BY <1>6, <2>1
    <3>2. Quantity[u] \in Nat /\ sold[u] \in Nat
      BY <1>5
    <3> QED BY <3>1, <3>2
  <2>4. \A v \in Kinds : v \notin {t, u} => Raw'[v] = Raw[v]
    BY <1>6, <2>1
  <2> QED BY <2>2, <2>3, <2>4
<1>8. Total(sold') = Total(sold)
  <2> DEFINE h == [v \in Kinds |-> IF v = t THEN sold[t] - 1 ELSE sold[v]]
  <2>1. sold[t] - 1 \in Nat
    BY <1>5
  <2>2. Counts(h) /\ Counts(sold) /\ Counts(sold')
    BY <2>1 DEF Counts, EventTyped
  <2>3. sold[t] = h[t] + 1 /\ \A v \in Kinds : v # t => sold[v] = h[v]
    BY <1>5
  <2>4. sold'[u] = h[u] + 1 /\ \A v \in Kinds : v # u => sold'[v] = h[v]
    BY <1>6
  <2> HIDE DEF h
  <2>5. Total(sold) = Total(h) + 1
    BY <2>2, <2>3, TotalOneMore
  <2>6. Total(sold') = Total(h) + 1
    BY <2>2, <2>4, TotalOneMore
  <2> QED BY <2>5, <2>6
<1>9. Total(Raw') = Total(Raw)
  <2> DEFINE h == [v \in Kinds |-> IF v = u THEN Raw'[u] ELSE Raw[v]]
  <2>2. Counts(h) /\ Counts(Raw) /\ Counts(Raw')
    BY <1>1 DEF Counts
  <2>3. Raw[u] = h[u] + 1 /\ \A v \in Kinds : v # u => Raw[v] = h[v]
    BY <1>7
  <2>4. Raw'[t] = h[t] + 1 /\ \A v \in Kinds : v # t => Raw'[v] = h[v]
    BY <1>7
  <2> HIDE DEF h
  <2> QED BY <2>2, <2>3, <2>4, TotalOneMore
<1>10. PlacesLeft' = PlacesLeft
  BY <1>1, <1>8 DEF PlacesLeft
<1>11. Available'[Event] = Available[Event]
  BY <1>3, <1>9, <1>10
<1>12. \A v \in Kinds : Raw'[v] <= Raw[v] + 1
  BY <1>1, <1>7
<1>13. \A s \in Scopes : Available'[s] <= Available[s] + 1
  <2>1. Available'[Event] <= Available[Event] + 1 /\ 1 \in Nat
    BY <1>2, <1>11
  <2> QED BY <1>1, <2>1, <1>12, ScopesGain
<1>14. Total(Lesser(Raw, sn)) <= Total(Lesser(Raw', sn)) + 1
  <2>1. Counts(Lesser(Raw, sn)) /\ Counts(Lesser(Raw', sn))
    BY <1>1, LesserCounts
  <2>2. \A v \in Kinds : Raw[v] \in Nat /\ Raw'[v] \in Nat /\ sn[v] \in Nat
    BY <1>1 DEF Scopes
  <2>3. Lesser(Raw, sn)[u] <= Lesser(Raw', sn)[u] + 1
    BY <2>2, <1>7 DEF Lesser
  <2>4. \A v \in Kinds : v # u => Lesser(Raw, sn)[v] <= Lesser(Raw', sn)[v]
    <3>1. \A v \in Kinds : v # u => Raw[v] <= Raw'[v]
      BY <2>2, <1>7
    <3> QED BY <2>2, <3>1 DEF Lesser
  <2> QED BY <2>1, <2>3, <2>4, TotalNearly
<1>15. Total(Lesser(Raw, sn)) \in Nat /\ Total(Lesser(Raw', sn)) \in Nat
  BY <1>1, LesserCounts
<1>16. Available'[Event] + Total(Lesser(Raw, sn)) <= Available[Event] + 1 + Total(Lesser(Raw', sn))
  BY <1>2, <1>11, <1>14, <1>15
<1> QED BY <1>13, <1>16 DEF Moves

(* The host saves the event: the places of the types stay, or are withdrawn *)
(* or put on sale altogether.                                              *)
LEMMA ChangeMoves ==
  ASSUME EventTyped, EventTyped', UNCHANGED sold, NEW sn \in [Scopes -> Nat]
  PROVE  Moves(Available, Raw, Available', Raw', sn, MoreAvailable)
<1>1. Shows(Available, Raw, PlacesLeft) /\ Shows(Available', Raw', PlacesLeft')
      /\ Raw \in [Kinds -> Nat] /\ Raw' \in [Kinds -> Nat] /\ PlacesLeft \in Nat /\ PlacesLeft' \in Nat
  BY ShowsNow, ShowsNext
<1>2. Available[Event] \in Nat /\ Available'[Event] \in Nat /\ Available \in [Scopes -> Nat]
      /\ Available' \in [Scopes -> Nat]
  BY <1>1 DEF Shows, Scopes
<1>x. MoreAvailable \in Nat /\ Available'[Event] <= Available[Event] + MoreAvailable
  BY <1>2 DEF MoreAvailable, Difference
<1>3. CASE Available'[Event] <= MoreAvailable
  <2>1. \A s \in Scopes : Available'[s] <= Available'[Event]
    <3>1. \A u \in Kinds : Raw'[u] \in Nat /\ Available'[u] = IF Raw'[u] <= Available'[Event] THEN Raw'[u] ELSE Available'[Event]
      BY <1>1 DEF Shows
    <3>2. \A u \in Kinds : Available'[u] <= Available'[Event]
      BY <3>1, <1>2
    <3> QED BY <1>2, <3>2 DEF Scopes
  <2>2. \A s \in Scopes : Available'[s] <= Available[s] + MoreAvailable
    <3>1. \A s \in Scopes : Available'[s] \in Nat /\ Available[s] \in Nat
      BY <1>2
    <3> QED BY <2>1, <3>1, <1>3, <1>x, <1>2
  <2> QED BY <1>3, <2>2 DEF Moves
<1>4. CASE ~(Available'[Event] <= MoreAvailable)
  <2>1. status' = "published"
    BY <1>4, <1>x, RawNext
  <2>2. status = "published"
    <3>1. SUFFICES ASSUME status # "published" PROVE FALSE
      OBVIOUS
    <3>2. Available[Event] = 0
      BY <3>1, RawNow
    <3> QED BY <3>2, <1>2, <1>x, <1>4
  <2>3. \A u \in Kinds : Raw'[u] = Raw[u]
    BY <2>1, <2>2, RawNow, RawNext
  <2>4. \A u \in Kinds : Raw'[u] <= Raw[u] + MoreAvailable
    BY <1>1, <1>x, <2>3
  <2>5. \A s \in Scopes : Available'[s] <= Available[s] + MoreAvailable
    BY <1>1, <1>x, <2>4, ScopesGain
  <2>6. Lesser(Raw', sn) = Lesser(Raw, sn)
    BY <2>3 DEF Lesser
  <2>7. Total(Lesser(Raw, sn)) \in Nat
    BY <1>1, LesserCounts
  <2>8. Available'[Event] + Total(Lesser(Raw, sn)) <= Available[Event] + MoreAvailable + Total(Lesser(Raw, sn))
    BY <1>2, <1>x, <2>7
  <2> QED BY <2>5, <2>6, <2>8 DEF Moves
<1> QED BY <1>3, <1>4

(* When all that is on sale was seen, what was told or is credited need     *)
(* only be what came free.                                                 *)
LEMMA SeenAll ==
  ASSUME NEW raw \in [Kinds -> Nat], NEW left \in Nat, NEW av, Shows(av, raw, left),
         NEW u \in Nat, NEW fr \in Nat, u <= fr
  PROVE  Within(u, fr, av, av, raw)
<1>1. av \in [Scopes -> Nat] /\ av[Event] \in Nat /\ Counts(raw) /\ Total(raw) \in Nat
  BY PlacesFinite DEF Shows, Scopes, Counts
<1>2. \A s \in Scopes : u + av[s] <= fr + av[s]
  <2>1. \A s \in Scopes : av[s] \in Nat
    BY <1>1
  <2> QED BY <2>1
<1>3. Counts(Lesser(raw, av)) /\ Total(Lesser(raw, av)) \in Nat
  BY <1>1, LesserCounts
<1>4. \A t \in Kinds : Lesser(raw, av)[t] = IF raw[t] <= av[Event] THEN raw[t] ELSE av[Event]
  <2>1. TAKE t \in Kinds
  <2>2. av[t] = IF raw[t] <= av[Event] THEN raw[t] ELSE av[Event]
    BY DEF Shows
  <2>3. raw[t] \in Nat /\ Lesser(raw, av)[t] = IF raw[t] <= av[t] THEN raw[t] ELSE av[t]
    BY DEF Lesser
  <2> QED BY <1>1, <2>2, <2>3
<1>5. av[Event] <= Total(Lesser(raw, av)) \/ Total(raw) <= Total(Lesser(raw, av))
  BY <1>1, <1>3, <1>4, TypesCover
<1>6. av[Event] = IF Total(raw) <= left THEN Total(raw) ELSE left
  BY DEF Shows
<1>7. u + av[Event] <= fr + Total(Lesser(raw, av))
  BY <1>1, <1>3, <1>5, <1>6
<1> QED BY <1>2, <1>7 DEF Within

(* initializeInventoryState forgets what is no longer on sale. *)
LEMMA ForgetWithin ==
  ASSUME NEW raw \in [Kinds -> Nat], NEW left \in Nat, NEW av, Shows(av, raw, left),
         NEW u \in Nat, NEW u2 \in Nat, NEW fr \in Nat, u2 <= u,
         NEW sn \in [Scopes -> Nat], NEW sn2 \in [Scopes -> Nat],
         \A s \in Scopes : sn2[s] = IF sn[s] <= av[s] THEN sn[s] ELSE av[s],
         Within(u, fr, av, sn, raw)
  PROVE  Within(u2, fr, av, sn2, raw)
<1>1. av \in [Scopes -> Nat] /\ av[Event] \in Nat /\ u <= fr
  BY DEF Shows, Scopes, Within
<1>2. ASSUME NEW s \in Scopes PROVE u2 + av[s] <= fr + sn2[s]
  <2>1. av[s] \in Nat /\ sn[s] \in Nat /\ sn2[s] = IF sn[s] <= av[s] THEN sn[s] ELSE av[s]
    BY <1>1
  <2>2. u + av[s] <= fr + sn[s]
    BY DEF Within
  <2> QED BY <1>1, <2>1, <2>2
<1> DEFINE c == Lesser(raw, sn)
           d == Lesser(raw, sn2)
<1>3. Counts(c) /\ Counts(d) /\ Total(c) \in Nat /\ Total(d) \in Nat
  BY LesserCounts
<1>4. \A t \in Kinds : d[t] = IF c[t] <= av[Event] THEN c[t] ELSE av[Event]
  <2>1. TAKE t \in Kinds
  <2>2. t \in Scopes
    BY DEF Scopes
  <2>3. av[t] = IF raw[t] <= av[Event] THEN raw[t] ELSE av[Event]
    BY DEF Shows
  <2>4. raw[t] \in Nat /\ sn[t] \in Nat /\ sn2[t] = IF sn[t] <= av[t] THEN sn[t] ELSE av[t]
    BY <2>2
  <2>5. /\ c[t] = IF raw[t] <= sn[t] THEN raw[t] ELSE sn[t]
        /\ d[t] = IF raw[t] <= sn2[t] THEN raw[t] ELSE sn2[t]
    BY DEF Lesser
  <2> HIDE DEF c, d
  <2> QED BY <1>1, <2>3, <2>4, <2>5
<1>5. u + av[Event] <= fr + Total(c)
  BY DEF Within
<1>6. u2 + av[Event] <= fr + Total(d)
  <2> HIDE DEF c, d
  <2>1. av[Event] <= Total(d) \/ Total(c) <= Total(d)
    BY <1>3, <1>4, TypesCover
  <2> QED BY <1>1, <1>3, <1>5, <2>1
<1>7. u2 <= fr
  BY <1>1
<1> QED BY <1>2, <1>6, <1>7 DEF Within

(* What a reconciliation takes for new came free. *)
LEMMA NewCameFree ==
  ASSUME EventTyped, seen \in [Scopes -> Nat], seen # NoRows, credits \in [Scopes -> Nat],
         NEW u \in Nat, NEW fr \in Nat, Within(u, fr, Available, seen, Raw)
  PROVE  u + CapacityDelta <= fr
<1>1. /\ Raw \in [Kinds -> Nat] /\ PlacesLeft \in Nat /\ Shows(Available, Raw, PlacesLeft)
      /\ Total(Raw) \in Nat /\ Available \in [Scopes -> Nat] /\ Event \in Scopes /\ u <= fr
  BY ShowsNow DEF Shows, Scopes, Within
<1>2. /\ CapacityDelta \in Nat /\ Delta \in [Scopes -> Nat]
      /\ IF CapacityBinds THEN \E s \in Scopes : CapacityDelta = Delta[s]
                          ELSE CapacityDelta \in {Delta[Event], Total(Delta)}
  BY CreditedCounted
<1>3. \A s \in Scopes : Delta[s] = IF Available[s] > seen[s] THEN Available[s] - seen[s] ELSE 0
  BY DEF Delta, Difference, Seen
<1>4. ASSUME NEW s \in Scopes PROVE u + Delta[s] <= fr
  <2>1. Available[s] \in Nat /\ seen[s] \in Nat
    BY <1>1
  <2>2. u + Available[s] <= fr + seen[s]
    BY DEF Within
  <2>3. Delta[s] = IF Available[s] > seen[s] THEN Available[s] - seen[s] ELSE 0
    BY <1>3
  <2> QED BY <1>1, <2>1, <2>2, <2>3
<1>5. ASSUME ~CapacityBinds PROVE u + Total(Delta) <= fr
  <2>1. Total(Raw) <= PlacesLeft
    BY <1>1, <1>5 DEF CapacityBinds
  <2>2. Available[Event] = Total(Raw)
    BY <1>1, <2>1 DEF Shows
  <2>3. \A t \in Kinds : Available[t] = Raw[t]
    <3>1. TAKE t \in Kinds
    <3>2. Raw[t] <= Total(Raw)
      BY <1>1, TotalCovers DEF Counts
    <3> QED BY <1>1, <2>2, <3>2 DEF Shows
  <2> DEFINE c == Lesser(Raw, seen)
  <2>4. Counts(c) /\ Total(c) \in Nat
    BY <1>1, LesserCounts
  <2>5. \A t \in Kinds : Raw[t] = c[t] + Delta[t]
    <3>1. TAKE t \in Kinds
    <3>2. t \in Scopes
      BY DEF Scopes
    <3>3. Raw[t] \in Nat /\ seen[t] \in Nat /\ c[t] = IF Raw[t] <= seen[t] THEN Raw[t] ELSE seen[t]
      BY <1>1, <3>2 DEF Lesser
    <3>4. Delta[t] = IF Raw[t] > seen[t] THEN Raw[t] - seen[t] ELSE 0
      BY <1>3, <2>3, <3>2
    <3> HIDE DEF c
    <3> QED BY <3>3, <3>4
  <2>6. Counts(Delta) /\ Counts(Raw)
    BY <1>1, <1>2 DEF Counts, Scopes
  <2>7. Total(Delta) \in Nat
    BY <2>6, PlacesFinite
  <2>8. u + Available[Event] <= fr + Total(c)
    BY DEF Within
  <2> HIDE DEF c
  <2>9. Total(Raw) = Total(c) + Total(Delta)
    BY <2>4, <2>5, <2>6, TotalAdds
  <2> QED BY <1>1, <2>2, <2>4, <2>7, <2>8, <2>9
<1> QED BY <1>1, <1>2, <1>4, <1>5

LEMMA PlacesNext ==
  ASSUME IsFiniteSet(queued'),
         seen' = NoRows => queued' = {} /\ credits'[Event] = 0,
         seen' # NoRows => Within(Cardinality(queued') + credits'[Event], freed', Available', seen', Raw')
  PROVE  PlacesInv'
<1>1. Total(Lesser(Raw, seen))' = Total(Lesser(Raw', seen'))
  BY DEF Total, Lesser
<1> QED BY <1>1 DEF PlacesInv, Within

(* What the invariants say of the numbers of a state. *)
LEMMA Numbers ==
  ASSUME WaitInv, PlacesInv
  PROVE  /\ EventTyped /\ Event \in Scopes /\ freed \in Nat /\ credits \in [Scopes -> Nat]
         /\ credits[Event] \in Nat /\ Cardinality(queued) \in Nat
         /\ Cardinality(queued) + credits[Event] \in Nat
         /\ seen # NoRows => seen \in [Scopes -> Nat]
<1>1. EventTyped /\ Event \in Scopes /\ freed \in Nat /\ credits \in [Scopes -> Nat]
      /\ (seen # NoRows => seen \in [Scopes -> Nat])
  BY WaitlistAssumption DEF WaitInv, WaitTypeOK, EventTyped, Scopes
<1>2. Cardinality(queued) \in Nat
  BY FS_CardinalityType DEF PlacesInv
<1>3. credits[Event] \in Nat
  BY <1>1
<1> QED BY <1>1, <1>2, <1>3

(* A step of the event that frees as many places as it counts. *)
LEMMA EventPlaces ==
  ASSUME WaitInv, WaitInv', PlacesInv, UNCHANGED <<queued, inventory>>, NEW x \in Nat, freed' = freed + x,
         \A sn \in [Scopes -> Nat] : Moves(Available, Raw, Available', Raw', sn, x)
  PROVE  PlacesInv'
<1>0. UNCHANGED <<queued, seen, credits>>
  BY DEF inventory
<1>1. EventTyped /\ EventTyped' /\ freed \in Nat
  BY Numbers, WaitParts DEF EventKnown
<1>2. /\ Raw \in [Kinds -> Nat] /\ Available \in [Scopes -> Nat]
      /\ Raw' \in [Kinds -> Nat] /\ Available' \in [Scopes -> Nat]
  BY <1>1, ShowsNow, ShowsNext DEF Shows
<1>3. ASSUME seen # NoRows
      PROVE  Within(Cardinality(queued) + credits[Event], freed + x, Available', seen, Raw')
  <2>1. Cardinality(queued) + credits[Event] \in Nat /\ seen \in [Scopes -> Nat]
    BY <1>3, Numbers
  <2>2. Within(Cardinality(queued) + credits[Event], freed, Available, seen, Raw)
    BY <1>3 DEF PlacesInv
  <2> QED BY <1>1, <1>2, <2>1, <2>2, MovesWithin
<1>4. IsFiniteSet(queued) /\ (seen = NoRows => queued = {} /\ credits[Event] = 0)
  BY DEF PlacesInv
<1> QED BY <1>0, <1>3, <1>4, PlacesNext

(* Nothing of the inventory or the event changes. *)
LEMMA SamePlaces ==
  ASSUME WaitInv, PlacesInv, UNCHANGED <<queued, event, inventory, freed>>
  PROVE  PlacesInv'
<1>1. UNCHANGED <<queued, seen, credits, freed>> /\ Available' = Available /\ Raw' = Raw
  BY DEF event, inventory, Available, Raw, PlacesLeft, Total
<1> QED BY <1>1, PlacesNext DEF PlacesInv

(* Sales, returns, exchanges and saves. *)
LEMMA EventPlacesSteps ==
  ASSUME WaitInv, WaitInv', PlacesInv
  PROVE  /\ \A t \in Kinds : Sell(t) \/ ReturnTicket(t) => PlacesInv'
         /\ \A t \in Kinds, p \in People : BuyAlerted(t, p) => PlacesInv'
         /\ \A t, u \in Kinds : Exchange(t, u) => PlacesInv'
         /\ \A c \in Capacities, s \in {"published", "sold-out", "over"} : ChangeEvent(c, s) => PlacesInv'
<1>1. EventTyped /\ EventTyped' /\ freed \in Nat /\ 0 \in Nat /\ 1 \in Nat
  BY Numbers, WaitParts DEF EventKnown
<1>x. MoreAvailable \in Nat
  <2>1. Available[Event] \in Nat /\ Available'[Event] \in Nat
    BY <1>1, ShowsNow, ShowsNext DEF Shows, Scopes
  <2> QED BY <2>1 DEF MoreAvailable, Difference
<1>2. ASSUME NEW t \in Kinds, Available[t] > 0, sold' = [sold EXCEPT ![t] = @ + 1],
             UNCHANGED <<queued, capacity, status, inventory, freed>>
      PROVE  PlacesInv'
  <2>1. \A sn \in [Scopes -> Nat] : Moves(Available, Raw, Available', Raw', sn, 0)
    BY <1>1, <1>2, SoldMoves
  <2>2. freed' = freed + 0
    BY <1>1, <1>2
  <2> QED BY <1>1, <1>2, <2>1, <2>2, EventPlaces
<1>3. ASSUME NEW t \in Kinds, Sell(t) PROVE PlacesInv'
  BY <1>2, <1>3 DEF Sell, mails
<1>4. ASSUME NEW t \in Kinds, NEW p \in People, BuyAlerted(t, p) PROVE PlacesInv'
  BY <1>2, <1>4 DEF BuyAlerted, mails
<1>5. ASSUME NEW t \in Kinds, ReturnTicket(t) PROVE PlacesInv'
  <2>1. sold[t] > 0 /\ sold' = [sold EXCEPT ![t] = @ - 1] /\ UNCHANGED <<capacity, status>>
        /\ UNCHANGED <<queued, inventory>> /\ freed' = freed + MoreAvailable
    BY <1>5 DEF ReturnTicket, Freeing, mails
  <2>2. \A sn \in [Scopes -> Nat] : Moves(Available, Raw, Available', Raw', sn, MoreAvailable)
    BY <1>1, <2>1, ReturnMoves
  <2> QED BY <1>x, <2>1, <2>2, EventPlaces
<1>6. ASSUME NEW t \in Kinds, NEW u \in Kinds, Exchange(t, u) PROVE PlacesInv'
  <2>1. t # u /\ sold[t] > 0 /\ Raw[u] > 0 /\ sold' = [sold EXCEPT ![t] = @ - 1, ![u] = @ + 1]
        /\ UNCHANGED <<capacity, status>> /\ UNCHANGED <<queued, inventory>> /\ freed' = freed + 1
    BY <1>6 DEF Exchange, Freeing, mails
  <2>2. \A sn \in [Scopes -> Nat] : Moves(Available, Raw, Available', Raw', sn, 1)
    BY <1>1, <2>1, ExchangeMoves
  <2> QED BY <1>1, <2>1, <2>2, EventPlaces
<1>7. ASSUME NEW c \in Capacities, NEW s \in {"published", "sold-out", "over"}, ChangeEvent(c, s)
      PROVE  PlacesInv'
  <2>1. UNCHANGED sold /\ UNCHANGED <<queued, inventory>> /\ freed' = freed + MoreAvailable
    BY <1>7 DEF ChangeEvent, Freeing, mails
  <2>2. \A sn \in [Scopes -> Nat] : Moves(Available, Raw, Available', Raw', sn, MoreAvailable)
    BY <1>1, <2>1, ChangeMoves
  <2> QED BY <1>x, <2>1, <2>2, EventPlaces
<1> QED BY <1>3, <1>4, <1>5, <1>6, <1>7

(* Joining the waitlist. *)
LEMMA RequestPlaces ==
  ASSUME WaitInv, PlacesInv, Initialised, UNCHANGED <<queued, event, freed>>
  PROVE  PlacesInv'
<1>1. Available' = Available /\ Raw' = Raw /\ queued' = queued /\ freed' = freed
  BY DEF event, Available, Raw, PlacesLeft, Total
<1>2. /\ EventTyped /\ Event \in Scopes /\ freed \in Nat /\ credits \in [Scopes -> Nat]
      /\ credits[Event] \in Nat /\ Cardinality(queued) \in Nat
      /\ Cardinality(queued) + credits[Event] \in Nat
      /\ seen # NoRows => seen \in [Scopes -> Nat]
  BY Numbers
<1>3. /\ Raw \in [Kinds -> Nat] /\ PlacesLeft \in Nat /\ Shows(Available, Raw, PlacesLeft)
      /\ Available \in [Scopes -> Nat] /\ Available[Event] \in Nat
  BY <1>2, ShowsNow DEF Shows
<1>4. credits'[Event] = IF credits[Event] <= Available[Event] THEN credits[Event] ELSE Available[Event]
  BY <1>2, <1>3, MinOfTwo DEF Initialised
<1>5. credits'[Event] \in Nat /\ credits'[Event] <= credits[Event]
  BY <1>2, <1>3, <1>4
<1>6. seen' \in [Scopes -> Nat] /\ seen' # NoRows
  <2>1. Rest
    BY WaitParts
  <2>2. seen' \in [Scopes -> Nat]
    BY <1>2, <2>1, InitialisedStep
  <2> QED BY <2>2, WaitlistAssumption DEF Scopes
<1>7. CASE seen = NoRows
  <2>1. seen' = Available /\ queued = {} /\ credits[Event] = 0
    BY <1>7 DEF Initialised, PlacesInv
  <2>2. Cardinality(queued) = 0
    BY <2>1, FS_EmptySet
  <2>3. Cardinality(queued) + credits'[Event] \in Nat /\ Cardinality(queued) + credits'[Event] <= freed
    BY <1>2, <1>5, <2>1, <2>2
  <2>4. Within(Cardinality(queued) + credits'[Event], freed, Available, Available, Raw)
    BY <1>2, <1>3, <2>3, SeenAll
  <2> QED BY <1>1, <1>6, <2>1, <2>4, PlacesNext DEF PlacesInv
<1>8. CASE seen # NoRows
  <2>1. \A s \in Scopes : seen'[s] = IF seen[s] <= Available[s] THEN seen[s] ELSE Available[s]
    <3>1. TAKE s \in Scopes
    <3>2. seen[s] \in Nat /\ Available[s] \in Nat
      BY <1>2, <1>3, <1>8
    <3>3. seen'[s] = Min({seen[s], Available[s]})
      BY <1>8 DEF Initialised
    <3> QED BY <3>2, <3>3, MinOfTwo
  <2>2. Within(Cardinality(queued) + credits[Event], freed, Available, seen, Raw)
    BY <1>8 DEF PlacesInv
  <2>3. /\ Cardinality(queued) + credits'[Event] \in Nat
        /\ Cardinality(queued) + credits'[Event] <= Cardinality(queued) + credits[Event]
    BY <1>2, <1>5
  <2>4. Within(Cardinality(queued) + credits'[Event], freed, Available, seen', Raw)
    BY <1>2, <1>3, <1>6, <1>8, <2>1, <2>2, <2>3, ForgetWithin
  <2> QED BY <1>1, <1>6, <2>4, PlacesNext DEF PlacesInv
<1> QED BY <1>7, <1>8

(* A reconciliation spends or keeps what it credits, and has seen all that  *)
(* is on sale.                                                             *)
LEMMA ReconcilePlaces ==
  ASSUME WaitInv, PlacesInv, ReconcileSome
  PROVE  PlacesInv'
<1>1. /\ EventTyped /\ Event \in Scopes /\ freed \in Nat /\ credits \in [Scopes -> Nat]
      /\ credits[Event] \in Nat /\ Cardinality(queued) \in Nat /\ IsFiniteSet(queued)
      /\ Cardinality(queued) + credits[Event] \in Nat
      /\ seen # NoRows => seen \in [Scopes -> Nat]
  BY Numbers DEF PlacesInv
<1>2. /\ Raw \in [Kinds -> Nat] /\ PlacesLeft \in Nat /\ Shows(Available, Raw, PlacesLeft)
      /\ Available \in [Scopes -> Nat] /\ Available[Event] \in Nat
  BY <1>1, ShowsNow DEF Shows
<1>3. /\ Credited[Event] \in Nat /\ Credited[Event] <= Available[Event] /\ CapacityDelta \in Nat
      /\ Credited[Event] <= credits[Event] + CapacityDelta
  BY <1>1, CreditedCounted
<1>4. PICK old \in SUBSET {p \in People : entry[p].st = "pending"},
           bounced \in SUBSET {p \in People : entry[p].st = "active"} : Reconcile(old, bounced)
  BY DEF ReconcileSome
<1> DEFINE plan == Turn[Len(line)]
           failed == Chosen(plan) \cap bounced
           alerted == Chosen(plan) \ bounced
<1>5. /\ queued' = queued \cup alerted /\ credits' = Restored(plan, failed) /\ seen' = Available
      /\ UNCHANGED event
      /\ IF seen = NoRows THEN Freeing(Available[Event]) ELSE UNCHANGED freed
  <2>1. plan = Turn[Len(line)]
    OBVIOUS
  <2> HIDE DEF plan
  <2>2. ReconcileTold(old, bounced, plan)
    BY <1>4, <2>1, ReconcileTells
  <2> QED BY <2>2 DEF ReconcileTold
<1>6. /\ PlanTyped(plan) /\ IsFiniteSet(Chosen(plan))
      /\ plan.credits[Event] + Cardinality(Chosen(plan)) = Credited[Event]
  BY PlanMade
<1> HIDE DEF plan
<1>7. Available' = Available /\ Raw' = Raw
  BY <1>5 DEF event, Available, Raw, PlacesLeft, Total
<1>8. /\ IsFiniteSet(alerted) /\ Cardinality(alerted) \in Nat /\ Cardinality(failed) \in Nat
      /\ Cardinality(alerted) = Cardinality(Chosen(plan)) - Cardinality(failed)
      /\ Cardinality(Chosen(plan)) \in Nat
  <2>1. failed \in SUBSET Chosen(plan) /\ alerted \in SUBSET Chosen(plan)
    OBVIOUS
  <2>2. IsFiniteSet(failed) /\ IsFiniteSet(alerted)
    BY <1>6, <2>1, FS_Subset
  <2>3. Cardinality(alerted) = Cardinality(Chosen(plan)) - Cardinality(failed)
    BY <1>6, FS_Difference
  <2> HIDE DEF failed, alerted
  <2> QED BY <1>6, <2>2, <2>3, FS_CardinalityType
<1>9. credits'[Event] = Min({Available[Event], plan.credits[Event] + Cardinality(failed)})
  <2>1. {p \in failed : Event \in {Event, plan.told[p]}} = failed
    OBVIOUS
  <2> QED BY <1>1, <1>5, <2>1 DEF Restored
<1> HIDE DEF failed, alerted
<1>10. /\ IsFiniteSet(queued') /\ Cardinality(queued') \in Nat
       /\ Cardinality(queued') <= Cardinality(queued) + Cardinality(alerted)
  <2>1. IsFiniteSet(queued \cap alerted) /\ IsFiniteSet(queued \cup alerted)
    BY <1>1, <1>8, FS_Intersection, FS_Union
  <2>2. Cardinality(queued \cap alerted) \in Nat /\ Cardinality(queued \cup alerted) \in Nat
    BY <2>1, FS_CardinalityType
  <2>3. Cardinality(queued \cup alerted)
          = Cardinality(queued) + Cardinality(alerted) - Cardinality(queued \cap alerted)
    BY <1>1, <1>8, FS_Union
  <2>4. Cardinality(queued \cup alerted) <= Cardinality(queued) + Cardinality(alerted)
    BY <1>1, <1>8, <2>2, <2>3
  <2> QED BY <1>5, <2>1, <2>2, <2>4
<1>11. credits'[Event] \in Nat /\ credits'[Event] <= plan.credits[Event] + Cardinality(failed)
       /\ plan.credits[Event] \in Nat
  <2>1. plan.credits[Event] \in Nat
    BY <1>1, <1>6 DEF PlanTyped
  <2>2. plan.credits[Event] + Cardinality(failed) \in Nat
    BY <1>8, <2>1
  <2> QED BY <1>2, <1>9, <2>1, <2>2, MinOfTwo
<1>12. /\ Cardinality(queued') + credits'[Event] \in Nat
       /\ Cardinality(queued') + credits'[Event] <= Cardinality(queued) + Credited[Event]
  <2> DEFINE c == plan.credits[Event]
             n == Cardinality(Chosen(plan))
             f == Cardinality(failed)
             g == Cardinality(alerted)
             q == Cardinality(queued)
             k == Credited[Event]
             q2 == Cardinality(queued')
             c2 == credits'[Event]
  <2>1. /\ c \in Nat /\ n \in Nat /\ f \in Nat /\ g \in Nat /\ q \in Nat /\ k \in Nat /\ q2 \in Nat /\ c2 \in Nat
        /\ c + n = k /\ g = n - f /\ q2 <= q + g /\ c2 <= c + f
    BY <1>1, <1>3, <1>6, <1>8, <1>10, <1>11
  <2> HIDE DEF c, n, f, g, q, k, q2, c2
  <2>2. q2 + c2 \in Nat /\ q2 + c2 <= q + k
    BY <2>1
  <2> QED BY <2>2 DEF q, k, q2, c2
<1>13. freed' \in Nat /\ Cardinality(queued) + Credited[Event] <= freed'
  <2>1. CASE seen = NoRows
    <3>1. freed' = freed + Available[Event]
      BY <1>5, <2>1 DEF Freeing
    <3>2. Cardinality(queued) = 0
      BY <2>1, FS_EmptySet DEF PlacesInv
    <3> QED BY <1>1, <1>2, <1>3, <3>1, <3>2
  <2>2. CASE seen # NoRows
    <3>1. freed' = freed
      BY <1>5, <2>2
    <3>2. Within(Cardinality(queued) + credits[Event], freed, Available, seen, Raw)
      BY <2>2 DEF PlacesInv
    <3>3. Cardinality(queued) + credits[Event] + CapacityDelta <= freed
      BY <1>1, <2>2, <3>2, NewCameFree
    <3> QED BY <1>1, <1>3, <3>1, <3>3
  <2> QED BY <2>1, <2>2
<1>14. Cardinality(queued') + credits'[Event] <= freed'
  BY <1>1, <1>3, <1>12, <1>13
<1>15. Within(Cardinality(queued') + credits'[Event], freed', Available, Available, Raw)
  BY <1>2, <1>12, <1>13, <1>14, SeenAll
<1>16. Available # NoRows
  BY <1>2, WaitlistAssumption DEF Scopes
<1> QED BY <1>5, <1>7, <1>10, <1>15, <1>16, PlacesNext

LEMMA PlacesInvNext ==
  ASSUME WaitInv, PlacesInv, [WaitNext]_wvars
  PROVE  PlacesInv'
<1>0. WaitInv'
  BY WaitInvNext
<1>1. CASE ReconcileSome
  BY <1>1, ReconcilePlaces
<1>2. CASE \E p \in People, s \in ScopesAsked : RequestWaitlist(p, s)
  BY <1>2, RequestPlaces DEF RequestWaitlist, mails
<1>3. CASE \E p \in People : \/ \E s \in ScopesAsked : RequestStopped(p, s)
                             \/ Confirm(p) \/ Leave(p) \/ Stop(p) \/ Resume(p)
  BY <1>3, SamePlaces DEF RequestStopped, Confirm, Leave, Stop, Resume, mails
<1>4. CASE UNCHANGED wvars
  BY <1>4, SamePlaces DEF wvars, mails
<1>5. CASE \/ \E t \in Kinds : \/ Sell(t) \/ ReturnTicket(t)
                               \/ \E u \in Kinds : Exchange(t, u)
                               \/ \E p \in People : BuyAlerted(t, p)
           \/ \E c \in Capacities, s \in {"published", "sold-out", "over"} : ChangeEvent(c, s)
  BY <1>0, <1>5, EventPlacesSteps
<1> QED BY <1>1, <1>2, <1>3, <1>4, <1>5 DEF WaitNext

LEMMA PlacesInvInit == WaitInit => PlacesInv
<1>1. SUFFICES ASSUME WaitInit PROVE PlacesInv
  OBVIOUS
<1>2. queued = {} /\ seen = NoRows /\ credits[Event] = 0
  BY <1>1 DEF WaitInit, Scopes
<1>3. IsFiniteSet({})
  BY FS_EmptySet
<1> QED BY <1>2, <1>3 DEF PlacesInv

(* "One returned ticket must not notify the entire list": for any types,    *)
(* quantities, capacities and people, and however sales, returns, exchanges *)
(* and saves of the event fall between reconciliations, no more people are  *)
(* alerted than places came free.                                          *)
THEOREM AlertsStayWithinPlaces == WaitSpec => []AlertsWithinPlaces
<1>1. WaitInv /\ PlacesInv /\ [WaitNext]_wvars => PlacesInv'
  BY PlacesInvNext
<1>2. WaitInv /\ PlacesInv => AlertsWithinPlaces
  <2>1. SUFFICES ASSUME WaitInv, PlacesInv PROVE AlertsWithinPlaces
    OBVIOUS
  <2>2. Cardinality(queued) \in Nat /\ credits[Event] \in Nat /\ freed \in Nat
    BY <2>1, Numbers
  <2>3. CASE seen = NoRows
    <3>1. Cardinality(queued) = 0
      BY <2>1, <2>3, FS_EmptySet DEF PlacesInv
    <3> QED BY <2>2, <3>1 DEF AlertsWithinPlaces
  <2>4. CASE seen # NoRows
    <3>1. Cardinality(queued) + credits[Event] <= freed
      BY <2>1, <2>4 DEF PlacesInv, Within
    <3> QED BY <2>2, <3>1 DEF AlertsWithinPlaces
  <2> QED BY <2>3, <2>4
<1> QED BY <1>1, <1>2, PlacesInvInit, WaitInvariant, PTL DEF WaitSpec
=============================================================================
