----------------------------- MODULE EmailOutbox -----------------------------
(***************************************************************************)
(* The durable queue every message leaves through: rows are inserted in a  *)
(* product transaction, claimed under a lock that lapses, handed to the    *)
(* provider and settled by a statement that the number of attempts fences. *)
(* A bounce blocks its recipient.                                          *)
(*                                                                         *)
(* A courier is one row in flight (the code sends the rows of a batch      *)
(* concurrently, in any number of processes).  Retry delays and the clock  *)
(* behind an expiry are not modelled: what waits for time may happen late. *)
(***************************************************************************)
EXTENDS Naturals

CONSTANTS
  Mails,        \* idempotency keys
  Recipient,    \* who each is addressed to
  Couriers,     \* rows in flight at a time
  MaxAttempts,  \* EMAIL_MAX_DELIVERY_ATTEMPTS
  NoMail

ASSUME OutboxAssumption == MaxAttempts \in Nat \ {0} /\ NoMail \notin Mails

VARIABLES
  mail,     \* email_outbox: status, attempts and whether the lock holds
  blocked,  \* email_suppressions
  courier,  \* what each row in flight remembers
  sent      \* the provider: messages it took

outbox == <<mail, blocked, courier, sent>>

Settled == {"accepted", "failed", "cancelled"}
Answers == {"ok", "retry", "rejected", "bounced"}
OutboxTypeOK ==
  /\ mail \in [Mails -> [st : {"none", "pending", "processing"} \cup Settled,
                         attempts : 0..MaxAttempts, locked : BOOLEAN]]
  /\ blocked \subseteq {Recipient[m] : m \in Mails}
  /\ courier \in [Couriers -> [mail : Mails \cup {NoMail}, attempt : 0..MaxAttempts,
                               ans : {"none"} \cup Answers]]
  /\ sent \subseteq Mails

Free == [mail |-> NoMail, attempt |-> 0, ans |-> "none"]
OutboxInit ==
  /\ mail = [m \in Mails |-> [st |-> "none", attempts |-> 0, locked |-> FALSE]]
  /\ blocked = {}
  /\ courier = [c \in Couriers |-> Free]
  /\ sent = {}

-----------------------------------------------------------------------------
(* insertEmail, in the transaction of whatever the message is about; one    *)
(* with the key of a row that exists changes nothing.                      *)
InsertEmail(m) ==
  /\ mail[m].st = "none" /\ Recipient[m] \notin blocked
  /\ mail' = [mail EXCEPT ![m].st = "pending"]
  /\ UNCHANGED <<blocked, courier, sent>>

SetMail(m, st) == [mail EXCEPT ![m].st = st, ![m].locked = FALSE]
Unheld(m) == mail[m].st = "pending" \/ (mail[m].st = "processing" /\ ~mail[m].locked)

ClaimMail(c, m) ==
  /\ courier[c] = Free
  /\ Unheld(m) /\ mail[m].attempts < MaxAttempts /\ Recipient[m] \notin blocked
  /\ mail' = [mail EXCEPT ![m] = [st |-> "processing", attempts |-> @.attempts + 1,
                                  locked |-> TRUE]]
  /\ courier' = [courier EXCEPT ![c] = [mail |-> m, attempt |-> mail[m].attempts + 1,
                                        ans |-> "none"]]
  /\ UNCHANGED <<blocked, sent>>

(* A provider that took the message may still be reported as failing: the  *)
(* call times out.                                                         *)
Deliver(c) ==
  /\ courier[c] # Free /\ courier[c].ans = "none"
  /\ \E a \in Answers :
       /\ courier' = [courier EXCEPT ![c].ans = a]
       /\ \/ a # "ok" /\ UNCHANGED sent
          \/ a \in {"ok", "retry"} /\ sent' = sent \cup {courier[c].mail}
  /\ UNCHANGED <<mail, blocked>>

(* Mutant: the attempt is not compared. *)
MineAnyAttempt(c) == mail[courier[c].mail].st = "processing"

Mine(c) ==
  LET row == mail[courier[c].mail]
  IN row.st = "processing" /\ row.attempts = courier[c].attempt

Outcome(c) ==
  IF courier[c].ans = "ok" THEN "accepted"
  ELSE IF courier[c].ans = "retry" /\ courier[c].attempt < MaxAttempts THEN "pending"
  ELSE "failed"

FinishAttempt(c) ==
  /\ courier[c] # Free /\ courier[c].ans # "none"
  /\ mail' = IF Mine(c) THEN SetMail(courier[c].mail, Outcome(c)) ELSE mail
  /\ blocked' = IF Mine(c) /\ courier[c].ans = "bounced"
                THEN blocked \cup {Recipient[courier[c].mail]} ELSE blocked
  /\ courier' = [courier EXCEPT ![c] = Free]
  /\ UNCHANGED sent

(* The process ends: the row stays in processing until its lock lapses. *)
CourierLost(c) ==
  /\ courier[c] # Free
  /\ courier' = [courier EXCEPT ![c] = Free]
  /\ UNCHANGED <<mail, blocked, sent>>

LockLapses(m) ==
  /\ mail[m].st = "processing" /\ mail[m].locked
  /\ mail' = [mail EXCEPT ![m].locked = FALSE]
  /\ UNCHANGED <<blocked, courier, sent>>

-----------------------------------------------------------------------------
(* Mutant: rows left in processing are forgotten. *)
StopDeliveryPending(m) ==
  /\ mail[m].st = "pending"
  /\ mail[m].attempts = MaxAttempts \/ Recipient[m] \in blocked
  /\ mail' = SetMail(m, "failed")
  /\ UNCHANGED <<blocked, courier, sent>>

(* expireUndeliverableEmailMessages, before every drain: attempts used up   *)
(* or recipient blocked.                                                   *)
StopDelivery(m) ==
  /\ Unheld(m)
  /\ mail[m].attempts = MaxAttempts \/ Recipient[m] \in blocked
  /\ mail' = SetMail(m, "failed")
  /\ UNCHANGED <<blocked, courier, sent>>

(* The same statement, and the daily cleanup, once the content expired. *)
ContentExpires(m) ==
  /\ Unheld(m)
  /\ mail' = SetMail(m, "failed")
  /\ UNCHANGED <<blocked, courier, sent>>

CancelMail(m) ==
  /\ mail[m].st = "pending"
  /\ mail' = SetMail(m, "cancelled")
  /\ UNCHANGED <<blocked, courier, sent>>

(* The provider reports a bounce: a row already accepted becomes failed;    *)
(* one whose answer is not recorded yet has no provider id to match.       *)
BounceReported(m) ==
  /\ m \in sent
  /\ blocked' = blocked \cup {Recipient[m]}
  /\ mail' = IF mail[m].st = "accepted" THEN SetMail(m, "failed") ELSE mail
  /\ UNCHANGED <<courier, sent>>

(* An operator removes the block, or a later delivery is confirmed. *)
Unblock(p) ==
  /\ p \in blocked
  /\ blocked' = blocked \ {p}
  /\ UNCHANGED <<mail, courier, sent>>

OutboxNext ==
  \/ \E c \in Couriers : \/ \E m \in Mails : ClaimMail(c, m)
                         \/ Deliver(c) \/ FinishAttempt(c) \/ CourierLost(c)
  \/ \E m \in Mails : \/ InsertEmail(m) \/ LockLapses(m) \/ StopDelivery(m) \/ ContentExpires(m)
                      \/ CancelMail(m) \/ BounceReported(m)
  \/ \E p \in blocked : Unblock(p)

OutboxSpec == OutboxInit /\ [][OutboxNext]_outbox

(* Drains run on a schedule and after each insert; a lock is a time; a call *)
(* to the provider ends after ten seconds.                                 *)
OutboxFairness ==
  /\ \A m \in Mails : /\ WF_outbox(LockLapses(m))
                      /\ WF_outbox(StopDelivery(m))
                      /\ SF_outbox(\E c \in Couriers : ClaimMail(c, m))
  /\ \A c \in Couriers : WF_outbox(Deliver(c)) /\ WF_outbox(FinishAttempt(c))

-----------------------------------------------------------------------------
(* A row offered for another attempt is not in the hands of a courier that *)
(* could still settle it, however late earlier attempts report.            *)
OfferedIsFree ==
  \A c \in Couriers : courier[c] # Free =>
    LET row == mail[courier[c].mail]
    IN row.attempts = courier[c].attempt => row.st # "pending"

(* Every queued message is accepted, failed or cancelled in the end,       *)
(* whatever crashes, lapsed locks and provider answers come in between.    *)
MailSettles ==
  \A m \in Mails : mail[m].st \in {"pending", "processing"} ~> mail[m].st \in Settled
=============================================================================
