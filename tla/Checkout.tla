------------------------------ MODULE Checkout ------------------------------
(***************************************************************************)
(* A paid ticket sale from the reservation to its settlement: the checkout *)
(* ledger (checkout_sessions), the tickets it issues, the Stripe session,  *)
(* payment, refunds and dispute of every reference, and the handlers that  *)
(* move them: the start request, the webhook and the buyer's own page,     *)
(* which both run fulfilCheckout.                                          *)
(*                                                                         *)
(* Every statement or transaction on the database and every call of Stripe *)
(* is one step; between two steps of a handler any other handler may run,  *)
(* and a handler may stop for good (Crash).  Money is counted in tickets   *)
(* of equal price.  Two clocks matter, and each is a Boolean that time may *)
(* set: a row's expires_at has passed (lapsed) and a claim is older than   *)
(* two minutes (stale).                                                    *)
(***************************************************************************)
EXTENDS TicketCapacity

CONSTANTS
  Workers,      \* handlers that can be in progress at once
  None,         \* "no value"
  SlowClaims,   \* may a claim grow stale while its handler is still running?
  MaxFaults,    \* bound: crashes, failed provider or database calls, and
                \* deliveries of an event that was already acknowledged
  MaxDash,      \* bound: refunds made in Stripe's dashboard, per payment
  Disputes,     \* the references whose payment may be disputed
  PayOutcomes,  \* what a payment may turn into
  RefundStarts, \* the states a new refund may be in
  Guests        \* the persons who may get a ticket without a checkout

ASSUME CheckoutAssumption ==
  /\ None \notin Refs /\ None \notin Types /\ None \notin Persons
  /\ SlowClaims \in BOOLEAN
  /\ MaxFaults \in Nat /\ MaxDash \in Nat /\ Disputes \subseteq Refs
  /\ PayOutcomes \subseteq {"paid", "processing", "mismatch"}
  /\ RefundStarts \subseteq {"pending", "succeeded"} /\ Guests \subseteq Persons

VARIABLES
  stale,     \* processing_started_at < now() - 2 minutes
  session,   \* Stripe: the Checkout session and its payment
  refunds,   \* Stripe: the refunds of the payment, by idempotency key
  dispute,   \* Stripe: the dispute about the payment
  sent,      \* webhook events that exist; any may be delivered again
  due,       \* webhook events not acknowledged yet, so certain to come again
  worker,    \* the handler each worker runs
  faults     \* faults so far

db == <<row, lapsed, stale, tickets>>
stripe == <<session, refunds, dispute>>
hooks == <<sent, due>>
vars == <<row, lapsed, stale, tickets, session, refunds, dispute, sent, due, worker, faults>>

RowStatus ==
  {"none", "creating", "pending", "payment_pending", "fulfilling", "fulfilled",
   "payment_mismatch", "expired", "failed", "refunded", "refund_pending",
   "refund_failed", "disputed"}
TicketStatus == {"none", "valid", "void", "refunded"}
SessionStatus == {"none", "created", "open", "processing", "paid", "mismatch", "expired", "failed"}
RefundKey ==
  [kind : {"oversold", "pre-fulfil", "dashboard", "intent", "dispute"}, amt : 0..MaxQty]
Refund == [key : RefundKey, amt : 1..MaxQty, status : {"pending", "succeeded", "failed"}]
Event ==
  [type : {"completed", "async_succeeded", "expired", "dispute.created", "dispute.won"},
   ref : Refs]
    \cup [type : {"charge.refunded"}, ref : Refs, amt : 0..MaxQty]
    \cup [type : {"refund.updated"}, ref : Refs, key : RefundKey,
          status : {"succeeded", "failed"}]

(* A handler without an event has none of them. *)
ASSUME NoneAssumption == None \notin Event

Key(kind, amt) == [kind |-> kind, amt |-> amt]
NoTicket == [status |-> "none", type |-> None, holder |-> None, ref |-> None, refund |-> None]

(* The state a handler carries from one of its steps to the next. *)
Idle == [pc |-> "idle", ref |-> None, ev |-> None, amt |-> 0, to |-> "none",
         key |-> None, ok |-> FALSE]
Steps ==
  {"idle", "expire", "claim", "retrieve", "recover", "issue", "release", "refund", "settle", "record",
   "reconcile", "cancelFind", "cancelRefund", "cancelWrite", "refundRow", "refundTickets",
   "disputeRow", "disputeTickets", "restore", "reopen"}

(* Every row, session, event and handler keeps to the values the code      *)
(* knows: no step leaves a status behind that no other step handles.       *)
TypeOK ==
  /\ row \in [Refs -> [status : RowStatus, refund : RefundKey \cup {None}]]
  /\ lapsed \in [Refs -> BOOLEAN]
  /\ stale \in [Refs -> BOOLEAN]
  /\ tickets \in [TicketIds -> [status : TicketStatus, type : Types \cup {None},
                                holder : Persons \cup {None}, ref : Refs \cup {None},
                                refund : RefundKey \cup {None}]]
  /\ session \in [Refs -> SessionStatus]
  /\ refunds \in [Refs -> SUBSET Refund]
  /\ dispute \in [Refs -> {"none", "open", "won"}]
  /\ sent \subseteq Event
  /\ due \subseteq sent
  /\ worker \in [Workers -> [pc : Steps, ref : Refs \cup {None}, ev : Event \cup {None},
                             amt : 0..MaxQty, to : RowStatus,
                             key : RefundKey \cup {None}, ok : BOOLEAN]]
  /\ faults \in 0..MaxFaults

Init ==
  /\ row = [r \in Refs |-> [status |-> "none", refund |-> None]]
  /\ lapsed = [r \in Refs |-> FALSE]
  /\ stale = [r \in Refs |-> FALSE]
  /\ tickets = [t \in TicketIds |-> NoTicket]
  /\ session = [r \in Refs |-> "none"]
  /\ refunds = [r \in Refs |-> {}]
  /\ dispute = [r \in Refs |-> "none"]
  /\ sent = {} /\ due = {}
  /\ worker = [w \in Workers |-> Idle]
  /\ faults = 0

-----------------------------------------------------------------------------
(* Starting a checkout. *)

(* startCheckout, its transaction: the reservation row, or the same row    *)
(* again when an earlier request with this reference stopped half way.     *)
StartCheckout(r) ==
  /\ row[r].status \in {"none", "creating"}
  /\ Available(TypeOf[r], BuyerOf[r], QtyOf[r], r)
  /\ row' = [row EXCEPT ![r].status = "creating"]
  /\ lapsed' = [lapsed EXCEPT ![r] = FALSE]
  /\ UNCHANGED <<stale, tickets, stripe, hooks, worker, faults>>

(* createCheckoutSession answers; the reference is its idempotency key. *)
CreateSession(r) ==
  /\ row[r].status = "creating" /\ session[r] = "none"
  /\ session' = [session EXCEPT ![r] = "created"]
  /\ UNCHANGED <<db, refunds, dispute, hooks, worker, faults>>

(* createCheckoutSession throws, whether Stripe made a session or not: the *)
(* reservation is given up.                                                *)
CreateFails(r) ==
  /\ row[r].status = "creating" /\ session[r] \in {"none", "created"}
  /\ faults < MaxFaults
  /\ faults' = faults + 1
  /\ row' = [row EXCEPT ![r].status = "failed"]
  /\ UNCHANGED <<lapsed, stale, tickets, stripe, hooks, worker>>

(* The session is recorded and its page handed to the buyer. *)
PersistSession(r) ==
  /\ row[r].status = "creating" /\ session[r] = "created"
  /\ row' = [row EXCEPT ![r].status = "pending"]
  /\ lapsed' = [lapsed EXCEPT ![r] = FALSE]
  /\ session' = [session EXCEPT ![r] = "open"]
  /\ UNCHANGED <<stale, tickets, refunds, dispute, hooks, worker, faults>>

Send(evs) == sent' = sent \cup evs /\ due' = due \cup evs
Notice(type, r) == [type |-> type, ref |-> r]

(* The session, or the credit that goes with it, cannot be recorded: it is *)
(* closed at Stripe, if Stripe answers, and the reservation is given up.   *)
PersistFails(r) ==
  /\ \/ row[r].status \in {"creating", "failed"} /\ session[r] = "created"
     \/ row[r].status = "pending" /\ session[r] = "open"
  /\ faults < MaxFaults
  /\ faults' = faults + 1
  /\ row' = [row EXCEPT ![r].status = IF @ = "creating" THEN "failed" ELSE @]
  /\ \/ session' = [session EXCEPT ![r] = "expired"] /\ Send({Notice("expired", r)})
     \/ UNCHANGED <<session, hooks>>
  /\ UNCHANGED <<lapsed, stale, tickets, refunds, dispute, worker>>

-----------------------------------------------------------------------------
(* Stripe and the clock. *)

Live(r) == {f \in refunds[r] : f.status # "failed"}

(* The tickets' worth of some refunds, so that a sum of amounts is the     *)
(* size of a set.                                                          *)
Units(fs) == {u \in fs \X (1..MaxQty) : u[2] <= u[1].amt}
AmountRefunded(r) == Cardinality(Units(Live(r)))
Balance(r) == QtyOf[r] - AmountRefunded(r)

ChargeRefunded(r, amt) == [type |-> "charge.refunded", ref |-> r, amt |-> amt]
RefundUpdated(r, f, status) ==
  [type |-> "refund.updated", ref |-> r, key |-> f.key, status |-> status]

(* The buyer pays at once, starts a delayed payment, or pays a total that  *)
(* differs from the ledger's.                                              *)
Pay(r) ==
  /\ session[r] = "open"
  /\ \E s \in PayOutcomes : session' = [session EXCEPT ![r] = s]
  /\ Send({Notice("completed", r)})
  /\ UNCHANGED <<db, refunds, dispute, worker, faults>>

(* A delayed payment ends: async_payment_succeeded or _failed. *)
AsyncPayment(r) ==
  /\ session[r] = "processing"
  /\ \/ session' = [session EXCEPT ![r] = "paid"] /\ Send({Notice("async_succeeded", r)})
     \/ session' = [session EXCEPT ![r] = "failed"] /\ Send({Notice("expired", r)})
  /\ UNCHANGED <<db, refunds, dispute, worker, faults>>

(* The row's expires_at passes.  A recorded row has the session's own      *)
(* expiry, so an unpaid session expires with it.                           *)
Lapse(r) ==
  /\ row[r].status \in {"creating", "pending", "fulfilling", "payment_pending"}
  /\ ~lapsed[r]
  /\ lapsed' = [lapsed EXCEPT ![r] = TRUE]
  /\ IF session[r] = "open"
       THEN session' = [session EXCEPT ![r] = "expired"] /\ Send({Notice("expired", r)})
       ELSE UNCHANGED <<session, hooks>>
  /\ UNCHANGED <<row, stale, tickets, refunds, dispute, worker, faults>>

Running(r) == {w \in Workers : worker[w].ref = r}

(* The handler that moved a row to fulfilling. *)
ClaimantSteps == {"retrieve", "recover", "issue", "release", "refund", "settle", "record"}
Claimed(r) == \E w \in Running(r) : worker[w].pc \in ClaimantSteps

(* Two minutes pass since a claim. *)
GrowStale(r) ==
  /\ row[r].status = "fulfilling" /\ ~stale[r]
  /\ SlowClaims \/ ~Claimed(r)
  /\ stale' = [stale EXCEPT ![r] = TRUE]
  /\ UNCHANGED <<row, lapsed, tickets, stripe, hooks, worker, faults>>

(* Somebody refunds a payment, or a part of it, in Stripe's dashboard. *)
DashboardRefund(r) ==
  /\ session[r] = "paid" /\ dispute[r] = "none"
  /\ Cardinality({f \in refunds[r] : f.key.kind = "dashboard"}) < MaxDash
  /\ \E amt \in 1..Balance(r), s \in RefundStarts :
       /\ refunds' = [refunds EXCEPT ![r] =
            @ \cup {[key |-> Key("dashboard", AmountRefunded(r)), amt |-> amt, status |-> s]}]
       /\ Send({ChargeRefunded(r, AmountRefunded(r) + amt)})
  /\ UNCHANGED <<db, session, dispute, worker, faults>>

(* A pending refund reaches the buyer or is returned by the bank. *)
RefundSettles(r) ==
  /\ \E f \in refunds[r], s \in {"succeeded", "failed"} :
       /\ f.status = "pending"
       /\ refunds' = [refunds EXCEPT ![r] = (@ \ {f}) \cup {[f EXCEPT !.status = s]}]
       /\ Send({RefundUpdated(r, f, s)})
  /\ UNCHANGED <<db, session, dispute, worker, faults>>

OpenDispute(r) ==
  /\ r \in Disputes /\ session[r] = "paid" /\ dispute[r] = "none" /\ Live(r) = {}
  /\ dispute' = [dispute EXCEPT ![r] = "open"]
  /\ Send({Notice("dispute.created", r)})
  /\ UNCHANGED <<db, session, refunds, worker, faults>>

WinDispute(r) ==
  /\ dispute[r] = "open"
  /\ dispute' = [dispute EXCEPT ![r] = "won"]
  /\ Send({Notice("dispute.won", r)})
  /\ UNCHANGED <<db, session, refunds, worker, faults>>

(* refundPayment as its callers see it: the refund recorded under the key, *)
(* or a new one when the balance covers it.                                *)
Known(r, key) == \E g \in refunds[r] : g.key = key
Chargeable(r, key, amt) == ~Known(r, key) /\ amt \in 1..Balance(r) /\ dispute[r] # "open"
StripeRefund(r, key, amt, f) ==
  \/ f \in refunds[r] /\ f.key = key /\ UNCHANGED <<refunds, hooks>>
  \/ /\ Chargeable(r, key, amt)
     /\ f \in [key : {key}, amt : {amt}, status : RefundStarts]
     /\ refunds' = [refunds EXCEPT ![r] = @ \cup {f}]
     /\ Send({ChargeRefunded(r, AmountRefunded(r) + amt)})

-----------------------------------------------------------------------------
(* The webhook endpoint and the handlers' common steps. *)

Goto(w, pc) == worker' = [worker EXCEPT ![w].pc = pc]

(* The handler returns; a thrown error leaves the event to be sent again. *)
Finish(w, ok) ==
  /\ worker' = [worker EXCEPT ![w] = Idle]
  /\ due' = IF ok THEN due \ {worker[w].ev} ELSE due
  /\ UNCHANGED sent

FirstStep(type) ==
  CASE type \in {"completed", "async_succeeded"} -> "claim"
    [] type = "expired" -> "expire"
    [] type = "charge.refunded" -> "reconcile"
    [] type = "refund.updated" -> "refundRow"
    [] type = "dispute.created" -> "disputeRow"
    [] type = "dispute.won" -> "restore"

(* Events come in any order; one may come again although it was handled,   *)
(* because its acknowledgement was lost.                                   *)
Arrives(ev) ==
  \/ ev \in due /\ UNCHANGED <<hooks, faults>>
  \/ /\ ev \in sent \ due
     /\ faults < MaxFaults /\ faults' = faults + 1
     /\ due' = due \cup {ev} /\ UNCHANGED sent

(* handleStripeWebhookEvent *)
Deliver(w, ev) ==
  /\ worker[w] = Idle
  /\ Arrives(ev)
  /\ worker' = [worker EXCEPT ![w] = [Idle EXCEPT !.pc = FirstStep(ev.type), !.ref = ev.ref,
                                                  !.ev = ev]]
  /\ UNCHANGED <<db, stripe>>

At(w, pc) == worker[w].pc = pc

(* expireCheckout, for a session that expired or a delayed payment that failed. *)
ExpireCheckout(w) ==
  LET r == worker[w].ref IN
  /\ At(w, "expire")
  /\ row' = IF row[r].status \in {"pending", "payment_pending"}
              THEN [row EXCEPT ![r].status = "expired"] ELSE row
  /\ Finish(w, TRUE)
  /\ UNCHANGED <<lapsed, stale, tickets, stripe, faults>>

(* resolveCheckoutOutcome: the buyer's page fulfils what is still waiting. *)
Nudge(w, r) ==
  /\ worker[w] = Idle
  /\ row[r].status \in {"pending", "payment_pending"}
  /\ worker' = [worker EXCEPT ![w] = [Idle EXCEPT !.pc = "claim", !.ref = r]]
  /\ UNCHANGED <<db, stripe, hooks, faults>>

(* The process dies, or a statement throws, between two steps. *)
Crash(w) ==
  /\ worker[w].pc # "idle"
  /\ faults < MaxFaults
  /\ faults' = faults + 1
  /\ worker' = [worker EXCEPT ![w] = Idle]
  /\ UNCHANGED <<db, stripe, hooks>>

-----------------------------------------------------------------------------
(* fulfilCheckout. *)

OrderTickets(r) == {t \in TicketIds : tickets[t].ref = r}

(* Mutant: a claim whose handler died is never taken over. *)
ClaimableOnce(r) == row[r].status \in {"pending", "payment_pending"}

Claimable(r) ==
  \/ row[r].status \in {"pending", "payment_pending"}
  \/ row[r].status = "fulfilling" /\ stale[r]

(* The claiming update; a row somebody else settled ends the handler. *)
Claim(w) ==
  LET r == worker[w].ref IN
  /\ At(w, "claim")
  /\ \/ /\ Claimable(r)
        /\ row' = [row EXCEPT ![r].status = "fulfilling"]
        /\ stale' = [stale EXCEPT ![r] = FALSE]
        /\ Goto(w, "retrieve")
        /\ UNCHANGED hooks
     \/ /\ ~Claimable(r)
        /\ Finish(w, row[r].status \in {"fulfilled", "expired", "refunded",
                                        "refund_pending", "disputed"})
        /\ UNCHANGED <<row, stale>>
  /\ UNCHANGED <<lapsed, tickets, stripe, faults>>

(* What the handler will write to the row, and whether it then succeeds. *)
ToSettle(w, status, key, ok) ==
  worker' = [worker EXCEPT ![w].pc = "settle", ![w].to = status, ![w].key = key, ![w].ok = ok]
ToRefund(w, key, amt) ==
  worker' = [worker EXCEPT ![w].pc = "refund", ![w].key = key, ![w].amt = amt]

(* charge.disputed of the payment *)
IsDisputed(r) == dispute[r] = "open"

(* retrieveSession and the branches on what it reports. *)
Retrieve(w) ==
  LET r == worker[w].ref
      remaining == Balance(r)
  IN
  /\ At(w, "retrieve")
  /\ \/ session[r] \in {"open", "expired"} /\ ToSettle(w, "pending", None, TRUE)
     \/ session[r] \in {"processing", "failed"} /\ ToSettle(w, "payment_pending", None, TRUE)
     \/ session[r] = "mismatch" /\ ToSettle(w, "payment_mismatch", None, FALSE)
     \/ /\ session[r] = "paid" /\ IsDisputed(r)
        /\ ToSettle(w, "disputed", None, TRUE)
     \/ /\ session[r] = "paid" /\ ~IsDisputed(r) /\ Live(r) # {}
        /\ IF remaining = 0 THEN ToSettle(w, "refunded", None, TRUE)
                            ELSE ToRefund(w, Key("pre-fulfil", remaining), remaining)
     \/ /\ session[r] = "paid" /\ ~IsDisputed(r) /\ Live(r) = {}
        /\ Goto(w, "recover")
  /\ UNCHANGED <<db, stripe, hooks, faults>>

(* retrieveSession fails. *)
RetrieveFails(w) ==
  /\ At(w, "retrieve") /\ faults < MaxFaults
  /\ faults' = faults + 1
  /\ ToSettle(w, "pending", None, FALSE)
  /\ UNCHANGED <<db, stripe, hooks>>

(* Mutant: tickets of an interrupted fulfilment are not looked for. *)
RecoverNothing(w) ==
  At(w, "recover") /\ Goto(w, "issue") /\ UNCHANGED <<db, stripe, hooks, faults>>

(* Tickets an interrupted fulfilment left behind are adopted. *)
Recover(w) ==
  /\ At(w, "recover")
  /\ Goto(w, IF OrderTickets(worker[w].ref) # {} THEN "record" ELSE "issue")
  /\ UNCHANGED <<db, stripe, hooks, faults>>

Unused == {t \in TicketIds : tickets[t].status = "none"}
Insert(ids, ty, who, ref) ==
  tickets' = [t \in TicketIds |->
    IF t \in ids THEN [status |-> "valid", type |-> ty, holder |-> who, ref |-> ref,
                       refund |-> None]
                 ELSE tickets[t]]
(* The next qty ticket rows: the table keeps the order of issue. *)
Fresh(ids, qty) ==
  /\ ids \subseteq Unused /\ Cardinality(ids) = qty
  /\ \A t \in ids, u \in Unused \ ids : t < u

(* issueTickets, with insertTicketsWithCapacity as its one transaction. *)
Issue(w) ==
  LET r == worker[w].ref IN
  /\ At(w, "issue")
  /\ \/ /\ Available(TypeOf[r], BuyerOf[r], QtyOf[r], r)
        /\ \E ids \in SUBSET Unused :
             Fresh(ids, QtyOf[r]) /\ Insert(ids, TypeOf[r], BuyerOf[r], r)
        /\ Goto(w, "record")
     \/ /\ ~Available(TypeOf[r], BuyerOf[r], QtyOf[r], r)
        /\ ToRefund(w, Key("oversold", 0), 0)
        /\ UNCHANGED tickets
  /\ UNCHANGED <<row, lapsed, stale, stripe, hooks, faults>>

(* issueTickets throws; the claim is released by the next step. *)
IssueThrows(w) ==
  /\ At(w, "issue") /\ faults < MaxFaults
  /\ faults' = faults + 1
  /\ Goto(w, "release")
  /\ UNCHANGED <<db, stripe, hooks>>

(* Mutant: the claim is released into a status the table does not know. *)
ReleaseUnknown(w) ==
  /\ At(w, "release")
  /\ row' = [row EXCEPT ![worker[w].ref].status = "released"]
  /\ Finish(w, FALSE)
  /\ UNCHANGED <<lapsed, stale, tickets, stripe, faults>>

Release(w) ==
  LET r == worker[w].ref IN
  /\ At(w, "release")
  /\ row' = IF row[r].status = "fulfilling"
              THEN [row EXCEPT ![r].status = "payment_pending"] ELSE row
  /\ Finish(w, FALSE)
  /\ UNCHANGED <<lapsed, stale, tickets, stripe, faults>>

(* An oversold refund names no amount: Stripe returns the whole balance. *)
RefundAmount(w) ==
  IF worker[w].key.kind = "oversold" THEN Balance(worker[w].ref) ELSE worker[w].amt

(* The refund of a payment that gets no tickets. *)
RefundPayment(w) ==
  LET r == worker[w].ref IN
  /\ At(w, "refund")
  /\ \E f \in Refund :
       /\ StripeRefund(r, worker[w].key, RefundAmount(w), f)
       /\ ToSettle(w, CASE f.status = "succeeded" -> "refunded"
                        [] f.status = "pending" -> "refund_pending"
                        [] f.status = "failed" -> "payment_pending",
                   f.key, f.status # "failed")
  /\ UNCHANGED <<db, session, dispute, faults>>
RefundPaymentRefused(w) ==
  LET r == worker[w].ref IN
  /\ At(w, "refund")
  /\ ~Known(r, worker[w].key) /\ ~Chargeable(r, worker[w].key, RefundAmount(w))
  /\ ToSettle(w, "payment_pending", None, FALSE)
  /\ UNCHANGED <<db, stripe, hooks, faults>>

(* The handler's last write, unconditional in the code. *)
Settle(w) ==
  LET r == worker[w].ref IN
  /\ At(w, "settle")
  /\ row' = [row EXCEPT ![r].status = worker[w].to,
                        ![r].refund = IF worker[w].key # None /\ worker[w].ok
                                        THEN worker[w].key ELSE @]
  /\ Finish(w, worker[w].ok)
  /\ UNCHANGED <<lapsed, stale, tickets, stripe, faults>>

Record(w) ==
  /\ At(w, "record")
  /\ row' = [row EXCEPT ![worker[w].ref].status = "fulfilled"]
  /\ Finish(w, TRUE)
  /\ UNCHANGED <<lapsed, stale, tickets, stripe, faults>>

-----------------------------------------------------------------------------
(* charge.refunded and refund.updated. *)

SucceededRefunds(r) == {f \in refunds[r] : f.status = "succeeded"}
Larger(a, b) == IF a >= b THEN a ELSE b
RefundTotal(r, authoritative) ==
  Larger(authoritative, Cardinality(Units(SucceededRefunds(r))))

(* Mutant: the running total is applied to the tickets still live. *)
CoveredLive(r, amt) ==
  LET live == {t \in OrderTickets(r) : tickets[t].status # "refunded"}
  IN {t \in live : Cardinality({u \in live : u <= t}) <= amt}

(* Mutant: the last ticket an amount pays for is left out. *)
CoveredShort(r, amt) ==
  {t \in OrderTickets(r) : Cardinality({u \in OrderTickets(r) : u <= t}) < amt}

(* markOrderRefunded: a cumulative amount covers the payment's tickets in  *)
(* the order of issue, whatever earlier refunds already marked.            *)
Covered(r, amt) ==
  {t \in OrderTickets(r) : Cardinality({u \in OrderTickets(r) : u <= t}) <= amt}

(* The refund a covered ticket names: the last succeeded one, else the     *)
(* payment itself.                                                         *)
LastRefund(r, key) ==
  IF SucceededRefunds(r) = {} THEN key = Key("intent", 0)
                              ELSE \E f \in SucceededRefunds(r) : key = f.key

(* reconcilePaymentRefunds.  The list of refunds is read in the step that  *)
(* uses it: a succeeded refund stays one, so an older list differs only by *)
(* refunds whose own event is still to come.                               *)
ReconcileTickets(r, amt) ==
  \E key \in RefundKey :
    /\ LastRefund(r, key)
    /\ tickets' = [t \in TicketIds |->
         IF t \in Covered(r, amt) /\ tickets[t].status # "refunded"
           THEN [tickets[t] EXCEPT !.status = "refunded", !.refund = key]
           ELSE tickets[t]]

Reconcile(w) ==
  LET r == worker[w].ref
      total == RefundTotal(r, worker[w].ev.amt)
  IN
  /\ At(w, "reconcile")
  /\ ReconcileTickets(r, total)
  /\ worker' = [worker EXCEPT ![w].pc = "cancelFind", ![w].amt = Larger(QtyOf[r], total) - total]
  /\ UNCHANGED <<row, lapsed, stale, stripe, hooks, faults>>

(* cancelUnfulfilledCheckout: nothing to cancel once tickets are issued;   *)
(* otherwise the remainder goes back too.                                  *)
CancelFind(w) ==
  LET r == worker[w].ref
      remaining == worker[w].amt
  IN
  /\ At(w, "cancelFind")
  /\ \/ row[r].status = "fulfilled" /\ Finish(w, TRUE)
     \/ /\ row[r].status # "fulfilled" /\ remaining > 0
        /\ worker' = [worker EXCEPT ![w].pc = "cancelRefund",
                                    ![w].key = Key("pre-fulfil", remaining)]
        /\ UNCHANGED hooks
     \/ /\ row[r].status # "fulfilled" /\ remaining = 0
        /\ worker' = [worker EXCEPT ![w].pc = "cancelWrite", ![w].to = "refunded"]
        /\ UNCHANGED hooks
  /\ UNCHANGED <<db, stripe, faults>>

CancelRefund(w) ==
  LET r == worker[w].ref IN
  /\ At(w, "cancelRefund")
  /\ \E f \in Refund :
       /\ StripeRefund(r, worker[w].key, worker[w].amt, f)
       /\ f.status # "failed"
       /\ worker' = [worker EXCEPT ![w].pc = "cancelWrite",
            ![w].to = IF f.status = "succeeded" THEN "refunded" ELSE "refund_pending"]
  /\ UNCHANGED <<db, session, dispute, faults>>
CancelRefundRefused(w) ==
  LET r == worker[w].ref IN
  /\ At(w, "cancelRefund")
  /\ \/ ~Known(r, worker[w].key) /\ ~Chargeable(r, worker[w].key, worker[w].amt)
     \/ \E f \in refunds[r] : f.key = worker[w].key /\ f.status = "failed"
  /\ Finish(w, FALSE)
  /\ UNCHANGED <<db, stripe, faults>>

(* A refund call that fails without an answer, in either caller. *)
RefundFails(w) ==
  /\ faults < MaxFaults
  /\ faults' = faults + 1
  /\ \/ At(w, "refund") /\ ToSettle(w, "payment_pending", None, FALSE) /\ UNCHANGED hooks
     \/ At(w, "cancelRefund") /\ Finish(w, FALSE)
  /\ UNCHANGED <<db, stripe>>

CancelWrite(w) ==
  LET r == worker[w].ref IN
  /\ At(w, "cancelWrite")
  /\ row' = IF row[r].status = "fulfilled" THEN row
            ELSE [row EXCEPT ![r].status = worker[w].to,
                             ![r].refund = IF worker[w].key # None THEN worker[w].key ELSE @]
  /\ Finish(w, TRUE)
  /\ UNCHANGED <<lapsed, stale, tickets, stripe, faults>>

(* updateCheckoutRefundStatus *)
RefundRow(w) ==
  LET r == worker[w].ref IN
  /\ At(w, "refundRow")
  /\ row' = IF /\ row[r].refund = worker[w].ev.key
               /\ row[r].status \in {"refund_pending", "refund_failed"}
              THEN [row EXCEPT ![r].status =
                     IF worker[w].ev.status = "succeeded" THEN "refunded" ELSE "refund_failed"]
              ELSE row
  /\ Goto(w, "refundTickets")
  /\ UNCHANGED <<lapsed, stale, tickets, stripe, hooks, faults>>

(* A succeeded refund is reconciled; a failed one (markRefundFailed) leaves *)
(* its tickets void.                                                        *)
RefundTickets(w) ==
  LET r == worker[w].ref IN
  /\ At(w, "refundTickets")
  /\ \/ worker[w].ev.status = "succeeded" /\ ReconcileTickets(r, RefundTotal(r, 0))
     \/ /\ worker[w].ev.status = "failed"
        /\ tickets' = [t \in TicketIds |->
             IF /\ t \in OrderTickets(r) /\ tickets[t].refund = worker[w].ev.key
                /\ tickets[t].status = "refunded"
               THEN [tickets[t] EXCEPT !.status = "void"] ELSE tickets[t]]
  /\ Finish(w, TRUE)
  /\ UNCHANGED <<row, lapsed, stale, stripe, faults>>

-----------------------------------------------------------------------------
(* charge.dispute.created and charge.dispute.closed (won). *)

DisputeRef == Key("dispute", 0)

(* markUnfulfilledCheckoutDisputed *)
DisputeRow(w) ==
  LET r == worker[w].ref IN
  /\ At(w, "disputeRow")
  /\ row' = IF row[r].status = "fulfilled" THEN row
            ELSE [row EXCEPT ![r] = [status |-> "disputed", refund |-> DisputeRef]]
  /\ Goto(w, "disputeTickets")
  /\ UNCHANGED <<lapsed, stale, tickets, stripe, hooks, faults>>

(* Mutant: only tickets the ledger has recorded are voided. *)
DisputeTicketsRecorded(w) ==
  /\ At(w, "disputeTickets")
  /\ tickets' = [t \in TicketIds |->
       IF /\ tickets[t].ref = worker[w].ref /\ tickets[t].status = "valid"
          /\ row[worker[w].ref].status = "fulfilled"
         THEN [tickets[t] EXCEPT !.status = "void", !.refund = DisputeRef] ELSE tickets[t]]
  /\ Finish(w, TRUE)
  /\ UNCHANGED <<row, lapsed, stale, stripe, faults>>

(* markOrderDisputed *)
DisputeTickets(w) ==
  /\ At(w, "disputeTickets")
  /\ tickets' = [t \in TicketIds |->
       IF tickets[t].ref = worker[w].ref /\ tickets[t].status = "valid"
         THEN [tickets[t] EXCEPT !.status = "void", !.refund = DisputeRef] ELSE tickets[t]]
  /\ Finish(w, TRUE)
  /\ UNCHANGED <<row, lapsed, stale, stripe, faults>>

(* restoreDisputedTickets *)
RestoreTickets(w) ==
  /\ At(w, "restore")
  /\ tickets' = [t \in TicketIds |->
       IF /\ tickets[t].ref = worker[w].ref /\ tickets[t].status = "void"
          /\ tickets[t].refund = DisputeRef
         THEN [tickets[t] EXCEPT !.status = "valid", !.refund = None] ELSE tickets[t]]
  /\ Goto(w, "reopen")
  /\ UNCHANGED <<row, lapsed, stale, stripe, hooks, faults>>

(* reopenWonDisputeCheckout, and fulfilCheckout when a row was reopened. *)
Reopen(w) ==
  LET r == worker[w].ref IN
  /\ At(w, "reopen")
  /\ \/ /\ row[r] = [status |-> "disputed", refund |-> DisputeRef]
        /\ row' = [row EXCEPT ![r] = [status |-> "pending", refund |-> None]]
        /\ Goto(w, "claim")
        /\ UNCHANGED hooks
     \/ /\ row[r] # [status |-> "disputed", refund |-> DisputeRef]
        /\ Finish(w, TRUE)
        /\ UNCHANGED row
  /\ UNCHANGED <<lapsed, stale, tickets, stripe, faults>>

-----------------------------------------------------------------------------
(* Issuance outside a checkout, and staff. *)

(* issueTickets for a free claim or a comp that takes no override. *)
IssueDirect(ty, who) ==
  /\ Available(ty, who, 1, None)
  /\ \E ids \in SUBSET Unused : Fresh(ids, 1) /\ Insert(ids, ty, who, None)
  /\ UNCHANGED <<row, lapsed, stale, stripe, hooks, worker, faults>>

(* voidTicket, whatever became of the ticket before. *)
VoidTicket(t) ==
  /\ tickets[t].status # "none"
  /\ tickets' = [tickets EXCEPT ![t].status = "void"]
  /\ UNCHANGED <<row, lapsed, stale, stripe, hooks, worker, faults>>

-----------------------------------------------------------------------------
Buyer(r) ==
  \/ StartCheckout(r) \/ CreateSession(r) \/ CreateFails(r) \/ PersistSession(r)
  \/ PersistFails(r) \/ Pay(r) \/ \E w \in Workers : Nudge(w, r)

Provider(r) ==
  \/ AsyncPayment(r) \/ Lapse(r) \/ GrowStale(r)
  \/ DashboardRefund(r) \/ RefundSettles(r)
  \/ OpenDispute(r) \/ WinDispute(r)

Fulfil(w) ==
  \/ Claim(w) \/ Retrieve(w) \/ Recover(w) \/ Issue(w) \/ Release(w)
  \/ RefundPayment(w) \/ RefundPaymentRefused(w) \/ Settle(w) \/ Record(w)

Cancel(w) ==
  \/ ExpireCheckout(w)
  \/ Reconcile(w) \/ CancelFind(w) \/ CancelRefund(w) \/ CancelRefundRefused(w) \/ CancelWrite(w)
  \/ RefundRow(w) \/ RefundTickets(w)

Chargeback(w) == DisputeRow(w) \/ DisputeTickets(w) \/ RestoreTickets(w) \/ Reopen(w)

Handler(w) == Fulfil(w) \/ Cancel(w) \/ Chargeback(w)

Fault(w) == Crash(w) \/ RetrieveFails(w) \/ IssueThrows(w) \/ RefundFails(w)

Staff ==
  \/ \E ty \in Types, who \in Guests : IssueDirect(ty, who)
  \/ \E t \in TicketIds : VoidTicket(t)

Next ==
  \/ \E r \in Refs : Buyer(r) \/ Provider(r)
  \/ \E ev \in sent, w \in Workers : Deliver(w, ev)
  \/ \E w \in Workers : Handler(w) \/ Fault(w)
  \/ Staff

Spec == Init /\ [][Next]_vars

(***************************************************************************)
(* Fairness: a running handler goes on, time passes, Stripe settles the    *)
(* refunds it accepted and sends every event again until it is             *)
(* acknowledged.  The number of faults is finite, so calls that fail are   *)
(* eventually answered; nothing is assumed of buyers or of the nudge.      *)
(***************************************************************************)
EventTypes == {e.type : e \in Event}
DeliverDue(type, r) ==
  \E w \in Workers, ev \in due : ev.type = type /\ ev.ref = r /\ Deliver(w, ev)
Fairness ==
  /\ \A w \in Workers : WF_vars(Handler(w))
  /\ \A r \in Refs : WF_vars(GrowStale(r)) /\ WF_vars(RefundSettles(r))
  /\ \A r \in Refs, type \in EventTypes : SF_vars(DeliverDue(type, r))
FairSpec == Spec /\ Fairness

-----------------------------------------------------------------------------
(* Properties. *)

(* Nothing about a payment is in progress or still to be delivered. *)
Quiet(r) == Running(r) = {} /\ \A ev \in due : ev.ref # r
ValidOf(r) == {t \in OrderTickets(r) : tickets[t].status = "valid"}

(* "A redelivered webhook cannot issue a second set of tickets": whatever  *)
(* webhooks, page loads and interrupted handlers run fulfilCheckout for a  *)
(* reference, it is issued its quantity at most once.                      *)
OneOrderPerCheckout == \A r \in Refs : Cardinality(OrderTickets(r)) <= QtyOf[r]

(* Once the events of a payment are handled, its buyer can enter with no   *)
(* more tickets than the money that was paid and not given back covers:    *)
(* refunds in the dashboard, before or after fulfilment, whole or partial, *)
(* and failed refunds included.                                            *)
AdmissionWithinMoneyKept ==
  \A r \in Refs : Quiet(r) =>
    Cardinality(ValidOf(r)) <= IF session[r] = "paid" THEN Balance(r) ELSE 0

(* A ticket is marked refunded only for money that went back: partial      *)
(* refunds, which Stripe reports as a running total, take no more          *)
(* admissions than they paid for.                                          *)
RefundedMeansReturned ==
  \A r \in Refs : Quiet(r) =>
    Cardinality({t \in OrderTickets(r) : tickets[t].status = "refunded"}) <= AmountRefunded(r)

(* An open dispute stops every admission it pays for. *)
DisputedAdmitsNobody ==
  \A r \in Refs : Quiet(r) /\ dispute[r] = "open" => ValidOf(r) = {}

(* A buyer who paid is answered: tickets that the ledger records, or a     *)
(* refund that reached its end, or a dispute that is open.                 *)
Answered(r) ==
  \/ row[r].status = "fulfilled" /\ OrderTickets(r) # {}
  \/ row[r].status \in {"refunded", "refund_failed", "disputed"}
PaidIsAnswered == \A r \in Refs : session[r] = "paid" ~> Answered(r)
=============================================================================
