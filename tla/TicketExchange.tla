--------------------------- MODULE TicketExchange ---------------------------
(***************************************************************************)
(* Changing a ticket's type: reserveExchange, the three ways              *)
(* beginTicketExchange goes on from there (nothing to pay, a partial       *)
(* refund, a checkout for the difference), and the webhooks that finish    *)
(* it.  TicketOperations composes it with what else happens to a ticket.   *)
(*                                                                         *)
(* Each exchange is a row of its own with a handler and a webhook of its   *)
(* own, so a handler or a webhook may still be at work on one exchange of  *)
(* a ticket when the next is reserved.                                     *)
(*                                                                         *)
(* Prices differ by at most one, so a difference is refunded from one      *)
(* payment; a ticket is upgraded against payment at most once; one         *)
(* webhook of an exchange is at work at a time.                            *)
(***************************************************************************)
EXTENDS Integers, FiniteSetsExt

CONSTANTS Tickets, Types, Price, None,
  Exchanges  \* rows of ticket_exchanges there may be

ASSUME PriceAssumption ==
  /\ Price \in [Types -> Nat \ {0}]
  /\ \A a, b \in Types : Price[a] - Price[b] \in -1..1
ASSUME ExchangesAssumption == IsFiniteSet(Exchanges) /\ None \notin Tickets \cup Types

VARIABLES
  ticket,    \* tickets and event_participants
  exchange,  \* ticket_exchanges
  xrefund,   \* per row, its row of ticket_exchange_refunds
  xhandler,  \* per row, where beginTicketExchange stands
  xhook,     \* per row, the refund.updated webhook at work
  xbank,     \* Stripe: per row, the partial refund
  session,   \* Stripe: per row, the checkout for the difference
  paid,      \* Stripe: per ticket, what the purchase and the upgrade brought in
  back,      \* Stripe: per ticket, what went back of each
  applied,   \* per row, how often its change was made to the ticket
  overtaken  \* rows still at work when another exchange of the ticket began

bank == <<paid, back>>
xhistory == <<applied, overtaken>>
xvars == <<exchange, xrefund, xhandler, xhook, xbank, session, bank, xhistory>>

Payments == {"upgrade", "base"}
ActiveStatuses == {"processing", "awaiting", "refund_pending"}
ExchangeTypeOK ==
  /\ exchange \in [Exchanges ->
       [st : {"none", "completed", "failed"} \cup ActiveStatuses, of : Tickets \cup {None},
        from : Types \cup {None}, to : Types \cup {None}, delta : Int]]
  /\ xrefund \in [Exchanges -> [of : Tickets \cup {None}, pay : Payments,
                                st : {"none", "processing", "pending", "succeeded", "failed"}]]
  /\ xhandler \in [Exchanges -> [pc : {"idle", "complete", "allocate", "call", "write", "pend",
                                       "check", "finish", "session", "await"},
                                 ans : {"none", "pending", "succeeded"}]]
  /\ xhook \in [Exchanges -> [ev : {"none", "pending", "succeeded", "failed"}, open : BOOLEAN]]
  /\ xbank \in [Exchanges -> {"none", "pending", "succeeded", "failed"}]
  /\ session \in [Exchanges -> {"none", "open", "paid", "expired"}]
  /\ paid \in [Tickets -> [Payments -> Nat]]
  /\ back \in [Tickets -> [Payments -> Nat]]
  /\ applied \in [Exchanges -> Nat] /\ overtaken \subseteq Exchanges

NoExchange == [st |-> "none", of |-> None, from |-> None, to |-> None, delta |-> 0]
ExchangeIdle == [pc |-> "idle", ans |-> "none"]
NoHook == [ev |-> "none", open |-> FALSE]
ExchangeInit(bought) ==
  /\ exchange = [e \in Exchanges |-> NoExchange]
  /\ xrefund = [e \in Exchanges |-> [of |-> None, pay |-> "base", st |-> "none"]]
  /\ xhandler = [e \in Exchanges |-> ExchangeIdle]
  /\ xhook = [e \in Exchanges |-> NoHook]
  /\ xbank = [e \in Exchanges |-> "none"]
  /\ session = [e \in Exchanges |-> "none"]
  /\ paid = [t \in Tickets |-> [p \in Payments |-> IF p = "base" THEN bought[t] ELSE 0]]
  /\ back = [t \in Tickets |-> [p \in Payments |-> 0]]
  /\ applied = [e \in Exchanges |-> 0] /\ overtaken = {}

-----------------------------------------------------------------------------
Usable(t) == ticket[t].status = "valid" /\ ~ticket[t].redeemed
ExchangesOf(t) == {e \in Exchanges : exchange[e].of = t}
Active(e) == exchange[e].st \in ActiveStatuses
ActiveExchange(t) == \E e \in ExchangesOf(t) : Active(e)

(* A completed exchange of the ticket that was paid for. *)
Upgraded(t) == \E e \in ExchangesOf(t) : exchange[e].st = "completed" /\ exchange[e].delta > 0

(* What Stripe still holds of a payment.  The purchase paid for the whole  *)
(* order, an upgrade payment for one ticket.                               *)
Left(t, p) == paid[t][p] - back[t][p]
Held(t, p) ==
  IF p = "upgrade" THEN Left(t, p) ELSE MapThenSumSet(LAMBDA u : Left(u, p), Tickets)

(* exchangeRefundTotalForPayment, of the purchase. *)
ExchangeRefunds ==
  Cardinality({e \in Exchanges : /\ xrefund[e].pay = "base"
                                 /\ xrefund[e].st \in {"processing", "pending", "succeeded"}})

To(e, pc) == xhandler' = [xhandler EXCEPT ![e].pc = pc]
Done(e) == xhandler' = [xhandler EXCEPT ![e] = ExchangeIdle]
SetExchange(e, st) == exchange' = [exchange EXCEPT ![e].st = st]

(* Mutant: the type the ticket had is not compared. *)
CanCompleteAny(e) == ticket[exchange[e].of].status = "valid"

(* The change itself: only on a valid ticket of the type it had. *)
CanComplete(e) ==
  ticket[exchange[e].of].status = "valid" /\ ticket[exchange[e].of].type = exchange[e].from
Completed(e) ==
  /\ ticket' = [ticket EXCEPT ![exchange[e].of].type = exchange[e].to,
                              ![exchange[e].of].amount = @ + exchange[e].delta]
  /\ SetExchange(e, "completed")
  /\ applied' = [applied EXCEPT ![e] = @ + 1]

(* An exchange that ends without the change: failed, cancelled or expired. *)
GivenUp(e) == SetExchange(e, "failed") /\ UNCHANGED <<ticket, applied>>

(* completeExchange, or it throws and its transaction is rolled back. *)
CompleteOrThrow(e) ==
  IF CanComplete(e) THEN Completed(e) ELSE UNCHANGED <<ticket, exchange, applied>>

-----------------------------------------------------------------------------
(* beginTicketExchange *)

AtWork(e) == xhandler[e].pc # "idle" \/ xhook[e] # NoHook

(* One transaction under the ticket's and the event's lock; an index allows *)
(* one active row.  A type that is sold out, hidden or not on sale is a     *)
(* step not taken.                                                          *)
ReserveExchange(e, t, to) ==
  /\ exchange[e] = NoExchange
  /\ Usable(t) /\ ~ActiveExchange(t)
  /\ to # ticket[t].type
  /\ LET d == Price[to] - ticket[t].amount
     IN /\ d > 0 => paid[t]["upgrade"] = 0
        /\ exchange' = [exchange EXCEPT ![e] = [st |-> "processing", of |-> t,
                                                from |-> ticket[t].type, to |-> to, delta |-> d]]
        /\ To(e, IF d = 0 THEN "complete" ELSE IF d < 0 THEN "allocate" ELSE "session")
  /\ overtaken' = overtaken \cup {x \in ExchangesOf(t) : AtWork(x)}
  /\ UNCHANGED <<ticket, xrefund, xhook, xbank, session, bank, applied>>

CompleteFree(e) ==
  /\ xhandler[e].pc = "complete"
  /\ CompleteOrThrow(e) /\ Done(e)
  /\ UNCHANGED <<xrefund, xhook, xbank, session, bank, overtaken>>

(* A cheaper type: the difference comes from an upgrade payment of the     *)
(* order that still has it, else from the purchase.                        *)
Payers(t) ==
  LET upgrades == {u \in Tickets : Upgraded(u) /\ Held(u, "upgrade") > 0}
  IN IF upgrades # {} THEN upgrades \X {"upgrade"}
     ELSE IF ticket[t].paid /\ Held(t, "base") > 0 THEN {<<t, "base">>} ELSE {}

AllocateExchangeRefund(e) ==
  /\ xhandler[e].pc = "allocate"
  /\ \/ \E u \in Tickets, p \in Payments :
          /\ <<u, p>> \in Payers(exchange[e].of)
          /\ xrefund' = [xrefund EXCEPT ![e] = [of |-> u, pay |-> p, st |-> "processing"]]
          /\ To(e, "call") /\ UNCHANGED <<ticket, exchange, applied>>
     \/ GivenUp(e) /\ Done(e) /\ UNCHANGED xrefund
  /\ UNCHANGED <<xhook, xbank, session, bank, overtaken>>

(* Stripe takes the refund. *)
PaidBack(e) == [back EXCEPT ![xrefund[e].of][xrefund[e].pay] = @ + 1]
Refunds(e, a) ==
  /\ xbank' = [xbank EXCEPT ![e] = a]
  /\ back' = IF a = "succeeded" THEN PaidBack(e) ELSE back

(* The call failed as far as the handler can tell. *)
ExchangeCallFails(e) ==
  /\ xhandler[e].pc = "call"
  /\ xrefund' = [xrefund EXCEPT ![e].st = "failed"]
  /\ GivenUp(e) /\ Done(e)
  /\ UNCHANGED <<xhook, session, paid, overtaken>>

CallExchangeRefund(e) ==
  \/ ExchangeCallFails(e) /\ UNCHANGED <<xbank, back>>
  \/ /\ xhandler[e].pc = "call"
     /\ \E a \in {"pending", "succeeded"} :
          /\ Refunds(e, a)
          /\ xhandler' = [xhandler EXCEPT ![e] = [pc |-> "write", ans |-> a]]
     /\ UNCHANGED <<ticket, exchange, xrefund, xhook, session, paid, xhistory>>

(* Stripe took the refund, and its answer got lost. *)
ExchangeAnswerLost(e) ==
  ExchangeCallFails(e) /\ \E a \in {"pending", "succeeded"} : Refunds(e, a)

WriteExchangeRefund(e) ==
  /\ xhandler[e].pc = "write"
  /\ xrefund' = [xrefund EXCEPT ![e].st = xhandler[e].ans]
  /\ To(e, IF xhandler[e].ans = "pending" THEN "pend" ELSE "check")
  /\ UNCHANGED <<ticket, exchange, xhook, xbank, session, bank, xhistory>>

(* The row becomes refund_pending whatever a webhook made of it meanwhile, *)
(* unless the index finds another active row.                              *)
PendExchange(e) ==
  /\ xhandler[e].pc = "pend"
  /\ IF \E x \in ExchangesOf(exchange[e].of) \ {e} : Active(x) THEN UNCHANGED exchange
     ELSE SetExchange(e, "refund_pending")
  /\ Done(e)
  /\ UNCHANGED <<ticket, xrefund, xhook, xbank, session, bank, xhistory>>

(* The row is read, and the transaction follows. *)
CheckExchange(e) ==
  /\ xhandler[e].pc = "check"
  /\ IF exchange[e].st = "completed" THEN Done(e) ELSE To(e, "finish")
  /\ UNCHANGED <<ticket, exchange, xrefund, xhook, xbank, session, bank, xhistory>>

FinishExchange(e) ==
  /\ xhandler[e].pc = "finish"
  /\ CompleteOrThrow(e) /\ Done(e)
  /\ UNCHANGED <<xrefund, xhook, xbank, session, bank, overtaken>>

(* A dearer type: a checkout session, then the row waits for its payment. *)
OpenExchangeSession(e) ==
  /\ xhandler[e].pc = "session"
  /\ \/ /\ session' = [session EXCEPT ![e] = "open"]
        /\ To(e, "await") /\ UNCHANGED <<ticket, exchange, applied>>
     \/ GivenUp(e) /\ Done(e) /\ UNCHANGED session
  /\ UNCHANGED <<xrefund, xhook, xbank, bank, overtaken>>

AwaitPayment(e) ==
  /\ xhandler[e].pc = "await"
  /\ SetExchange(e, "awaiting") /\ Done(e)
  /\ UNCHANGED <<ticket, xrefund, xhook, xbank, session, bank, xhistory>>

-----------------------------------------------------------------------------
(* Stripe. *)

ExchangeBankSettles(e) ==
  /\ xbank[e] = "pending"
  /\ \E a \in {"failed", "succeeded"} : Refunds(e, a)
  /\ UNCHANGED <<ticket, exchange, xrefund, xhandler, xhook, session, paid, xhistory>>

SessionEnds(e) ==
  /\ session[e] = "open"
  /\ \/ /\ session' = [session EXCEPT ![e] = "paid"]
        /\ paid' = [paid EXCEPT ![exchange[e].of]["upgrade"] = exchange[e].delta]
     \/ session' = [session EXCEPT ![e] = "expired"] /\ UNCHANGED paid
  /\ UNCHANGED <<ticket, exchange, xrefund, xhandler, xhook, xbank, back, xhistory>>

-----------------------------------------------------------------------------
(* Webhooks.  A handler that throws is rolled back and delivered again. *)

(* refund.updated, matched by the exchange's id in its metadata: the row is *)
(* read, with the status the event carries.                                *)
HookReadsExchange(e) ==
  /\ xbank[e] # "none" /\ xhook[e] = NoHook
  /\ xhook' = [xhook EXCEPT ![e] = [ev |-> xbank[e], open |-> exchange[e].st # "completed"]]
  /\ UNCHANGED <<ticket, exchange, xrefund, xhandler, xbank, session, bank, xhistory>>

(* Mutant: a refund that is still pending is enough. *)
HookCompletesEarly(e) == xhook[e].ev # "failed" /\ xhook[e].open

(* Every refund of the exchange succeeded, and it was not completed. *)
HookCompletes(e) == xhook[e].ev = "succeeded" /\ xhook[e].open

(* The transaction that follows, with the row that was read. *)
HookExchangeRefund(e) ==
  LET ev == xhook[e].ev IN
  /\ xhook[e] # NoHook
  /\ xhook' = [xhook EXCEPT ![e] = NoHook]
  /\ IF HookCompletes(e) /\ ~CanComplete(e)
       THEN UNCHANGED <<ticket, exchange, applied, xrefund>>
       ELSE /\ xrefund' = [xrefund EXCEPT ![e].st = ev]
            /\ IF ev = "failed" THEN GivenUp(e)
               ELSE IF HookCompletes(e) THEN Completed(e)
               ELSE UNCHANGED <<ticket, exchange, applied>>
  /\ UNCHANGED <<xhandler, xbank, session, bank, overtaken>>

(* checkout.session.completed, or the buyer's page. *)
FulfilExchange(e) ==
  /\ exchange[e].st = "awaiting" /\ session[e] = "paid"
  /\ CanComplete(e) /\ Completed(e)
  /\ UNCHANGED <<xrefund, xhandler, xhook, xbank, session, bank, overtaken>>

ExpireExchange(e) ==
  /\ exchange[e].st = "awaiting" /\ session[e] = "expired"
  /\ GivenUp(e)
  /\ UNCHANGED <<xrefund, xhandler, xhook, xbank, session, bank, overtaken>>

(* charge.refunded of the payment of a completed upgrade, whoever asked for *)
(* that refund: the ticket is voided.                                      *)
UpgradeRefunded(t) ==
  /\ Upgraded(t) /\ back[t]["upgrade"] > 0 /\ ticket[t].status = "valid"
  /\ ticket' = [ticket EXCEPT ![t].status = "void"]
  /\ UNCHANGED xvars

(* The process that runs the handler or the webhook ends between two steps. *)
ExchangeStops(e) ==
  /\ \/ xhandler[e].pc # "idle" /\ Done(e) /\ UNCHANGED xhook
     \/ xhook[e] # NoHook /\ xhook' = [xhook EXCEPT ![e] = NoHook] /\ UNCHANGED xhandler
  /\ UNCHANGED <<ticket, exchange, xrefund, xbank, session, bank, xhistory>>

ExchangeNext ==
  \/ \E t \in Tickets : \/ \E e \in Exchanges, to \in Types : ReserveExchange(e, t, to)
                        \/ UpgradeRefunded(t)
  \/ \E e \in Exchanges :
       \/ CompleteFree(e) \/ AllocateExchangeRefund(e) \/ CallExchangeRefund(e)
       \/ WriteExchangeRefund(e) \/ PendExchange(e) \/ CheckExchange(e) \/ FinishExchange(e)
       \/ OpenExchangeSession(e) \/ AwaitPayment(e)
       \/ ExchangeBankSettles(e) \/ SessionEnds(e)
       \/ HookReadsExchange(e) \/ HookExchangeRefund(e) \/ FulfilExchange(e) \/ ExpireExchange(e)
=============================================================================
