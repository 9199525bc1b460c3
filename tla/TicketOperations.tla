-------------------------- MODULE TicketOperations --------------------------
(***************************************************************************)
(* What can happen to the tickets of one paid order after they are issued: *)
(* assignment and transfer to other people, the return of a transferred    *)
(* ticket with the consent of both parties, the refund of one ticket with  *)
(* its webhooks, and admission at the door.                                *)
(*                                                                         *)
(* Every transaction of the code locks the ticket row first and is one     *)
(* action.  Statements the code runs outside a transaction (a scan's look  *)
(* and its claim, the provider call and the writes after it, the three     *)
(* writes of a refund webhook) are separate actions.                       *)
(*                                                                         *)
(* An operation that ended leaves no record: its link is consumed or       *)
(* revoked in the same transaction.  An operation past its expiry can only *)
(* be ended; when the clock gets there is not modelled, so sending a link  *)
(* again changes nothing unless it reopens one that has expired.  A        *)
(* refusal by policy (transfers closed, onward transfers off, score        *)
(* activity) is a step not taken.                                          *)
(***************************************************************************)
EXTENDS TicketExchange, Sequences

CONSTANTS
  Order,      \* the order's tickets, in the order they were issued
  Persons,    \* people with a verified email address
  Buyer,      \* the order's manager
  Scanners,   \* devices at the door
  MaxRef,     \* bound on how often a ticket's access reference is rotated
  MaxFaults,  \* bound on crashes and lost answers
  Acts        \* the operations that are offered

ASSUME OrderAssumption == Tickets = {Order[i] : i \in DOMAIN Order}
ASSUME PeopleAssumption == Buyer \in Persons /\ None \notin Persons
ASSUME BoundAssumption == MaxRef \in Nat /\ MaxFaults \in Nat

VARIABLES
  moved,     \* an accepted row of ticket_transfers exists
  assign,    \* the ticket's open row of ticket_assignments
  pending,   \* the ticket's pending row of ticket_transfers
  return,    \* the ticket's latest row of ticket_return_requests
  alloc,     \* the rows of ticket_refund_allocations of its latest refund
  refund,    \* the handler that runs refundTicket
  consented, \* a handler of acceptRefundConsent has yet to call refundTicket
  hook,      \* the webhook that settles the allocation
  atBank,    \* Stripe: the refunds these allocations stand for
  lost,      \* Stripe: a refund went out and its answer got lost
  scan,      \* per device, the ticket it has looked at
  faults

people == <<moved, assign, pending, return>>
money == <<alloc, refund, consented, hook, atBank, lost, xvars>>
exchanging == <<exchange, xrefund, xhandler, xhook, xbank, session, paid, xhistory>>
vars == <<ticket, people, money, scan, faults>>

-----------------------------------------------------------------------------
Operation == [to : Persons, from : Persons \cup {None}, open : BOOLEAN]

TypeOK ==
  /\ ExchangeTypeOK
  /\ ticket \in [Tickets -> [status : {"valid", "void", "refunded"}, redeemed : BOOLEAN,
                             ref : 0..MaxRef, holder : Persons \cup {None},
                             type : Types, amount : Nat, paid : BOOLEAN]]
  /\ moved \in [Tickets -> BOOLEAN]
  /\ assign \in [Tickets -> Operation \cup {None}]
  /\ pending \in [Tickets -> Operation \cup {None}]
  /\ return \in [Tickets -> [st : {"none", "awaiting", "confirmed", "refunding", "review",
                                   "refunded"},
                             holder : Persons \cup {None}, by : Persons \cup {None},
                             yes : SUBSET Persons]]
  /\ alloc \in [Tickets -> [Payments -> [st : {"none", "processing", "pending", "succeeded",
                                               "failed"}, amount : Nat, ref : BOOLEAN]]]
  /\ refund \in [Tickets -> [pc : {"idle", "call", "record", "mark", "tell"},
                             req : BOOLEAN, started : BOOLEAN, pending : BOOLEAN,
                             ans : {"none", "pending", "succeeded"}]]
  /\ consented \in [Tickets -> BOOLEAN]
  /\ hook \in [Tickets -> {"idle", "return", "ticket"}]
  /\ atBank \in [Tickets -> [Payments -> {"none", "pending", "succeeded", "failed"}]]
  /\ lost \in [Tickets -> BOOLEAN]
  /\ scan \in [Scanners -> Tickets \cup {None}]
  /\ faults \in 0..MaxFaults

NoReturn == [st |-> "none", holder |-> None, by |-> None, yes |-> {}]
NoAllocation == [st |-> "none", amount |-> 0, ref |-> FALSE]
Idle == [pc |-> "idle", req |-> FALSE, started |-> FALSE, pending |-> FALSE, ans |-> "none"]
Fresh(h, type, bought) ==
  [status |-> "valid", redeemed |-> FALSE, ref |-> 0, holder |-> h, type |-> type,
   amount |-> IF bought THEN Price[type] ELSE 0, paid |-> bought]

Issued == {Fresh(h, type, bought) : h \in {Buyer, None}, type \in Types, bought \in BOOLEAN}

(* Tickets of a paid order: the buyer's own, or one still to be handed out; *)
(* or an administrator's complimentary ticket with its open invitation.    *)
Init ==
  /\ ticket \in [Tickets -> Issued]
  /\ assign \in [Tickets -> {None} \cup
                   {[to |-> p, from |-> None, open |-> TRUE] : p \in Persons}]
  /\ \A t \in Tickets :
       /\ assign[t] # None <=> ~ticket[t].paid
       /\ ~ticket[t].paid => ticket[t].holder = None /\ "invite" \in Acts
  /\ moved = [t \in Tickets |-> FALSE]
  /\ pending = [t \in Tickets |-> None]
  /\ return = [t \in Tickets |-> NoReturn]
  /\ alloc = [t \in Tickets |-> [p \in Payments |-> NoAllocation]]
  /\ refund = [t \in Tickets |-> Idle]
  /\ consented = [t \in Tickets |-> FALSE]
  /\ hook = [t \in Tickets |-> "idle"]
  /\ atBank = [t \in Tickets |-> [p \in Payments |-> "none"]]
  /\ lost = [t \in Tickets |-> FALSE]
  /\ scan = [d \in Scanners |-> None]
  /\ faults = 0
  /\ ExchangeInit([t \in Tickets |-> ticket[t].amount])

-----------------------------------------------------------------------------
ActiveReturn(t) == return[t].st \in {"awaiting", "confirmed", "refunding", "review"}
Live(t, p) == alloc[t][p].st \in {"processing", "pending", "succeeded"}
LiveAllocation(t) == \E p \in Payments : Live(t, p)
SetStatus(t, s) == [ticket EXCEPT ![t].status = s]

(* The person takes the ticket over: identity claim, participant and a new *)
(* access reference, which is what the QR code carries.                    *)
Attach(t, p) == [ticket EXCEPT ![t].holder = p, ![t].ref = @ + 1]

-----------------------------------------------------------------------------
(* Assignments of tickets nobody has claimed. *)

RequestAssignment(t, p) ==
  /\ Usable(t) /\ ticket[t].holder = None
  /\ assign[t] = None
  /\ assign' = [assign EXCEPT ![t] =
                  [to |-> p, from |-> Buyer, open |-> TRUE]]
  /\ UNCHANGED <<ticket, moved, pending, return, money, scan, faults>>

AcceptAssignment(t) ==
  /\ assign[t] # None /\ assign[t].open
  /\ Usable(t) /\ ticket[t].ref < MaxRef
  /\ ticket[t].holder \in {None, assign[t].to}
  /\ ticket' = Attach(t, assign[t].to)
  /\ assign' = [assign EXCEPT ![t] = None]
  /\ UNCHANGED <<moved, pending, return, money, scan, faults>>

(* The buyer may cancel while it is pending; an administrator also one that *)
(* expired, and withdraws the complimentary ticket with it.                *)
CancelAssignment(t) ==
  /\ assign[t] # None
  /\ assign[t].from = Buyer => assign[t].open
  /\ assign' = [assign EXCEPT ![t] = None]
  /\ ticket' = IF assign[t].from = None /\ ticket[t].status = "valid"
               THEN SetStatus(t, "void") ELSE ticket
  /\ UNCHANGED <<moved, pending, return, money, scan, faults>>

ResendAssignment(t) ==
  /\ assign[t] # None
  /\ IF assign[t].from = Buyer THEN assign[t].open ELSE ticket[t].status = "valid"
  /\ assign' = [assign EXCEPT ![t].open = TRUE]
  /\ UNCHANGED <<ticket, moved, pending, return, money, scan, faults>>

(* The scheduled job, and the listing of invitations, which expires them. *)
ExpireAssignment(t) ==
  /\ assign[t] # None /\ assign[t].open
  /\ assign' = [assign EXCEPT ![t] = IF @.from = Buyer THEN None ELSE [@ EXCEPT !.open = FALSE]]
  /\ UNCHANGED <<ticket, moved, pending, return, money, scan, faults>>

-----------------------------------------------------------------------------
(* Transfers by the current holder. *)

RequestTransfer(t, p) ==
  /\ Usable(t) /\ ticket[t].holder # None
  /\ ~ActiveReturn(t) /\ ~ActiveExchange(t) /\ pending[t] = None
  /\ pending' = [pending EXCEPT ![t] =
                   [to |-> p, from |-> ticket[t].holder, open |-> TRUE]]
  /\ UNCHANGED <<ticket, moved, assign, return, money, scan, faults>>

AcceptTransfer(t) ==
  /\ pending[t] # None
  /\ Usable(t) /\ ticket[t].ref < MaxRef
  /\ ticket[t].holder = pending[t].from
  /\ ~ActiveReturn(t) /\ ~ActiveExchange(t)
  /\ ticket' = Attach(t, pending[t].to)
  /\ moved' = [moved EXCEPT ![t] = TRUE]
  /\ pending' = [pending EXCEPT ![t] = None]
  /\ UNCHANGED <<assign, return, money, scan, faults>>

(* Declined in time, cancelled by the sender, or expired by the job. *)
EndTransfer(t) ==
  /\ pending[t] # None
  /\ pending' = [pending EXCEPT ![t] = None]
  /\ UNCHANGED <<ticket, moved, assign, return, money, scan, faults>>

-----------------------------------------------------------------------------
(* The return of a ticket that someone other than the buyer holds. *)

(* Mutant: a pending transfer is left open. *)
RequestReturnBeside(t, p) ==
  /\ Usable(t)
  /\ ticket[t].holder \notin {None, Buyer}
  /\ p \in {ticket[t].holder, Buyer}
  /\ p = Buyer => moved[t]
  /\ ~ActiveReturn(t)
  /\ return' = [return EXCEPT ![t] = [st |-> "awaiting", holder |-> ticket[t].holder,
                                      by |-> p, yes |-> {p}]]
  /\ UNCHANGED <<ticket, moved, assign, pending, money, scan, faults>>

RequestReturn(t, p) ==
  /\ Usable(t)
  /\ ticket[t].holder \notin {None, Buyer}
  /\ p \in {ticket[t].holder, Buyer}
  /\ p = Buyer => moved[t]             \* else the holder's address is unknown
  /\ ~ActiveReturn(t)
  /\ return' = [return EXCEPT ![t] = [st |-> "awaiting", holder |-> ticket[t].holder,
                                      by |-> p, yes |-> {p}]]
  /\ pending' = [pending EXCEPT ![t] = None]
  /\ UNCHANGED <<ticket, moved, assign, money, scan, faults>>

OtherParty(t, p) == p \in {Buyer, return[t].holder} /\ p # return[t].by

(* The link is consumed and the request confirmed in one transaction; the   *)
(* refund is a later step of the same handler.                             *)
Consent(t, p) ==
  /\ return[t].st = "awaiting"
  /\ OtherParty(t, p)
  /\ return' = [return EXCEPT ![t].st = "confirmed", ![t].yes = @ \cup {p}]
  /\ consented' = [consented EXCEPT ![t] = TRUE]
  /\ UNCHANGED <<ticket, moved, assign, pending, alloc, refund, hook, atBank, lost, xvars, scan,
                 faults>>

(* Declined, cancelled by its initiator, or expired by the job. *)
EndReturn(t) ==
  /\ return[t].st = "awaiting"
  /\ return' = [return EXCEPT ![t] = NoReturn]
  /\ UNCHANGED <<ticket, moved, assign, pending, money, scan, faults>>

-----------------------------------------------------------------------------
(* refundTicket. *)

(* The ticket's price is taken from its upgrade payment first. *)
FromUpgrade(t) == IF Upgraded(t) THEN Min({Held(t, "upgrade"), ticket[t].amount}) ELSE 0
Share(t, p) == IF p = "upgrade" THEN FromUpgrade(t) ELSE ticket[t].amount - FromUpgrade(t)
Allocated(t, p) ==
  IF Share(t, p) > 0 THEN [st |-> "processing", amount |-> Share(t, p), ref |-> FALSE]
  ELSE NoAllocation

(* Mutant: whoever asks first is enough. *)
ConsentGivenByOne(t, req) == TRUE

(* A ticket that was transferred is refunded only on the confirmed request *)
(* of the person who still holds it.                                       *)
ConsentGiven(t, req) ==
  moved[t] => /\ req
              /\ return[t].st = "confirmed"
              /\ return[t].holder = ticket[t].holder

(* Mutant: admission is not looked at. *)
RefundableInside(t, req) ==
  /\ ticket[t].status = "valid" /\ ticket[t].paid /\ ticket[t].amount > 0
  /\ Share(t, "base") <= Held(t, "base")
  /\ ~ActiveExchange(t)
  /\ \A p \in Payments : Share(t, p) > 0 => ~Live(t, p)
  /\ ConsentGiven(t, req)

Refundable(t, req) ==
  /\ Usable(t) /\ ticket[t].paid /\ ticket[t].amount > 0
  /\ Share(t, "base") <= Held(t, "base")
  /\ ~ActiveExchange(t)
  /\ \A p \in Payments : Share(t, p) > 0 => ~Live(t, p)
  /\ ConsentGiven(t, req)

(* One transaction makes the ticket unusable, reserves the allocations and *)
(* withdraws a pending transfer.                                           *)
Prepare(t, req) ==
  /\ Refundable(t, req)
  /\ ticket' = SetStatus(t, "void")
  /\ pending' = [pending EXCEPT ![t] = None]
  /\ return' = IF req /\ return[t].st = "confirmed"
               THEN [return EXCEPT ![t].st = "refunding"] ELSE return
  /\ alloc' = [alloc EXCEPT ![t] = [p \in Payments |-> Allocated(t, p)]]
  /\ refund' = [refund EXCEPT ![t] = [Idle EXCEPT !.pc = "call", !.req = req]]
  /\ atBank' = [atBank EXCEPT ![t] = [p \in Payments |-> "none"]]
  /\ UNCHANGED <<moved, assign, hook, lost, xvars, scan, faults>>

(* The buyer or an administrator asks; or the handler of a consent goes on. *)
StartRefund(t) == Prepare(t, FALSE) /\ UNCHANGED consented
StartReturnRefund(t) ==
  consented[t] /\ Prepare(t, TRUE) /\ consented' = [consented EXCEPT ![t] = FALSE]

(* refundTicket answers the consenting handler with a refusal. *)
RefuseReturnRefund(t) ==
  /\ consented[t] /\ ~Refundable(t, TRUE)
  /\ consented' = [consented EXCEPT ![t] = FALSE]
  /\ UNCHANGED <<ticket, people, alloc, refund, hook, atBank, lost, xvars, scan, faults>>

(* The handler asks for its allocations in turn: the next one not answered. *)
Unasked(t, p) == alloc[t][p].st = "processing" /\ ~alloc[t][p].ref
Asking(t, p) == Unasked(t, p) /\ (p = "base" => ~Unasked(t, "upgrade"))
Reached(t, p) == [back EXCEPT ![t][p] = @ + alloc[t][p].amount]

AnswerRefund(t, p, ans) ==
  /\ refund[t].pc = "call" /\ Asking(t, p)
  /\ refund' = [refund EXCEPT ![t].pc = "record", ![t].ans = ans, ![t].started = TRUE]
  /\ atBank' = [atBank EXCEPT ![t][p] = ans]
  /\ back' = IF ans = "succeeded" THEN Reached(t, p) ELSE back
  /\ UNCHANGED <<ticket, people, alloc, consented, hook, lost, exchanging, scan, faults>>

(* The call failed as far as the handler can tell.  Nothing refunded yet:  *)
(* the ticket is restored.  Else it stays void and the request is reviewed. *)
CallFailed(t, p) ==
  /\ refund[t].pc = "call" /\ Asking(t, p)
  /\ alloc' = [alloc EXCEPT ![t][p].st = "failed"]
  /\ ticket' = IF ticket[t].status = "void" /\ ~refund[t].started
               THEN SetStatus(t, "valid") ELSE ticket
  /\ return' = IF ~refund[t].req THEN return
               ELSE IF refund[t].started THEN [return EXCEPT ![t].st = "review"]
               ELSE [return EXCEPT ![t] = NoReturn]
  /\ refund' = [refund EXCEPT ![t] = Idle]
  /\ \/ UNCHANGED <<back, lost, faults>>
     \/ /\ faults < MaxFaults         \* Stripe refunded, its answer was lost
        /\ faults' = faults + 1
        /\ back' = Reached(t, p)
        /\ lost' = [lost EXCEPT ![t] = TRUE]
  /\ UNCHANGED <<moved, assign, pending, consented, hook, atBank, exchanging, scan>>

(* The refund's id is written to the allocation only now; then the next    *)
(* allocation, or the end if none of them is pending.                      *)
RecordAnswer(t, p) ==
  /\ refund[t].pc = "record" /\ Asking(t, p)
  /\ alloc' = [alloc EXCEPT ![t][p].st = refund[t].ans, ![t][p].ref = TRUE]
  /\ refund' = IF \E q \in Payments \ {p} : Unasked(t, q)
               THEN [refund EXCEPT ![t].pc = "call", ![t].ans = "none",
                                   ![t].pending = refund[t].pending \/ refund[t].ans = "pending"]
               ELSE IF refund[t].pending \/ refund[t].ans = "pending"
               THEN [refund EXCEPT ![t] = Idle]
               ELSE [refund EXCEPT ![t].pc = "mark"]
  /\ UNCHANGED <<ticket, people, consented, hook, atBank, lost, xvars, scan, faults>>

MarkRefunded(t) ==
  /\ refund[t].pc = "mark"
  /\ ticket' = SetStatus(t, "refunded")
  /\ refund' = [refund EXCEPT ![t].pc = "tell"]
  /\ UNCHANGED <<people, alloc, consented, hook, atBank, lost, xvars, scan, faults>>

TellReturn(t) ==
  /\ refund[t].pc = "tell"
  /\ return' = IF refund[t].req THEN [return EXCEPT ![t].st = "refunded"] ELSE return
  /\ refund' = [refund EXCEPT ![t] = Idle]
  /\ UNCHANGED <<ticket, moved, assign, pending, alloc, consented, hook, atBank, lost, xvars, scan,
                 faults>>

-----------------------------------------------------------------------------
(* Stripe and its webhooks, which may be repeated. *)

BankSettles(t, p) ==
  /\ atBank[t][p] = "pending"
  /\ \/ atBank' = [atBank EXCEPT ![t][p] = "failed"] /\ UNCHANGED back
     \/ atBank' = [atBank EXCEPT ![t][p] = "succeeded"] /\ back' = Reached(t, p)
  /\ UNCHANGED <<ticket, people, alloc, refund, consented, hook, lost, exchanging, scan, faults>>

Asked(t) == {p \in Payments : alloc[t][p].st # "none"}
AllSucceeded(t) == \A p \in Asked(t) : alloc[t][p].st = "succeeded"

(* refund.updated: the allocation, found by the refund's id, is settled    *)
(* once; the request and the ticket follow in statements of their own.     *)
HookAllocation(t, p) ==
  /\ atBank[t][p] \in {"succeeded", "failed"} /\ alloc[t][p].ref
  /\ alloc[t][p].st \in {"processing", "pending"} /\ hook[t] = "idle"
  /\ alloc' = [alloc EXCEPT ![t][p].st = atBank[t][p]]
  /\ hook' = [hook EXCEPT ![t] =
                IF atBank[t][p] = "succeeded" /\ ~AllSucceeded(t)' THEN "idle" ELSE "return"]
  /\ UNCHANGED <<ticket, people, refund, consented, atBank, lost, xvars, scan, faults>>

HookReturn(t) ==
  /\ hook[t] = "return"
  /\ return' = IF return[t].st # "refunding" THEN return
               ELSE IF AllSucceeded(t) THEN [return EXCEPT ![t].st = "refunded"]
               ELSE IF LiveAllocation(t) THEN [return EXCEPT ![t].st = "review"]
               ELSE [return EXCEPT ![t] = NoReturn]
  /\ hook' = [hook EXCEPT ![t] = "ticket"]
  /\ UNCHANGED <<ticket, moved, assign, pending, alloc, refund, consented, atBank, lost, xvars,
                 scan, faults>>

HookTicket(t) ==
  /\ hook[t] = "ticket"
  /\ ticket' = IF AllSucceeded(t) THEN SetStatus(t, "refunded")
               ELSE IF ~LiveAllocation(t) /\ ticket[t].status = "void" THEN SetStatus(t, "valid")
               ELSE ticket
  /\ hook' = [hook EXCEPT ![t] = "idle"]
  /\ UNCHANGED <<people, alloc, refund, consented, atBank, lost, xvars, scan, faults>>

(* The process that runs the handler or the webhook ends between two steps. *)
Crash(t) ==
  /\ faults < MaxFaults
  /\ faults' = faults + 1
  /\ \/ /\ refund[t].pc # "idle" /\ refund' = [refund EXCEPT ![t] = Idle]
        /\ UNCHANGED <<consented, hook>>
     \/ /\ consented[t] /\ consented' = [consented EXCEPT ![t] = FALSE]
        /\ UNCHANGED <<refund, hook>>
     \/ /\ hook[t] # "idle" /\ hook' = [hook EXCEPT ![t] = "idle"]
        /\ UNCHANGED <<refund, consented>>
  /\ UNCHANGED <<ticket, people, alloc, atBank, lost, xvars, scan>>

(* charge.refunded of the purchase: what went back, less what exchanges    *)
(* took, is laid over the order's tickets from the first one on.           *)
OrderAmount(n) == MapThenSumSet(LAMBDA i : ticket[Order[i]].amount, 1..n)
ToCover == MapThenSumSet(LAMBDA t : back[t]["base"], Tickets) - ExchangeRefunds
Covered ==
  {Order[i] : i \in {n \in DOMAIN Order :
     \/ ToCover >= OrderAmount(Len(Order))
     \/ OrderAmount(n) <= ToCover /\ \A j \in 1..n : ticket[Order[j]].amount > 0}}

ChargeRefunded ==
  /\ ToCover > 0
  /\ \E t \in Covered : ticket[t].status # "refunded"
  /\ ticket' = [t \in Tickets |-> IF t \in Covered THEN [ticket[t] EXCEPT !.status = "refunded"]
                                 ELSE ticket[t]]
  /\ UNCHANGED <<people, money, scan, faults>>

-----------------------------------------------------------------------------
(* The door.  The look reads the ticket and compares the QR's reference;   *)
(* the claim locks the row and does not see the reference again.           *)

Look(d, t) ==
  /\ scan[d] = None
  /\ ticket[t].status = "valid"
  /\ scan' = [scan EXCEPT ![d] = t]
  /\ UNCHANGED <<ticket, people, money, faults>>

Admissible(t) == Usable(t) /\ pending[t] = None

ClaimRedemption(d) ==
  /\ scan[d] # None
  /\ ticket' = IF Admissible(scan[d]) THEN [ticket EXCEPT ![scan[d]].redeemed = TRUE] ELSE ticket
  /\ scan' = [scan EXCEPT ![d] = None]
  /\ UNCHANGED <<people, money, faults>>

(* Staff undo an admission, or void a ticket in whatever state it is. *)
Unredeem(t) ==
  /\ ticket[t].redeemed
  /\ ticket' = [ticket EXCEPT ![t].redeemed = FALSE]
  /\ UNCHANGED <<people, money, scan, faults>>

VoidTicket(t) ==
  /\ ticket[t].status # "void"
  /\ ticket' = SetStatus(t, "void")
  /\ UNCHANGED <<people, money, scan, faults>>

-----------------------------------------------------------------------------
Hands(t) ==
  \/ "invite" \in Acts /\ (\/ \E p \in Persons : RequestAssignment(t, p)
                           \/ AcceptAssignment(t) \/ CancelAssignment(t)
                           \/ ResendAssignment(t) \/ ExpireAssignment(t))
  \/ "transfer" \in Acts /\ (\/ \E p \in Persons : RequestTransfer(t, p)
                             \/ AcceptTransfer(t) \/ EndTransfer(t))
  \/ \E p \in Persons : RequestReturn(t, p) \/ Consent(t, p)
  \/ EndReturn(t)

Refunding(t) ==
  \/ StartRefund(t) \/ StartReturnRefund(t) \/ RefuseReturnRefund(t)
  \/ \E p \in Payments : \/ \E ans \in {"pending", "succeeded"} : AnswerRefund(t, p, ans)
                         \/ CallFailed(t, p) \/ RecordAnswer(t, p)
                         \/ BankSettles(t, p) \/ HookAllocation(t, p)
  \/ MarkRefunded(t) \/ TellReturn(t) \/ HookReturn(t) \/ HookTicket(t)
  \/ Crash(t)

(* A step of an exchange, or one that fails there. *)
Exchanging ==
  /\ \/ ExchangeNext /\ UNCHANGED faults
     \/ /\ faults < MaxFaults /\ faults' = faults + 1
        /\ \E e \in Exchanges : ExchangeAnswerLost(e) \/ ExchangeStops(e)
  /\ UNCHANGED <<people, alloc, refund, consented, hook, atBank, lost, scan>>

Door(t) ==
  \/ \E d \in Scanners : Look(d, t)
  \/ "staff" \in Acts /\ (Unredeem(t) \/ VoidTicket(t))

Next ==
  \/ \E t \in Tickets : Hands(t) \/ Door(t) \/ ("refund" \in Acts /\ Refunding(t))
  \/ "exchange" \in Acts /\ Exchanging
  \/ \E d \in Scanners : ClaimRedemption(d)
  \/ ChargeRefunded

Spec == Init /\ [][Next]_vars

-----------------------------------------------------------------------------
(* A refund is being asked for, at Stripe, or recorded as paid. *)
RefundUnderWay(t) ==
  \/ refund[t].pc \in {"call", "record", "mark", "tell"}
  \/ \E p \in Payments : \/ alloc[t][p].st \in {"pending", "succeeded"}
                         \/ atBank[t][p] \in {"pending", "succeeded"}

(* Policy, "a ticket that has checked in cannot be ... automatically       *)
(* refunded": whoever is inside has no refund under way or paid, whatever  *)
(* the order of scans, consents, calls, crashes and webhooks.              *)
CheckedInHasNoRefund == \A t \in Tickets : ticket[t].redeemed => ~RefundUnderWay(t)

(* Policy, "the purchaser and current holder must both consent": while a   *)
(* transferred ticket has a refund, the request behind it carries the word *)
(* of the buyer and of the person who holds the ticket.                    *)
BothConsented ==
  \A t \in Tickets : (moved[t] /\ RefundUnderWay(t)) =>
     /\ return[t].st \in {"refunding", "review", "refunded"}
     /\ return[t].yes = {Buyer, ticket[t].holder}

(* A transfer that can still be accepted excludes a return under way and a *)
(* refund: nobody receives a ticket whose money is on its way back.        *)
TransferExcludesReturn ==
  \A t \in Tickets : pending[t] # None => ~ActiveReturn(t) /\ ~RefundUnderWay(t)

(* The amount a ticket records is what Stripe keeps for it: an upgrade or  *)
(* a partial refund is counted once, however the handler and the webhooks  *)
(* race to complete it.  Excepted is an exchange that was refunded and     *)
(* given up because the answer got lost, and one that was overtaken.       *)
AmountMatchesMoney ==
  \A t \in Tickets :
    (/\ ticket[t].status = "valid" /\ ~ActiveExchange(t) /\ ~lost[t]
     /\ \A e \in ExchangesOf(t) : /\ applied[e] <= 1
                                  /\ ~(xbank[e] = "succeeded" /\ exchange[e].st = "failed"))
       => ticket[t].amount = Left(t, "base") + Left(t, "upgrade")

(* "Ticket changed while its exchange was completing": the comparison of   *)
(* the type keeps the handler and the webhooks from making one exchange's  *)
(* change twice, unless another exchange of the ticket was reserved while  *)
(* one of them was still at work.                                          *)
ExchangedOnce == \A e \in Exchanges : applied[e] > 1 => e \in overtaken
=============================================================================
