----------------------- MODULE TicketOperationsProofs -----------------------
(***************************************************************************)
(* The operations on an order's tickets, for any number of tickets,        *)
(* persons, scanners, ticket types and prices: admission and refund exclude *)
(* each other, a transferred ticket is refunded on the word of both its    *)
(* parties, a pending transfer excludes a return and a refund, and the     *)
(* amount of a ticket is what Stripe keeps for it.                         *)
(*                                                                         *)
(* The first three hold because a refund under way has taken its ticket    *)
(* out of use.  That is kept by the handler's and the webhooks' restoring  *)
(* of a ticket only when no refund can be under way, which they conclude   *)
(* from the rows of ticket_refund_allocations: so DeskInv also says what   *)
(* those rows, and the place a handler has reached, tell of the refunds at *)
(* Stripe.                                                                 *)
(*                                                                         *)
(* The fourth is a balance that every step keeps, AccountsInv: the amount  *)
(* is what Stripe keeps and what an exchange or a refund under way has     *)
(* moved and the ticket does not show yet.  A row of ticket_exchanges      *)
(* carries what that takes: RowOK says where its handler, its refund, its  *)
(* checkout and its webhook stand, whatever other row has come after it.   *)
(***************************************************************************)
EXTENDS TicketOperations, TLAPS, FiniteSetTheorems

(* The tables, and the rows of one ticket; an amount is any integer here,   *)
(* that none is negative follows from the prices, in OperationsAreTyped.    *)
TicketRow ==
  [status : {"valid", "void", "refunded"}, redeemed : BOOLEAN, ref : 0..MaxRef,
   holder : Persons \cup {None}, type : Types, amount : Int, paid : BOOLEAN]
AllocationRow ==
  [st : {"none", "processing", "pending", "succeeded", "failed"}, amount : Int, ref : BOOLEAN]
ExchangeStatus == {"none", "completed", "failed"} \cup ActiveStatuses
ExchangeRow ==
  [st : ExchangeStatus, of : Tickets, from : Types, to : Types, delta : Int]
    \cup [st : ExchangeStatus, of : {None}, from : {None}, to : {None}, delta : {0}]
ReturnRow ==
  [st : {"none", "awaiting", "confirmed", "refunding", "review", "refunded"},
   holder : Persons \cup {None}, by : Persons \cup {None}, yes : SUBSET Persons]
RefundHandler ==
  [pc : {"idle", "call", "record", "mark", "tell"}, req : BOOLEAN, started : BOOLEAN,
   pending : BOOLEAN, ans : {"none", "pending", "succeeded"}]

Tables ==
  /\ DOMAIN ticket = Tickets /\ DOMAIN moved = Tickets /\ DOMAIN pending = Tickets
  /\ DOMAIN return = Tickets /\ DOMAIN alloc = Tickets /\ DOMAIN refund = Tickets
  /\ DOMAIN atBank = Tickets /\ scan \in [Scanners -> Tickets \cup {None}]
Rows(t) ==
  /\ ticket[t] \in TicketRow /\ moved[t] \in BOOLEAN
  /\ pending[t] \in Operation \cup {None} /\ return[t] \in ReturnRow
  /\ DOMAIN alloc[t] = Payments /\ \A p \in Payments : alloc[t][p] \in AllocationRow
  /\ refund[t] \in RefundHandler
  /\ atBank[t] \in [Payments -> {"none", "pending", "succeeded", "failed"}]

(* What exchanges and assignments write to a ticket, and the bank's books. *)
Ledger ==
  /\ exchange \in [Exchanges -> ExchangeRow] /\ assign \in [Tickets -> Operation \cup {None}]
  /\ paid \in [Tickets -> [Payments -> Int]] /\ back \in [Tickets -> [Payments -> Int]]

(* A refund under way has taken the ticket out of use. *)
OutOfUse(t) == RefundUnderWay(t) => ticket[t].status # "valid" /\ ~ticket[t].redeemed

(* Where the handler stands says what has been asked and answered so far. *)
HandlerKnows(t) ==
  /\ refund[t].pc \in {"call", "record"} => \E p \in Payments : Unasked(t, p)
  /\ refund[t].pc = "call" => \A p \in Payments : Unasked(t, p) => atBank[t][p] = "none"
  /\ refund[t].pc = "call" /\ ~refund[t].started =>
       \A p \in Payments : alloc[t][p].st \in {"none", "processing"} /\ atBank[t][p] = "none"
  /\ refund[t].pc = "record" =>
       /\ refund[t].ans \in {"pending", "succeeded"} /\ refund[t].started
       /\ \A p \in Payments : Unasked(t, p) /\ ~Asking(t, p) => atBank[t][p] = "none"
  /\ refund[t].pc \in {"mark", "tell"} => \E p \in Payments : alloc[t][p].st = "succeeded"

(* What an allocation's row says of the refund it stands for. *)
RowsMatchBank(t) ==
  \A p \in Payments :
    /\ alloc[t][p].st = "none" => atBank[t][p] = "none"
    /\ alloc[t][p].st = "failed" => atBank[t][p] \in {"none", "failed"}
    /\ alloc[t][p].st = "processing" => ~alloc[t][p].ref

(* Whose word a return request carries. *)
WordsGiven(t) ==
  /\ return[t].st = "awaiting" => /\ return[t].yes = {return[t].by}
                                  /\ return[t].by \in {Buyer, return[t].holder}
  /\ return[t].st = "confirmed" => return[t].yes = {Buyer, return[t].holder}

Agreed(t) ==
  moved[t] /\ RefundUnderWay(t) => /\ return[t].st \in {"refunding", "review", "refunded"}
                                   /\ return[t].yes = {Buyer, ticket[t].holder}
Apart(t) == pending[t] # None => ~ActiveReturn(t) /\ ~RefundUnderWay(t)

DeskOK(t) ==
  /\ Rows(t) /\ OutOfUse(t) /\ HandlerKnows(t) /\ RowsMatchBank(t) /\ WordsGiven(t)
  /\ Agreed(t) /\ Apart(t)

(* The inductive invariant is this with Ledger, which only says of what kind *)
(* the values are that refunds, exchanges and assignments compute with.    *)
DeskInv == Tables /\ \A t \in Tickets : DeskOK(t)

-----------------------------------------------------------------------------
(* The money of a ticket, and all of it, is as it was. *)
SameMoney(t) == alloc'[t] = alloc[t] /\ refund'[t] = refund[t] /\ atBank'[t] = atBank[t]
Same(t) ==
  /\ ticket'[t] = ticket[t] /\ moved'[t] = moved[t] /\ pending'[t] = pending[t]
  /\ return'[t] = return[t] /\ SameMoney(t)

LEMMA SameMoneyUnderWay ==
  ASSUME NEW t \in Tickets, SameMoney(t)
  PROVE  /\ RefundUnderWay(t)' <=> RefundUnderWay(t)
         /\ HandlerKnows(t) => HandlerKnows(t)'
         /\ RowsMatchBank(t) => RowsMatchBank(t)'
  BY DEF SameMoney, RefundUnderWay, HandlerKnows, RowsMatchBank, Unasked, Asking

LEMMA SameIsOK ==
  ASSUME NEW t \in Tickets, DeskOK(t), Same(t)
  PROVE  DeskOK(t)'
<1>1. RefundUnderWay(t)' <=> RefundUnderWay(t)
  BY SameMoneyUnderWay DEF Same
<1>2. HandlerKnows(t)' /\ RowsMatchBank(t)'
  BY SameMoneyUnderWay DEF Same, DeskOK
<1>3. Rows(t)'
  BY DEF DeskOK, Rows, Same, SameMoney, TicketRow, AllocationRow
<1>4. OutOfUse(t)' /\ WordsGiven(t)' /\ Agreed(t)' /\ Apart(t)'
  BY <1>1 DEF DeskOK, Same, OutOfUse, WordsGiven, Agreed, Apart, ActiveReturn
<1>5. QED BY <1>2, <1>3, <1>4 DEF DeskOK

(* A step at one ticket. *)
LEMMA OneTicketStep ==
  ASSUME DeskInv, NEW t \in Tickets, Tables', DeskOK(t)',
         \A u \in Tickets \ {t} : Same(u)
  PROVE  DeskInv'
  BY SameIsOK DEF DeskInv

(* A step of the people and the door, which touches no money: it takes no   *)
(* ticket of a refund into use again, hands on none, and leaves its return.  *)
LEMMA HandsAreOK ==
  ASSUME NEW t \in Tickets, DeskOK(t), SameMoney(t),
         ticket'[t] \in TicketRow, moved'[t] \in BOOLEAN,
         pending'[t] \in Operation \cup {None}, return'[t] \in ReturnRow,
         WordsGiven(t)',
         RefundUnderWay(t) => /\ ticket'[t].status # "valid" /\ ~ticket'[t].redeemed
                              /\ ticket'[t].holder = ticket[t].holder /\ moved'[t] = moved[t]
                              /\ moved[t] => return'[t] = return[t],
         pending'[t] # None => ~ActiveReturn(t)' /\ ~RefundUnderWay(t)
  PROVE  DeskOK(t)'
<1>1. RefundUnderWay(t)' <=> RefundUnderWay(t)
  BY SameMoneyUnderWay
<1>2. HandlerKnows(t)' /\ RowsMatchBank(t)'
  BY SameMoneyUnderWay DEF DeskOK
<1>3. Rows(t)'
  BY DEF DeskOK, Rows, SameMoney, AllocationRow
<1>4. OutOfUse(t)' /\ Agreed(t)' /\ Apart(t)'
  BY <1>1 DEF DeskOK, OutOfUse, Agreed, Apart
<1>5. QED BY <1>2, <1>3, <1>4 DEF DeskOK

(* An allocation that is not live has no refund behind it: what the webhook *)
(* relies on when it restores the ticket.                                  *)
LEMMA NoneLiveNoneUnderWay ==
  ASSUME NEW t \in Tickets, DeskOK(t), ~LiveAllocation(t)
  PROVE  ~RefundUnderWay(t)
  BY DEF DeskOK, Rows, RefundHandler, AllocationRow, HandlerKnows, RowsMatchBank, LiveAllocation,
         Live, RefundUnderWay, Unasked

(* A usable ticket has no refund under way. *)
LEMMA ValidNotUnderWay ==
  ASSUME NEW t \in Tickets, DeskOK(t), ticket[t].status = "valid"
  PROVE  ~RefundUnderWay(t)
  BY DEF DeskOK, OutOfUse

-----------------------------------------------------------------------------
(* Initially nobody asked for anything. *)
LEMMA DeskInitInv == Init => DeskInv
<1> SUFFICES ASSUME Init PROVE DeskInv
  OBVIOUS
<1>1. Tables
  BY DEF Init, Tables
<1>2. ASSUME NEW t \in Tickets PROVE DeskOK(t)
  <2>1. PICK h \in {Buyer, None}, k \in Types, b \in BOOLEAN : ticket[t] = Fresh(h, k, b)
    <3>1. ticket[t] \in Issued
      BY DEF Init
    <3>2. QED BY <3>1 DEF Issued
  <2>2. ticket[t] \in TicketRow
    BY <2>1, BoundAssumption, PeopleAssumption, PriceAssumption DEF TicketRow, Fresh
  <2>3. /\ moved[t] = FALSE /\ pending[t] = None /\ return[t] = NoReturn /\ refund[t] = Idle
        /\ alloc[t] = [p \in Payments |-> NoAllocation] /\ atBank[t] = [p \in Payments |-> "none"]
    BY DEF Init
  <2>4. /\ refund[t].pc = "idle" /\ return[t].st = "none"
        /\ \A p \in Payments : /\ alloc[t][p].st = "none" /\ ~alloc[t][p].ref
                               /\ alloc[t][p].amount = 0 /\ atBank[t][p] = "none"
    BY <2>3 DEF NoReturn, Idle, NoAllocation
  <2>5. Rows(t)
    <3>1. return[t] \in ReturnRow /\ refund[t] \in RefundHandler
      BY <2>3 DEF ReturnRow, NoReturn, RefundHandler, Idle
    <3>2. DOMAIN alloc[t] = Payments /\ \A p \in Payments : alloc[t][p] \in AllocationRow
      BY <2>3 DEF AllocationRow, NoAllocation
    <3>3. QED BY <2>2, <2>3, <3>1, <3>2 DEF Rows
  <2>6. ~RefundUnderWay(t)
    BY <2>4 DEF RefundUnderWay
  <2>7. HandlerKnows(t) /\ RowsMatchBank(t) /\ WordsGiven(t)
    BY <2>4 DEF HandlerKnows, RowsMatchBank, WordsGiven
  <2>8. QED BY <2>3, <2>5, <2>6, <2>7 DEF DeskOK, OutOfUse, Agreed, Apart
<1>3. QED BY <1>1, <1>2 DEF DeskInv

-----------------------------------------------------------------------------
(* The steps of the people and the door. *)

(* Those that only change what the rules above do not read. *)
LEMMA AsideInv ==
  ASSUME DeskInv, UNCHANGED <<ticket, moved, pending, return, alloc, refund, atBank>>,
         scan' \in [Scanners -> Tickets \cup {None}]
  PROVE  DeskInv'
<1>1. Tables'
  BY DEF DeskInv, Tables
<1>2. \A t \in Tickets : Same(t)
  BY DEF Same, SameMoney
<1>3. QED BY <1>1, <1>2, SameIsOK DEF DeskInv

(* What staff, the clock or Stripe do to a ticket without taking it into     *)
(* use: void it, undo its admission, change its type.                      *)
LEMMA OutOfUseInv ==
  ASSUME DeskInv, NEW t \in Tickets, UNCHANGED <<moved, pending, return, alloc, refund, atBank, scan>>,
         DOMAIN ticket' = Tickets, \A u \in Tickets \ {t} : ticket'[u] = ticket[u],
         ticket'[t] \in TicketRow, ticket'[t].holder = ticket[t].holder,
         ticket'[t].status = "valid" => ticket[t].status = "valid",
         ticket'[t].redeemed => ticket[t].redeemed
  PROVE  DeskInv'
<1>1. Tables' /\ \A u \in Tickets \ {t} : Same(u)
  BY DEF DeskInv, Tables, Same, SameMoney
<1>2. DeskOK(t)'
  <2>1. SameMoney(t) /\ DeskOK(t)
    BY DEF SameMoney, DeskInv
  <2>2. RefundUnderWay(t) => ticket'[t].status # "valid" /\ ~ticket'[t].redeemed
    BY <2>1 DEF DeskOK, OutOfUse
  <2>3. WordsGiven(t)' /\ (pending'[t] # None => ~ActiveReturn(t)' /\ ~RefundUnderWay(t))
    BY <2>1 DEF DeskOK, WordsGiven, Apart, ActiveReturn
  <2>4. moved'[t] \in BOOLEAN /\ pending'[t] \in Operation \cup {None} /\ return'[t] \in ReturnRow
    BY <2>1 DEF DeskOK, Rows
  <2>5. QED BY <2>1, <2>2, <2>3, <2>4, HandsAreOK
<1>3. QED BY <1>1, <1>2, OneTicketStep

LEMMA SetStatusInv ==
  ASSUME DeskInv, NEW t \in Tickets, NEW s \in {"void", "refunded"}, ticket' = SetStatus(t, s),
         UNCHANGED <<moved, pending, return, alloc, refund, atBank, scan>>
  PROVE  DeskInv'
<1>1. DOMAIN ticket = Tickets /\ ticket[t] \in TicketRow
  BY DEF DeskInv, Tables, DeskOK, Rows
<1>2. /\ DOMAIN ticket' = Tickets /\ \A u \in Tickets \ {t} : ticket'[u] = ticket[u]
      /\ ticket'[t] = [ticket[t] EXCEPT !.status = s]
  BY <1>1 DEF SetStatus
<1>3. /\ ticket'[t].status = s /\ ticket'[t].holder = ticket[t].holder
      /\ ticket'[t].redeemed = ticket[t].redeemed /\ ticket'[t] \in TicketRow
  BY <1>1, <1>2 DEF TicketRow
<1>4. QED BY <1>2, <1>3, OutOfUseInv

(* A ticket that is handed over is in use, so nothing of it is under way. *)
LEMMA AttachInv ==
  ASSUME DeskInv, NEW t \in Tickets, NEW p \in Persons, ticket' = Attach(t, p), Usable(t),
         ticket[t].ref < MaxRef,
         \/ UNCHANGED <<moved, pending>>
         \/ moved' = [moved EXCEPT ![t] = TRUE] /\ pending' = [pending EXCEPT ![t] = None],
         UNCHANGED <<return, alloc, refund, atBank, scan>>
  PROVE  DeskInv'
<1>1. Tables /\ DeskOK(t) /\ Rows(t)
  BY DEF DeskInv, DeskOK
<1>2. ticket'[t] = [ticket[t] EXCEPT !.holder = p, !.ref = @ + 1]
  BY <1>1 DEF Attach, Tables
<1>3. ticket'[t] \in TicketRow
  <2>1. ticket[t] \in TicketRow
    BY <1>1 DEF Rows
  <2>2. ticket[t].ref \in 0..MaxRef /\ ticket[t].ref + 1 \in 0..MaxRef
    BY <2>1, BoundAssumption DEF TicketRow
  <2>3. QED BY <1>2, <2>1, <2>2 DEF TicketRow
<1>4. ~RefundUnderWay(t)
  BY <1>1, ValidNotUnderWay DEF Usable
<1>5. /\ moved'[t] \in BOOLEAN /\ pending'[t] \in {pending[t], None}
      /\ \A u \in Tickets \ {t} : ticket'[u] = ticket[u] /\ moved'[u] = moved[u] /\ pending'[u] = pending[u]
  BY <1>1 DEF Attach, Tables, Rows
<1>6. Tables' /\ \A u \in Tickets \ {t} : Same(u)
  BY <1>1, <1>5 DEF Attach, Tables, Same, SameMoney
<1>7. pending'[t] # None => ~ActiveReturn(t)' /\ ~RefundUnderWay(t)
  BY <1>1, <1>4, <1>5 DEF DeskOK, Apart, ActiveReturn
<1>8. WordsGiven(t)' /\ SameMoney(t)
  BY <1>1 DEF DeskOK, WordsGiven, SameMoney
<1>9. pending'[t] \in Operation \cup {None} /\ return'[t] \in ReturnRow
  BY <1>1, <1>5 DEF Rows
<1>10. DeskOK(t)'
  BY <1>1, <1>3, <1>4, <1>5, <1>7, <1>8, <1>9, HandsAreOK
<1>11. QED BY <1>6, <1>10, OneTicketStep

LEMMA AssignmentInv ==
  ASSUME DeskInv, Ledger, NEW t \in Tickets,
         \/ \E p \in Persons : RequestAssignment(t, p)
         \/ AcceptAssignment(t) \/ CancelAssignment(t) \/ ResendAssignment(t) \/ ExpireAssignment(t)
  PROVE  DeskInv'
<1>1. UNCHANGED <<moved, pending, return, alloc, refund, atBank, scan>>
  BY DEF RequestAssignment, AcceptAssignment, CancelAssignment, ResendAssignment, ExpireAssignment,
         money
<1>2. CASE ticket' = ticket
  BY <1>1, <1>2, AsideInv DEF DeskInv, Tables
<1>3. CASE AcceptAssignment(t)
  <2>1. assign[t] # None /\ ticket' = Attach(t, assign[t].to) /\ Usable(t) /\ ticket[t].ref < MaxRef
    BY <1>3 DEF AcceptAssignment
  <2>2. assign[t].to \in Persons
    BY <2>1 DEF Ledger, Operation
  <2>3. QED BY <1>1, <2>1, <2>2, AttachInv
<1>4. CASE CancelAssignment(t) /\ ticket' # ticket
  <2>1. ticket' = SetStatus(t, "void")
    BY <1>4 DEF CancelAssignment
  <2>2. QED BY <1>1, <2>1, SetStatusInv
<1>5. QED BY <1>2, <1>3, <1>4
          DEF RequestAssignment, CancelAssignment, ResendAssignment, ExpireAssignment

LEMMA RequestTransferInv ==
  ASSUME DeskInv, NEW t \in Tickets, NEW p \in Persons, RequestTransfer(t, p)
  PROVE  DeskInv'
<1>1. Tables /\ DeskOK(t) /\ Rows(t)
  BY DEF DeskInv, DeskOK
<1>2. /\ UNCHANGED <<ticket, moved, return, alloc, refund, atBank, scan>>
      /\ Usable(t) /\ ticket[t].holder # None /\ ~ActiveReturn(t)
      /\ pending' = [pending EXCEPT ![t] = [to |-> p, from |-> ticket[t].holder, open |-> TRUE]]
  BY DEF RequestTransfer, money
<1>3. ~RefundUnderWay(t)
  BY <1>1, <1>2, ValidNotUnderWay DEF Usable
<1>4. /\ DOMAIN pending' = Tickets /\ \A u \in Tickets \ {t} : pending'[u] = pending[u]
      /\ pending'[t] = [to |-> p, from |-> ticket[t].holder, open |-> TRUE]
  BY <1>1, <1>2 DEF Tables
<1>5. Tables' /\ \A u \in Tickets \ {t} : Same(u)
  BY <1>1, <1>2, <1>4 DEF Tables, Same, SameMoney
<1>6. pending'[t] \in Operation \cup {None}
  BY <1>1, <1>4 DEF Rows, TicketRow, Operation
<1>7. /\ ticket'[t] \in TicketRow /\ moved'[t] \in BOOLEAN /\ return'[t] \in ReturnRow
      /\ SameMoney(t) /\ WordsGiven(t)' /\ ~ActiveReturn(t)'
  BY <1>1, <1>2 DEF Rows, TicketRow, SameMoney, DeskOK, WordsGiven, ActiveReturn
<1>8. DeskOK(t)'
  BY <1>1, <1>3, <1>6, <1>7, HandsAreOK
<1>9. QED BY <1>5, <1>8, OneTicketStep

LEMMA AcceptTransferInv ==
  ASSUME DeskInv, NEW t \in Tickets, AcceptTransfer(t)
  PROVE  DeskInv'
<1>1. pending[t] \in Operation \cup {None}
  BY DEF DeskInv, DeskOK, Rows
<1>2. pending[t].to \in Persons
  BY <1>1 DEF AcceptTransfer, Operation
<1>3. QED BY <1>2, AttachInv DEF AcceptTransfer, money

(* A pending transfer that ends, or gives way to a return. *)
LEMMA PendingEnded ==
  ASSUME DeskInv, NEW t \in Tickets, pending' \in {pending, [pending EXCEPT ![t] = None]}
  PROVE  /\ DOMAIN pending' = Tickets /\ \A u \in Tickets \ {t} : pending'[u] = pending[u]
         /\ pending'[t] \in {pending[t], None} /\ pending'[t] \in Operation \cup {None}
  BY DEF DeskInv, Tables, DeskOK, Rows

LEMMA EndTransferInv ==
  ASSUME DeskInv, NEW t \in Tickets, EndTransfer(t)
  PROVE  DeskInv'
<1>1. Tables /\ DeskOK(t) /\ Rows(t)
  BY DEF DeskInv, DeskOK
<1>2. /\ UNCHANGED <<ticket, moved, return, alloc, refund, atBank, scan>>
      /\ pending' = [pending EXCEPT ![t] = None]
  BY DEF EndTransfer, money
<1>3. /\ DOMAIN pending' = Tickets /\ \A u \in Tickets \ {t} : pending'[u] = pending[u]
      /\ pending'[t] = None
  BY <1>1, <1>2 DEF Tables
<1>4. Tables' /\ \A u \in Tickets \ {t} : Same(u)
  BY <1>1, <1>2, <1>3 DEF Tables, Same, SameMoney
<1>5. /\ ticket'[t] \in TicketRow /\ moved'[t] \in BOOLEAN /\ return'[t] \in ReturnRow
      /\ SameMoney(t) /\ WordsGiven(t)'
  BY <1>1, <1>2 DEF Rows, TicketRow, SameMoney, DeskOK, WordsGiven
<1>6. RefundUnderWay(t) => ticket'[t].status # "valid" /\ ~ticket'[t].redeemed
  BY <1>1, <1>2 DEF DeskOK, OutOfUse
<1>7. DeskOK(t)'
  BY <1>1, <1>2, <1>3, <1>5, <1>6, HandsAreOK
<1>8. QED BY <1>4, <1>7, OneTicketStep

(* A step of a return request leaves the one behind a refund under way as   *)
(* it is, and no pending transfer beside one that becomes active.          *)
LEMMA ReturnStepInv ==
  ASSUME DeskInv, NEW t \in Tickets, UNCHANGED <<ticket, moved, alloc, refund, atBank, scan>>,
         pending' \in {pending, [pending EXCEPT ![t] = None]},
         DOMAIN return' = Tickets, \A u \in Tickets \ {t} : return'[u] = return[u],
         return'[t] \in ReturnRow, WordsGiven(t)',
         moved[t] /\ RefundUnderWay(t) => return'[t] = return[t],
         pending'[t] # None => ~ActiveReturn(t)'
  PROVE  DeskInv'
<1>1. Tables /\ DeskOK(t) /\ Rows(t)
  BY DEF DeskInv, DeskOK
<1>2. Tables' /\ \A u \in Tickets \ {t} : Same(u)
  BY <1>1, PendingEnded DEF Tables, Same, SameMoney
<1>3. ticket'[t] \in TicketRow /\ moved'[t] \in BOOLEAN /\ SameMoney(t)
  BY <1>1 DEF Rows, TicketRow, SameMoney
<1>4. RefundUnderWay(t) => ticket'[t].status # "valid" /\ ~ticket'[t].redeemed
  BY <1>1 DEF DeskOK, OutOfUse
<1>5. pending'[t] # None => ~RefundUnderWay(t)
  BY <1>1, PendingEnded DEF DeskOK, Apart
<1>6. DeskOK(t)'
  BY <1>1, <1>3, <1>4, <1>5, PendingEnded, HandsAreOK
<1>7. QED BY <1>2, <1>6, OneTicketStep

LEMMA RequestReturnInv ==
  ASSUME DeskInv, NEW t \in Tickets, NEW p \in Persons, RequestReturn(t, p)
  PROVE  DeskInv'
<1>1. Tables /\ DeskOK(t) /\ Rows(t)
  BY DEF DeskInv, DeskOK
<1>2. /\ UNCHANGED <<ticket, moved, alloc, refund, atBank, scan>> /\ Usable(t)
      /\ pending' = [pending EXCEPT ![t] = None]
      /\ p \in {ticket[t].holder, Buyer}
      /\ return' = [return EXCEPT ![t] = [st |-> "awaiting", holder |-> ticket[t].holder,
                                          by |-> p, yes |-> {p}]]
  BY DEF RequestReturn, money
<1>3. ~RefundUnderWay(t)
  BY <1>1, <1>2, ValidNotUnderWay DEF Usable
<1>4. /\ DOMAIN return' = Tickets /\ \A u \in Tickets \ {t} : return'[u] = return[u]
      /\ return'[t] = [st |-> "awaiting", holder |-> ticket[t].holder, by |-> p, yes |-> {p}]
      /\ pending'[t] = None
  BY <1>1, <1>2 DEF Tables
<1>5. return'[t] \in ReturnRow
  BY <1>1, <1>4 DEF Rows, TicketRow, ReturnRow
<1>6. WordsGiven(t)'
  BY <1>2, <1>4 DEF WordsGiven
<1>7. QED BY <1>2, <1>3, <1>4, <1>5, <1>6, ReturnStepInv

LEMMA ConsentInv ==
  ASSUME DeskInv, NEW t \in Tickets, NEW p \in Persons, Consent(t, p)
  PROVE  DeskInv'
<1>1. Tables /\ DeskOK(t) /\ Rows(t) /\ return[t] \in ReturnRow
  BY DEF DeskInv, DeskOK, Rows
<1>2. /\ UNCHANGED <<ticket, moved, pending, alloc, refund, atBank, scan>>
      /\ return[t].st = "awaiting" /\ p \in {Buyer, return[t].holder} /\ p # return[t].by
      /\ return' = [return EXCEPT ![t].st = "confirmed", ![t].yes = @ \cup {p}]
  BY DEF Consent, OtherParty
<1>3. /\ DOMAIN return' = Tickets /\ \A u \in Tickets \ {t} : return'[u] = return[u]
      /\ return'[t] = [[return[t] EXCEPT !.st = "confirmed"] EXCEPT !.yes = @ \cup {p}]
  BY <1>1, <1>2 DEF Tables
<1>4. /\ return'[t].st = "confirmed" /\ return'[t].yes = return[t].yes \cup {p}
      /\ return'[t].holder = return[t].holder /\ return'[t] \in ReturnRow
  <2>1. return[t].yes \cup {p} \subseteq Persons
    BY <1>1 DEF ReturnRow
  <2>2. QED BY <1>1, <1>3, <2>1 DEF ReturnRow
<1>5. return[t].yes = {return[t].by} /\ return[t].by \in {Buyer, return[t].holder}
  BY <1>1, <1>2 DEF DeskOK, WordsGiven
<1>6. WordsGiven(t)'
  BY <1>2, <1>4, <1>5 DEF WordsGiven
<1>7. ~(moved[t] /\ RefundUnderWay(t))
  BY <1>1, <1>2 DEF DeskOK, Agreed
<1>8. pending'[t] = None
  BY <1>1, <1>2 DEF DeskOK, Apart, ActiveReturn
<1>9. QED BY <1>2, <1>3, <1>4, <1>6, <1>7, <1>8, ReturnStepInv

LEMMA EndReturnInv ==
  ASSUME DeskInv, NEW t \in Tickets, EndReturn(t)
  PROVE  DeskInv'
<1>1. Tables /\ DeskOK(t) /\ Rows(t)
  BY DEF DeskInv, DeskOK
<1>2. /\ UNCHANGED <<ticket, moved, pending, alloc, refund, atBank, scan>>
      /\ return[t].st = "awaiting" /\ return' = [return EXCEPT ![t] = NoReturn]
  BY DEF EndReturn, money
<1>3. /\ DOMAIN return' = Tickets /\ \A u \in Tickets \ {t} : return'[u] = return[u]
      /\ return'[t] = NoReturn
  BY <1>1, <1>2 DEF Tables
<1>4. return'[t] \in ReturnRow /\ WordsGiven(t)' /\ ~ActiveReturn(t)'
  BY <1>3 DEF NoReturn, ReturnRow, WordsGiven, ActiveReturn
<1>5. ~(moved[t] /\ RefundUnderWay(t))
  BY <1>1, <1>2 DEF DeskOK, Agreed
<1>6. QED BY <1>2, <1>3, <1>4, <1>5, ReturnStepInv

-----------------------------------------------------------------------------
(* The door, staff, exchanges, and a refund of the whole charge. *)

(* Only a usable ticket is admitted. *)
LEMMA ClaimRedemptionInv ==
  ASSUME DeskInv, NEW d \in Scanners, ClaimRedemption(d)
  PROVE  DeskInv'
<1>1. PICK t \in Tickets : t = scan[d]
  BY DEF ClaimRedemption, DeskInv, Tables
<1>2. /\ UNCHANGED <<moved, pending, return, alloc, refund, atBank>> /\ scan' = [scan EXCEPT ![d] = None]
      /\ ticket' = IF Admissible(t) THEN [ticket EXCEPT ![t].redeemed = TRUE] ELSE ticket
  BY <1>1 DEF ClaimRedemption, people, money
<1>3. scan' \in [Scanners -> Tickets \cup {None}]
  BY <1>2 DEF DeskInv, Tables
<1>4. CASE ~Admissible(t)
  BY <1>2, <1>3, <1>4, AsideInv
<1>5. CASE Admissible(t)
  <2>1. Tables /\ DeskOK(t) /\ Rows(t)
    BY <1>1 DEF DeskInv, DeskOK
  <2>2. ~RefundUnderWay(t)
    BY <1>1, <1>5, <2>1, ValidNotUnderWay DEF Admissible, Usable
  <2>3. /\ DOMAIN ticket' = Tickets /\ \A u \in Tickets \ {t} : ticket'[u] = ticket[u]
        /\ ticket'[t] = [ticket[t] EXCEPT !.redeemed = TRUE]
    BY <1>1, <1>2, <1>5, <2>1 DEF Tables
  <2>4. ticket'[t] \in TicketRow
    BY <2>1, <2>3 DEF Rows, TicketRow
  <2>5. Tables' /\ \A u \in Tickets \ {t} : Same(u)
    BY <1>2, <1>3, <2>1, <2>3 DEF Tables, Same, SameMoney
  <2>6. /\ moved'[t] \in BOOLEAN /\ return'[t] \in ReturnRow /\ pending'[t] = None /\ SameMoney(t)
        /\ WordsGiven(t)'
    BY <1>2, <1>5, <2>1 DEF Rows, DeskOK, WordsGiven, SameMoney, Admissible
  <2>7. DeskOK(t)'
    BY <1>1, <2>1, <2>2, <2>4, <2>6, HandsAreOK
  <2>8. QED BY <1>1, <2>5, <2>7, OneTicketStep
<1>6. QED BY <1>4, <1>5

LEMMA DoorInv ==
  ASSUME DeskInv, NEW t \in Tickets, Door(t)
  PROVE  DeskInv'
<1>1. CASE \E d \in Scanners : Look(d, t)
  BY <1>1, AsideInv DEF Look, people, money, DeskInv, Tables
<1>2. CASE VoidTicket(t)
  BY <1>2, SetStatusInv DEF VoidTicket, people, money
<1>3. CASE Unredeem(t)
  <2>1. DOMAIN ticket = Tickets /\ ticket[t] \in TicketRow
    BY DEF DeskInv, Tables, DeskOK, Rows
  <2>2. /\ DOMAIN ticket' = Tickets /\ \A u \in Tickets \ {t} : ticket'[u] = ticket[u]
        /\ ticket'[t] = [ticket[t] EXCEPT !.redeemed = FALSE]
    BY <1>3, <2>1 DEF Unredeem
  <2>3. /\ ticket'[t].status = ticket[t].status /\ ticket'[t].holder = ticket[t].holder
        /\ ~ticket'[t].redeemed /\ ticket'[t] \in TicketRow
    BY <2>1, <2>2 DEF TicketRow
  <2>4. UNCHANGED <<moved, pending, return, alloc, refund, atBank, scan>>
    BY <1>3 DEF Unredeem, people, money
  <2>5. QED BY <2>2, <2>3, <2>4, OutOfUseInv
<1>4. QED BY <1>1, <1>2, <1>3 DEF Door

(* The steps of the exchanges. *)
ExchangeStep ==
  ExchangeNext \/ \E e \in Exchanges : ExchangeAnswerLost(e) \/ ExchangeStops(e)

(* An exchange changes a ticket's type and amount, or its money voids it. *)
LEMMA ExchangeOfTicket ==
  ASSUME ExchangeStep
  PROVE  \/ ticket' = ticket
         \/ \E t \in Tickets : ticket' = [ticket EXCEPT ![t].status = "void"]
         \/ \E e \in Exchanges : Completed(e)
  BY DEF ExchangeStep, ExchangeNext, ReserveExchange, CompleteFree, AllocateExchangeRefund,
         CallExchangeRefund, ExchangeCallFails, ExchangeAnswerLost, WriteExchangeRefund, PendExchange,
         CheckExchange, FinishExchange, OpenExchangeSession, AwaitPayment, ExchangeBankSettles,
         SessionEnds, HookReadsExchange, HookExchangeRefund, FulfilExchange, ExpireExchange,
         UpgradeRefunded, ExchangeStops, CompleteOrThrow, GivenUp

(* A row that was never reserved is of no ticket. *)
LEMMA CompletedTicket ==
  ASSUME DeskInv, Ledger, NEW e \in Exchanges, Completed(e)
  PROVE  \/ DOMAIN ticket' = Tickets /\ \A u \in Tickets : ticket'[u] = ticket[u]
         \/ LET t == exchange[e].of IN
            /\ t \in Tickets /\ exchange[e].to \in Types /\ exchange[e].delta \in Int
            /\ DOMAIN ticket' = Tickets /\ \A u \in Tickets \ {t} : ticket'[u] = ticket[u]
            /\ ticket'[t] = [[ticket[t] EXCEPT !.type = exchange[e].to]
                               EXCEPT !.amount = @ + exchange[e].delta]
<1>1. DOMAIN ticket = Tickets /\ exchange[e] \in ExchangeRow
  BY DEF DeskInv, Tables, Ledger
<1>2. CASE exchange[e].of \in Tickets
  <2>1. exchange[e].to \in Types /\ exchange[e].delta \in Int
    BY <1>1, <1>2, ExchangesAssumption DEF ExchangeRow
  <2>2. QED BY <1>1, <1>2, <2>1 DEF Completed
<1>3. CASE exchange[e].of \notin Tickets
  <2>1. ticket' = [ticket EXCEPT ![exchange[e].of].type = exchange[e].to,
                                 ![exchange[e].of].amount = @ + exchange[e].delta]
    BY DEF Completed
  <2>2. DOMAIN ticket' = Tickets /\ \A u \in Tickets : ticket'[u] = ticket[u]
    BY <1>1, <1>3, <2>1
  <2>3. QED BY <2>2
<1>4. QED BY <1>2, <1>3

LEMMA ExchangingInv ==
  ASSUME DeskInv, Ledger, Exchanging
  PROVE  DeskInv'
<1>1. UNCHANGED <<moved, pending, return, alloc, refund, atBank, scan>> /\ ExchangeStep
  BY DEF Exchanging, ExchangeStep, people
<1>2. CASE ticket' = ticket
  BY <1>1, <1>2, AsideInv DEF DeskInv, Tables
<1>3. ASSUME NEW t \in Tickets, ticket' = [ticket EXCEPT ![t].status = "void"] PROVE DeskInv'
  BY <1>1, <1>3, SetStatusInv DEF SetStatus
<1>4. ASSUME DOMAIN ticket' = Tickets, \A u \in Tickets : ticket'[u] = ticket[u] PROVE DeskInv'
  <2>1. Tables' /\ \A u \in Tickets : Same(u)
    BY <1>1, <1>4 DEF DeskInv, Tables, Same, SameMoney
  <2>2. QED BY <2>1, SameIsOK DEF DeskInv
<1>5. ASSUME NEW e \in Exchanges, Completed(e), ~(\A u \in Tickets : ticket'[u] = ticket[u])
      PROVE  DeskInv'
  <2>1. PICK t \in Tickets :
          /\ t = exchange[e].of /\ exchange[e].to \in Types /\ exchange[e].delta \in Int
          /\ DOMAIN ticket' = Tickets /\ \A u \in Tickets \ {t} : ticket'[u] = ticket[u]
          /\ ticket'[t] = [[ticket[t] EXCEPT !.type = exchange[e].to]
                             EXCEPT !.amount = @ + exchange[e].delta]
    BY <1>5, CompletedTicket
  <2>2. ticket[t] \in TicketRow
    BY DEF DeskInv, DeskOK, Rows
  <2>3. /\ ticket'[t].status = ticket[t].status /\ ticket'[t].holder = ticket[t].holder
        /\ ticket'[t].redeemed = ticket[t].redeemed /\ ticket'[t] \in TicketRow
    <3>1. ticket[t].amount + exchange[e].delta \in Int
      BY <2>1, <2>2 DEF TicketRow
    <3>2. QED BY <2>1, <2>2, <3>1 DEF TicketRow
  <2>4. QED BY <1>1, <2>1, <2>3, OutOfUseInv
<1>6. ASSUME NEW e \in Exchanges, Completed(e) PROVE DeskInv'
  BY <1>4, <1>5, <1>6, CompletedTicket
<1>7. QED BY <1>1, <1>2, <1>3, <1>6, ExchangeOfTicket

(* The tickets that what went back covers leave use together. *)
LEMMA ChargeRefundedInv ==
  ASSUME DeskInv, ChargeRefunded
  PROVE  DeskInv'
<1>1. /\ UNCHANGED <<moved, pending, return, alloc, refund, atBank, scan>>
      /\ ticket' = [t \in Tickets |-> IF t \in Covered THEN [ticket[t] EXCEPT !.status = "refunded"]
                                      ELSE ticket[t]]
  BY DEF ChargeRefunded, people, money
<1>2. Tables'
  BY <1>1 DEF DeskInv, Tables
<1>3. ASSUME NEW t \in Tickets PROVE DeskOK(t)'
  <2>1. DeskOK(t) /\ Rows(t) /\ ticket[t] \in TicketRow
    BY DEF DeskInv, DeskOK, Rows
  <2>2. ticket'[t] = ticket[t] \/ ticket'[t] = [ticket[t] EXCEPT !.status = "refunded"]
    BY <1>1
  <2>3. /\ ticket'[t] \in TicketRow /\ ticket'[t].holder = ticket[t].holder
        /\ ticket'[t].status \in {ticket[t].status, "refunded"}
        /\ ticket'[t].redeemed = ticket[t].redeemed
    BY <2>1, <2>2 DEF TicketRow
  <2>4. RefundUnderWay(t) => ticket'[t].status # "valid" /\ ~ticket'[t].redeemed
    BY <2>1, <2>3 DEF DeskOK, OutOfUse
  <2>5. /\ moved'[t] \in BOOLEAN /\ return'[t] \in ReturnRow /\ SameMoney(t) /\ WordsGiven(t)'
        /\ pending'[t] \in Operation \cup {None}
        /\ pending'[t] # None => ~ActiveReturn(t)' /\ ~RefundUnderWay(t)
    BY <1>1, <2>1 DEF Rows, DeskOK, WordsGiven, Apart, ActiveReturn, SameMoney
  <2>6. QED BY <1>1, <2>1, <2>3, <2>4, <2>5, HandsAreOK
<1>4. QED BY <1>2, <1>3 DEF DeskInv

-----------------------------------------------------------------------------
(* refundTicket. *)

LEMMA MinIsOne ==
  ASSUME NEW a \in Int, NEW b \in Int
  PROVE  Min({a, b}) \in {a, b}
<1>1. \E x \in {a, b} : \A y \in {a, b} : x <= y
  OBVIOUS
<1>2. QED BY <1>1 DEF Min

(* The ticket's price is shared between its payments: one of them is asked. *)
LEMMA PriceIsShared ==
  ASSUME DeskInv, Ledger, NEW t \in Tickets
  PROVE  /\ \A p \in Payments : Share(t, p) \in Int
         /\ ticket[t].amount > 0 => \E p \in Payments : Share(t, p) > 0
<1>1. ticket[t].amount \in Int
  BY DEF DeskInv, DeskOK, Rows, TicketRow
<1>2. Held(t, "upgrade") \in Int
  <2>1. Held(t, "upgrade") = Left(t, "upgrade")
    BY Zenon DEF Held
  <2>2. paid[t]["upgrade"] \in Int /\ back[t]["upgrade"] \in Int
    BY DEF Ledger, Payments
  <2>3. QED BY <2>1, <2>2 DEF Left
<1>3. FromUpgrade(t) \in Int
  BY <1>1, <1>2, MinIsOne DEF FromUpgrade
<1>4. Share(t, "upgrade") = FromUpgrade(t) /\ Share(t, "base") = ticket[t].amount - FromUpgrade(t)
  BY DEF Share
<1>5. QED BY <1>1, <1>3, <1>4 DEF Payments

(* A refund begins with a usable ticket and, if it was transferred, with the *)
(* words of both; it leaves none of these behind.                          *)
LEMMA PrepareInv ==
  ASSUME DeskInv, Ledger, NEW t \in Tickets, NEW req \in BOOLEAN, Prepare(t, req)
  PROVE  DeskInv'
<1>1. Tables /\ DeskOK(t) /\ Rows(t) /\ ticket[t] \in TicketRow /\ return[t] \in ReturnRow
  BY DEF DeskInv, DeskOK, Rows
<1>2. /\ Refundable(t, req) /\ ticket' = SetStatus(t, "void") /\ UNCHANGED <<moved, scan>>
      /\ pending' = [pending EXCEPT ![t] = None]
      /\ return' = IF req /\ return[t].st = "confirmed"
                   THEN [return EXCEPT ![t].st = "refunding"] ELSE return
      /\ alloc' = [alloc EXCEPT ![t] = [p \in Payments |-> Allocated(t, p)]]
      /\ refund' = [refund EXCEPT ![t] = [Idle EXCEPT !.pc = "call", !.req = req]]
      /\ atBank' = [atBank EXCEPT ![t] = [p \in Payments |-> "none"]]
  BY DEF Prepare
<1>3. /\ DOMAIN ticket' = Tickets /\ DOMAIN pending' = Tickets /\ DOMAIN return' = Tickets
      /\ DOMAIN alloc' = Tickets /\ DOMAIN refund' = Tickets /\ DOMAIN atBank' = Tickets
      /\ \A u \in Tickets \ {t} : /\ ticket'[u] = ticket[u] /\ pending'[u] = pending[u]
                                  /\ return'[u] = return[u] /\ alloc'[u] = alloc[u]
                                  /\ refund'[u] = refund[u] /\ atBank'[u] = atBank[u]
  BY <1>1, <1>2 DEF Tables, SetStatus
<1>4. Tables' /\ \A u \in Tickets \ {t} : Same(u)
  BY <1>1, <1>2, <1>3 DEF Tables, Same, SameMoney
<1>5. /\ ticket'[t] = [ticket[t] EXCEPT !.status = "void"] /\ pending'[t] = None
      /\ return'[t] = IF req /\ return[t].st = "confirmed"
                      THEN [return[t] EXCEPT !.st = "refunding"] ELSE return[t]
      /\ alloc'[t] = [p \in Payments |-> Allocated(t, p)]
      /\ refund'[t] = [Idle EXCEPT !.pc = "call", !.req = req]
      /\ atBank'[t] = [p \in Payments |-> "none"]
  BY <1>1, <1>2 DEF Tables, SetStatus
<1>6. /\ ticket'[t] \in TicketRow /\ ticket'[t].status = "void"
      /\ ticket'[t].redeemed = ticket[t].redeemed /\ ticket'[t].holder = ticket[t].holder
  BY <1>1, <1>5 DEF TicketRow
<1>7. /\ return'[t] \in ReturnRow /\ return'[t].yes = return[t].yes
      /\ return'[t].st = IF req /\ return[t].st = "confirmed" THEN "refunding" ELSE return[t].st
      /\ return'[t].by = return[t].by /\ return'[t].holder = return[t].holder
  BY <1>1, <1>5 DEF ReturnRow
<1>8. /\ refund'[t] \in RefundHandler /\ refund'[t].pc = "call" /\ ~refund'[t].started
  BY <1>5 DEF RefundHandler, Idle
<1>9. \A p \in Payments :
      /\ alloc'[t][p] \in AllocationRow /\ atBank'[t][p] = "none"
      /\ alloc'[t][p].st = IF Share(t, p) > 0 THEN "processing" ELSE "none"
      /\ ~alloc'[t][p].ref
  <2> TAKE p \in Payments
  <2>1. alloc'[t][p] = Allocated(t, p) /\ atBank'[t][p] = "none" /\ Share(t, p) \in Int
    BY <1>5, PriceIsShared
  <2>2. CASE Share(t, p) > 0
    BY <2>1, <2>2 DEF Allocated, AllocationRow
  <2>3. CASE ~(Share(t, p) > 0)
    BY <2>1, <2>3 DEF Allocated, AllocationRow, NoAllocation
  <2>4. QED BY <2>2, <2>3
<1>10. \E p \in Payments : Unasked(t, p)'
  <2>1. PICK p \in Payments : Share(t, p) > 0
    BY <1>2, PriceIsShared DEF Refundable
  <2>2. QED BY <1>9, <2>1 DEF Unasked
<1>11. Rows(t)'
  BY <1>1, <1>2, <1>5, <1>6, <1>7, <1>8, <1>9 DEF Rows
<1>12. HandlerKnows(t)' /\ RowsMatchBank(t)'
  <2>1. \A p \in Payments : alloc'[t][p].st \in {"none", "processing"} /\ atBank'[t][p] = "none"
    BY <1>9
  <2>2. HandlerKnows(t)'
    BY <1>8, <1>10, <2>1 DEF HandlerKnows
  <2>3. RowsMatchBank(t)'
    BY <1>9, <2>1 DEF RowsMatchBank
  <2>4. QED BY <2>2, <2>3
<1>13. OutOfUse(t)' /\ WordsGiven(t)' /\ Apart(t)'
  BY <1>1, <1>2, <1>5, <1>6, <1>7 DEF OutOfUse, WordsGiven, Apart, Refundable, Usable, DeskOK
<1>14. Agreed(t)'
  <2> SUFFICES ASSUME moved[t]
               PROVE  /\ return'[t].st = "refunding"
                      /\ return'[t].yes = {Buyer, ticket'[t].holder}
    BY <1>2 DEF Agreed
  <2>1. req /\ return[t].st = "confirmed" /\ return[t].holder = ticket[t].holder
    BY <1>2 DEF Refundable, ConsentGiven
  <2>2. return[t].yes = {Buyer, return[t].holder}
    BY <1>1, <2>1 DEF DeskOK, WordsGiven
  <2>3. QED BY <1>6, <1>7, <2>1, <2>2
<1>15. DeskOK(t)'
  BY <1>11, <1>12, <1>13, <1>14 DEF DeskOK
<1>16. QED BY <1>4, <1>15, OneTicketStep

(* A step of a refund under way: the ticket stays out of use and the words   *)
(* that were given for it stay.                                            *)
LEMMA RefundStepIsOK ==
  ASSUME NEW t \in Tickets, DeskOK(t), Rows(t)', HandlerKnows(t)', RowsMatchBank(t)',
         moved'[t] = moved[t], pending'[t] = pending[t], WordsGiven(t)',
         ticket'[t].holder = ticket[t].holder,
         RefundUnderWay(t)' => /\ RefundUnderWay(t)
                               /\ ticket'[t].status # "valid" /\ ~ticket'[t].redeemed
                               /\ return'[t].yes = return[t].yes
                               /\ \/ return'[t].st = return[t].st
                                  \/ return'[t].st \in {"refunding", "review", "refunded"},
         ActiveReturn(t)' => ActiveReturn(t) \/ RefundUnderWay(t)
  PROVE  DeskOK(t)'
  BY DEF DeskOK, OutOfUse, Agreed, Apart

(* A step of the money alone. *)
LEMMA MoneyStepInv ==
  ASSUME DeskInv, NEW t \in Tickets, UNCHANGED <<ticket, moved, pending, return, scan>>,
         DOMAIN alloc' = Tickets, DOMAIN refund' = Tickets, DOMAIN atBank' = Tickets,
         \A u \in Tickets \ {t} : SameMoney(u),
         DOMAIN alloc'[t] = Payments, \A p \in Payments : alloc'[t][p] \in AllocationRow,
         refund'[t] \in RefundHandler,
         atBank'[t] \in [Payments -> {"none", "pending", "succeeded", "failed"}],
         HandlerKnows(t)', RowsMatchBank(t)', RefundUnderWay(t)' => RefundUnderWay(t)
  PROVE  DeskInv'
<1>1. Tables /\ DeskOK(t) /\ Rows(t)
  BY DEF DeskInv, DeskOK
<1>2. Tables' /\ \A u \in Tickets \ {t} : Same(u)
  BY <1>1 DEF Tables, Same
<1>3. Rows(t)'
  BY <1>1 DEF Rows
<1>4. WordsGiven(t)' /\ (ActiveReturn(t)' => ActiveReturn(t))
  BY <1>1 DEF DeskOK, WordsGiven, ActiveReturn
<1>5. RefundUnderWay(t)' => ticket'[t].status # "valid" /\ ~ticket'[t].redeemed
  BY <1>1 DEF DeskOK, OutOfUse
<1>6. DeskOK(t)'
  BY <1>1, <1>3, <1>4, <1>5, RefundStepIsOK
<1>7. QED BY <1>2, <1>6, OneTicketStep

(* The status of one allocation changes, and whether its refund is known. *)
LEMMA AllocationSet ==
  ASSUME DeskInv, NEW t \in Tickets, NEW p \in Payments,
         NEW st \in {"none", "processing", "pending", "succeeded", "failed"},
         \/ alloc' = [alloc EXCEPT ![t][p].st = st]
         \/ alloc' = [alloc EXCEPT ![t][p].st = st, ![t][p].ref = TRUE]
  PROVE  /\ DOMAIN alloc' = Tickets /\ \A u \in Tickets \ {t} : alloc'[u] = alloc[u]
         /\ DOMAIN alloc'[t] = Payments /\ \A q \in Payments : alloc'[t][q] \in AllocationRow
         /\ \A q \in Payments \ {p} : alloc'[t][q] = alloc[t][q]
         /\ alloc'[t][p].st = st /\ (alloc[t][p].ref => alloc'[t][p].ref)
         /\ alloc' = [alloc EXCEPT ![t][p].st = st, ![t][p].ref = TRUE] => alloc'[t][p].ref
<1>1. DOMAIN alloc = Tickets /\ DOMAIN alloc[t] = Payments /\ \A q \in Payments : alloc[t][q] \in AllocationRow
  BY DEF DeskInv, Tables, DeskOK, Rows
<1>2. CASE alloc' = [alloc EXCEPT ![t][p].st = st]
  <2>1. /\ DOMAIN alloc' = Tickets /\ \A u \in Tickets \ {t} : alloc'[u] = alloc[u]
        /\ DOMAIN alloc'[t] = Payments /\ \A q \in Payments \ {p} : alloc'[t][q] = alloc[t][q]
        /\ alloc'[t][p] = [alloc[t][p] EXCEPT !.st = st]
    BY <1>1, <1>2
  <2>2. /\ alloc'[t][p] \in AllocationRow /\ alloc'[t][p].st = st
        /\ alloc'[t][p].ref = alloc[t][p].ref
    BY <1>1, <2>1 DEF AllocationRow
  <2>3. alloc' = [alloc EXCEPT ![t][p].st = st, ![t][p].ref = TRUE] => alloc'[t][p].ref
    <3>1. ASSUME alloc' = [alloc EXCEPT ![t][p].st = st, ![t][p].ref = TRUE] PROVE alloc'[t][p].ref
      <4>1. alloc'[t][p] = [[alloc[t][p] EXCEPT !.st = st] EXCEPT !.ref = TRUE]
        BY <1>1, <3>1
      <4>2. QED BY <1>1, <4>1 DEF AllocationRow
    <3>2. QED BY <3>1
  <2>4. QED BY <1>1, <2>1, <2>2, <2>3
<1>3. CASE alloc' = [alloc EXCEPT ![t][p].st = st, ![t][p].ref = TRUE]
  <2>1. /\ DOMAIN alloc' = Tickets /\ \A u \in Tickets \ {t} : alloc'[u] = alloc[u]
        /\ DOMAIN alloc'[t] = Payments /\ \A q \in Payments \ {p} : alloc'[t][q] = alloc[t][q]
        /\ alloc'[t][p] = [[alloc[t][p] EXCEPT !.st = st] EXCEPT !.ref = TRUE]
    BY <1>1, <1>3
  <2>2. alloc'[t][p] \in AllocationRow /\ alloc'[t][p].st = st /\ alloc'[t][p].ref
    BY <1>1, <2>1 DEF AllocationRow
  <2>3. QED BY <1>1, <2>1, <2>2
<1>4. QED BY <1>2, <1>3

(* The handler asks for one allocation at a time. *)
LEMMA AskingIsOne ==
  ASSUME NEW t \in Tickets, NEW p \in Payments, NEW q \in Payments \ {p}, Asking(t, p)
  PROVE  ~Asking(t, q)
  BY DEF Asking, Payments

LEMMA AnswerRefundInv ==
  ASSUME DeskInv, NEW t \in Tickets, NEW p \in Payments, NEW ans \in {"pending", "succeeded"},
         AnswerRefund(t, p, ans)
  PROVE  DeskInv'
<1>1. Tables /\ DeskOK(t) /\ Rows(t)
  BY DEF DeskInv, DeskOK
<1>2. /\ UNCHANGED <<ticket, moved, pending, return, scan, alloc>> /\ refund[t].pc = "call"
      /\ Asking(t, p) /\ atBank' = [atBank EXCEPT ![t][p] = ans]
      /\ refund' = [refund EXCEPT ![t].pc = "record", ![t].ans = ans, ![t].started = TRUE]
  BY DEF AnswerRefund, people
<1>3. /\ DOMAIN refund' = Tickets /\ DOMAIN atBank' = Tickets
      /\ \A u \in Tickets \ {t} : SameMoney(u)
      /\ atBank'[t] = [atBank[t] EXCEPT ![p] = ans]
      /\ refund'[t] = [[[refund[t] EXCEPT !.pc = "record"] EXCEPT !.ans = ans] EXCEPT !.started = TRUE]
  BY <1>1, <1>2 DEF Tables, SameMoney
<1>4. /\ refund'[t] \in RefundHandler /\ refund'[t].pc = "record" /\ refund'[t].ans = ans
      /\ refund'[t].started
  BY <1>1, <1>3 DEF Rows, RefundHandler
<1>5. /\ atBank'[t] \in [Payments -> {"none", "pending", "succeeded", "failed"}]
      /\ \A q \in Payments \ {p} : atBank'[t][q] = atBank[t][q]
  BY <1>1, <1>3 DEF Rows
<1>6. Unasked(t, p)
  BY <1>2 DEF Asking
<1>7. HandlerKnows(t)'
  <2>1. \A q \in Payments : (Unasked(t, q)' <=> Unasked(t, q)) /\ (Asking(t, q)' <=> Asking(t, q))
    BY <1>2 DEF Unasked, Asking
  <2>2. \A q \in Payments : Unasked(t, q) /\ ~Asking(t, q) => atBank'[t][q] = "none"
    BY <1>1, <1>2, <1>5 DEF DeskOK, HandlerKnows
  <2>3. QED BY <1>4, <1>6, <2>1, <2>2 DEF HandlerKnows
<1>8. RowsMatchBank(t)'
  BY <1>1, <1>2, <1>5, <1>6 DEF DeskOK, RowsMatchBank, Unasked
<1>9. RefundUnderWay(t)
  BY <1>2 DEF RefundUnderWay
<1>10. DOMAIN alloc' = Tickets /\ DOMAIN alloc'[t] = Payments /\ \A q \in Payments : alloc'[t][q] \in AllocationRow
  BY <1>1, <1>2 DEF Tables, Rows
<1>11. QED BY <1>2, <1>3, <1>4, <1>5, <1>7, <1>8, <1>9, <1>10, MoneyStepInv

LEMMA RecordAnswerInv ==
  ASSUME DeskInv, NEW t \in Tickets, NEW p \in Payments, RecordAnswer(t, p)
  PROVE  DeskInv'
<1>1. Tables /\ DeskOK(t) /\ Rows(t) /\ HandlerKnows(t)
  BY DEF DeskInv, DeskOK
<1>2. /\ UNCHANGED <<ticket, moved, pending, return, scan, atBank>> /\ refund[t].pc = "record"
      /\ Asking(t, p) /\ alloc' = [alloc EXCEPT ![t][p].st = refund[t].ans, ![t][p].ref = TRUE]
  BY DEF RecordAnswer, people
<1>3. refund[t].ans \in {"pending", "succeeded"} /\ refund[t].started /\ refund[t] \in RefundHandler
  BY <1>1, <1>2 DEF HandlerKnows, Rows
<1>4. /\ DOMAIN alloc' = Tickets /\ \A u \in Tickets \ {t} : alloc'[u] = alloc[u]
      /\ DOMAIN alloc'[t] = Payments /\ \A q \in Payments : alloc'[t][q] \in AllocationRow
      /\ \A q \in Payments \ {p} : alloc'[t][q] = alloc[t][q]
      /\ alloc'[t][p].st = refund[t].ans /\ alloc'[t][p].ref
  BY <1>2, <1>3, AllocationSet
<1>5. /\ \A q \in Payments \ {p} : Unasked(t, q)' <=> Unasked(t, q)
      /\ ~Unasked(t, p)'
  BY <1>4 DEF Unasked
<1>6. DOMAIN refund' = Tickets /\ \A u \in Tickets \ {t} : refund'[u] = refund[u]
  BY <1>1 DEF RecordAnswer, Tables
<1>7. /\ refund'[t] \in RefundHandler
      /\ \/ (\E q \in Payments \ {p} : Unasked(t, q)) /\ refund'[t].pc = "call" /\ refund'[t].started
         \/ refund'[t].pc = "idle"
         \/ refund[t].ans # "pending" /\ refund'[t].pc = "mark"
  <2> DEFINE more == \E q \in Payments \ {p} : Unasked(t, q)
             waits == refund[t].pending \/ refund[t].ans = "pending"
  <2>1. CASE more
    <3>1. refund'[t] = [[[refund[t] EXCEPT !.pc = "call"] EXCEPT !.ans = "none"] EXCEPT !.pending = waits]
      <4>1. refund' = [refund EXCEPT ![t].pc = "call", ![t].ans = "none", ![t].pending = waits]
        BY Zenon, <2>1 DEF RecordAnswer
      <4> HIDE DEF waits
      <4>2. QED BY <1>1, <4>1 DEF Tables
    <3>2. waits \in BOOLEAN
      OBVIOUS
    <3> HIDE DEF waits
    <3>3. /\ refund'[t] \in RefundHandler /\ refund'[t].pc = "call"
          /\ refund'[t].started = refund[t].started
      BY <1>3, <3>1, <3>2 DEF RefundHandler
    <3>4. QED BY <1>3, <2>1, <3>3
  <2>2. CASE ~more /\ waits
    <3>1. refund'[t] = Idle
      BY <1>1, <2>2 DEF RecordAnswer, Tables
    <3>2. QED BY <3>1 DEF Idle, RefundHandler
  <2>3. CASE ~more /\ ~waits
    <3>1. refund'[t] = [refund[t] EXCEPT !.pc = "mark"]
      BY <1>1, <2>3 DEF RecordAnswer, Tables
    <3>2. refund'[t] \in RefundHandler /\ refund'[t].pc = "mark"
      BY <1>3, <3>1 DEF RefundHandler
    <3>3. QED BY <2>3, <3>2
  <2>4. QED BY <2>1, <2>2, <2>3
<1>8. HandlerKnows(t)'
  <2>1. CASE refund'[t].pc = "call"
    <3>1. \E q \in Payments \ {p} : Unasked(t, q)
      BY <1>7, <2>1
    <3>2. \A q \in Payments \ {p} : Unasked(t, q) => atBank[t][q] = "none"
      BY <1>1, <1>2, AskingIsOne DEF HandlerKnows
    <3>3. QED BY <1>2, <1>5, <1>7, <2>1, <3>1, <3>2 DEF HandlerKnows
  <2>2. CASE refund'[t].pc = "idle"
    BY <2>2 DEF HandlerKnows
  <2>3. CASE refund'[t].pc = "mark"
    BY <1>3, <1>4, <1>7, <2>3 DEF HandlerKnows
  <2>4. QED BY <1>7, <2>1, <2>2, <2>3
<1>9. RowsMatchBank(t)'
  BY <1>1, <1>2, <1>3, <1>4 DEF DeskOK, RowsMatchBank
<1>10. RefundUnderWay(t)
  BY <1>2 DEF RefundUnderWay
<1>11. /\ DOMAIN atBank' = Tickets /\ \A u \in Tickets \ {t} : SameMoney(u)
       /\ atBank'[t] \in [Payments -> {"none", "pending", "succeeded", "failed"}]
  BY <1>1, <1>2, <1>4, <1>6 DEF Tables, Rows, SameMoney
<1>12. QED BY <1>2, <1>4, <1>6, <1>7, <1>8, <1>9, <1>10, <1>11, MoneyStepInv

(* What goes back reaches the bank while its ticket is out of use. *)
LEMMA BankSettlesInv ==
  ASSUME DeskInv, NEW t \in Tickets, NEW p \in Payments, BankSettles(t, p)
  PROVE  DeskInv'
<1>1. Tables /\ DeskOK(t) /\ Rows(t)
  BY DEF DeskInv, DeskOK
<1>2. /\ UNCHANGED <<ticket, moved, pending, return, scan, alloc, refund>> /\ atBank[t][p] = "pending"
      /\ \E s \in {"failed", "succeeded"} : atBank' = [atBank EXCEPT ![t][p] = s]
  BY DEF BankSettles, people
<1>3. /\ DOMAIN atBank' = Tickets /\ \A u \in Tickets \ {t} : SameMoney(u)
      /\ atBank'[t] \in [Payments -> {"none", "pending", "succeeded", "failed"}]
      /\ \A q \in Payments \ {p} : atBank'[t][q] = atBank[t][q]
  BY <1>1, <1>2 DEF Tables, Rows, SameMoney
<1>4. HandlerKnows(t)'
  BY <1>1, <1>2, <1>3 DEF DeskOK, HandlerKnows, Unasked, Asking
<1>5. RowsMatchBank(t)'
  BY <1>1, <1>2, <1>3 DEF DeskOK, RowsMatchBank
<1>6. RefundUnderWay(t)
  BY <1>2 DEF RefundUnderWay
<1>7. /\ DOMAIN alloc' = Tickets /\ DOMAIN refund' = Tickets /\ DOMAIN alloc'[t] = Payments
      /\ \A q \in Payments : alloc'[t][q] \in AllocationRow
      /\ refund'[t] \in RefundHandler
  BY <1>1, <1>2 DEF Tables, Rows
<1>8. QED BY <1>2, <1>3, <1>4, <1>5, <1>6, <1>7, MoneyStepInv

(* A webhook settles an allocation that was recorded as pending. *)
LEMMA HookAllocationInv ==
  ASSUME DeskInv, NEW t \in Tickets, NEW p \in Payments, HookAllocation(t, p)
  PROVE  DeskInv'
<1>1. Tables /\ DeskOK(t) /\ Rows(t) /\ HandlerKnows(t)
  BY DEF DeskInv, DeskOK
<1>2. /\ UNCHANGED <<ticket, moved, pending, return, scan, refund, atBank>>
      /\ atBank[t][p] \in {"succeeded", "failed"} /\ alloc[t][p].ref
      /\ alloc[t][p].st \in {"processing", "pending"}
      /\ alloc' = [alloc EXCEPT ![t][p].st = atBank[t][p]]
  BY DEF HookAllocation, people
<1>3. alloc[t][p].st = "pending"
  BY <1>1, <1>2 DEF DeskOK, RowsMatchBank
<1>4. /\ DOMAIN alloc' = Tickets /\ \A u \in Tickets \ {t} : alloc'[u] = alloc[u]
      /\ DOMAIN alloc'[t] = Payments /\ \A q \in Payments : alloc'[t][q] \in AllocationRow
      /\ \A q \in Payments \ {p} : alloc'[t][q] = alloc[t][q]
      /\ alloc'[t][p].st = atBank[t][p]
  <2>1. PICK s \in {"none", "processing", "pending", "succeeded", "failed"} :
               s = atBank[t][p] /\ alloc' = [alloc EXCEPT ![t][p].st = s]
    BY <1>2
  <2>2. /\ DOMAIN alloc' = Tickets /\ \A u \in Tickets \ {t} : alloc'[u] = alloc[u]
        /\ DOMAIN alloc'[t] = Payments /\ \A q \in Payments : alloc'[t][q] \in AllocationRow
        /\ \A q \in Payments \ {p} : alloc'[t][q] = alloc[t][q]
        /\ alloc'[t][p].st = s
    BY <2>1, AllocationSet
  <2>3. QED BY <2>1, <2>2
<1>5. \A q \in Payments : (Unasked(t, q)' <=> Unasked(t, q)) /\ (Asking(t, q)' <=> Asking(t, q))
  BY <1>2, <1>3, <1>4 DEF Unasked, Asking, Payments
<1>6. HandlerKnows(t)'
  <2>1. ~(refund[t].pc = "call" /\ ~refund[t].started)
    BY <1>1, <1>3 DEF HandlerKnows
  <2>2. (\E q \in Payments : alloc[t][q].st = "succeeded") => \E q \in Payments : alloc'[t][q].st = "succeeded"
    BY <1>3, <1>4
  <2>3. QED BY <1>1, <1>2, <1>5, <2>1, <2>2 DEF HandlerKnows
<1>7. RowsMatchBank(t)'
  BY <1>1, <1>2, <1>4 DEF DeskOK, RowsMatchBank
<1>8. RefundUnderWay(t)
  BY <1>3 DEF RefundUnderWay
<1>9. /\ DOMAIN refund' = Tickets /\ DOMAIN atBank' = Tickets /\ \A u \in Tickets \ {t} : SameMoney(u)
      /\ refund'[t] \in RefundHandler
      /\ atBank'[t] \in [Payments -> {"none", "pending", "succeeded", "failed"}]
  BY <1>1, <1>2, <1>4 DEF Tables, Rows, SameMoney
<1>10. QED BY <1>2, <1>4, <1>6, <1>7, <1>8, <1>9, MoneyStepInv

(* The process that refunds ends: what was asked for stays as it is. *)
LEMMA CrashInv ==
  ASSUME DeskInv, NEW t \in Tickets, Crash(t)
  PROVE  DeskInv'
<1>1. Tables /\ DeskOK(t) /\ Rows(t)
  BY DEF DeskInv, DeskOK
<1>2. UNCHANGED <<ticket, moved, pending, return, scan, alloc, atBank>>
  BY DEF Crash, people
<1>3. CASE refund' = refund
  BY <1>1, <1>2, <1>3, AsideInv DEF Tables
<1>4. CASE refund[t].pc # "idle" /\ refund' = [refund EXCEPT ![t] = Idle]
  <2>1. /\ DOMAIN refund' = Tickets /\ refund'[t] = Idle /\ \A u \in Tickets \ {t} : SameMoney(u)
        /\ DOMAIN alloc' = Tickets /\ DOMAIN atBank' = Tickets
    BY <1>1, <1>2, <1>4 DEF Tables, SameMoney
  <2>2. refund'[t] \in RefundHandler /\ refund'[t].pc = "idle"
    BY <2>1 DEF Idle, RefundHandler
  <2>3. HandlerKnows(t)' /\ RowsMatchBank(t)' /\ (RefundUnderWay(t)' => RefundUnderWay(t))
    BY <1>1, <1>2, <2>2 DEF DeskOK, HandlerKnows, RowsMatchBank, RefundUnderWay
  <2>4. /\ DOMAIN alloc'[t] = Payments /\ \A q \in Payments : alloc'[t][q] \in AllocationRow
        /\ atBank'[t] \in [Payments -> {"none", "pending", "succeeded", "failed"}]
    BY <1>1, <1>2 DEF Rows
  <2>5. QED BY <1>2, <2>1, <2>2, <2>3, <2>4, MoneyStepInv
<1>5. QED BY <1>3, <1>4 DEF Crash

-----------------------------------------------------------------------------
(* The steps that move the ticket or its return with the refund. *)

LEMMA CallFailedInv ==
  ASSUME DeskInv, NEW t \in Tickets, NEW p \in Payments, CallFailed(t, p)
  PROVE  DeskInv'
<1>1. Tables /\ DeskOK(t) /\ Rows(t) /\ HandlerKnows(t) /\ ticket[t] \in TicketRow /\ return[t] \in ReturnRow
  BY DEF DeskInv, DeskOK, Rows
<1>2. /\ UNCHANGED <<moved, pending, scan, atBank>> /\ refund[t].pc = "call" /\ Asking(t, p)
      /\ alloc' = [alloc EXCEPT ![t][p].st = "failed"]
      /\ ticket' = IF ticket[t].status = "void" /\ ~refund[t].started
                   THEN SetStatus(t, "valid") ELSE ticket
      /\ return' = IF ~refund[t].req THEN return
                   ELSE IF refund[t].started THEN [return EXCEPT ![t].st = "review"]
                   ELSE [return EXCEPT ![t] = NoReturn]
      /\ refund' = [refund EXCEPT ![t] = Idle]
  BY DEF CallFailed
<1>3. /\ DOMAIN alloc' = Tickets /\ \A u \in Tickets \ {t} : alloc'[u] = alloc[u]
      /\ DOMAIN alloc'[t] = Payments /\ \A q \in Payments : alloc'[t][q] \in AllocationRow
      /\ \A q \in Payments \ {p} : alloc'[t][q] = alloc[t][q]
      /\ alloc'[t][p].st = "failed"
  BY <1>2, AllocationSet
<1>4. /\ DOMAIN ticket' = Tickets /\ DOMAIN return' = Tickets /\ DOMAIN refund' = Tickets
      /\ \A u \in Tickets \ {t} :
           ticket'[u] = ticket[u] /\ return'[u] = return[u] /\ refund'[u] = refund[u]
      /\ refund'[t] = Idle
      /\ ticket'[t] = IF ticket[t].status = "void" /\ ~refund[t].started
                      THEN [ticket[t] EXCEPT !.status = "valid"] ELSE ticket[t]
      /\ return'[t] = IF ~refund[t].req THEN return[t]
                      ELSE IF refund[t].started THEN [return[t] EXCEPT !.st = "review"] ELSE NoReturn
  BY <1>1, <1>2 DEF Tables, SetStatus
<1>5. Tables' /\ \A u \in Tickets \ {t} : Same(u)
  BY <1>1, <1>2, <1>3, <1>4 DEF Tables, Same, SameMoney
<1>6. /\ ticket'[t] \in TicketRow /\ ticket'[t].holder = ticket[t].holder
      /\ refund[t].started => ticket'[t] = ticket[t]
  BY <1>1, <1>4 DEF TicketRow
<1>7. /\ return'[t] \in ReturnRow
      /\ \/ return'[t] = return[t]
         \/ return'[t].st = "none" /\ ~refund[t].started
         \/ return'[t].st = "review" /\ return'[t].yes = return[t].yes
  <2>1. CASE ~refund[t].req
    <3>1. return'[t] = return[t]
      BY <1>4, <2>1
    <3>2. QED BY <1>1, <3>1
  <2>2. CASE refund[t].req /\ refund[t].started
    <3>1. return'[t] = [return[t] EXCEPT !.st = "review"]
      BY <1>4, <2>2
    <3>2. QED BY <1>1, <3>1 DEF ReturnRow
  <2>3. CASE refund[t].req /\ ~refund[t].started
    BY <1>4, <2>3 DEF ReturnRow, NoReturn
  <2>4. QED BY <2>1, <2>2, <2>3
<1>8. refund'[t] \in RefundHandler /\ refund'[t].pc = "idle"
  BY <1>4 DEF RefundHandler, Idle
<1>9. Unasked(t, p) /\ atBank[t][p] = "none" /\ RefundUnderWay(t)
  BY <1>1, <1>2 DEF Asking, HandlerKnows, RefundUnderWay
<1>10. Rows(t)' /\ HandlerKnows(t)' /\ RowsMatchBank(t)'
  <2>1. Rows(t)'
    BY <1>1, <1>2, <1>3, <1>6, <1>7, <1>8 DEF Rows
  <2>2. HandlerKnows(t)'
    BY <1>8 DEF HandlerKnows
  <2>3. RowsMatchBank(t)'
    BY <1>1, <1>2, <1>3, <1>9 DEF DeskOK, RowsMatchBank
  <2>4. QED BY <2>1, <2>2, <2>3
<1>11. WordsGiven(t)'
  BY <1>1, <1>7 DEF DeskOK, WordsGiven
<1>12. CASE refund[t].started
  <2>1. ticket'[t].status # "valid" /\ ~ticket'[t].redeemed
    BY <1>1, <1>6, <1>9, <1>12 DEF DeskOK, OutOfUse
  <2>2. /\ return'[t].yes = return[t].yes
        /\ return'[t].st = return[t].st \/ return'[t].st = "review"
    BY <1>7, <1>12
  <2>3. DeskOK(t)'
    BY <1>1, <1>2, <1>6, <1>9, <1>10, <1>11, <2>1, <2>2, RefundStepIsOK
  <2>4. QED BY <1>5, <2>3, OneTicketStep
<1>13. CASE ~refund[t].started
  <2>1. \A q \in Payments : alloc[t][q].st \in {"none", "processing"} /\ atBank[t][q] = "none"
    BY <1>1, <1>2, <1>13 DEF HandlerKnows
  <2>2. ~RefundUnderWay(t)'
    BY <1>2, <1>3, <1>8, <2>1 DEF RefundUnderWay
  <2>3. DeskOK(t)'
    BY <1>1, <1>2, <1>6, <1>9, <1>10, <1>11, <2>2, RefundStepIsOK
  <2>4. QED BY <1>5, <2>3, OneTicketStep
<1>14. QED BY <1>12, <1>13

LEMMA MarkRefundedInv ==
  ASSUME DeskInv, NEW t \in Tickets, MarkRefunded(t)
  PROVE  DeskInv'
<1>1. Tables /\ DeskOK(t) /\ Rows(t) /\ HandlerKnows(t)
  BY DEF DeskInv, DeskOK
<1>2. /\ UNCHANGED <<moved, pending, return, alloc, atBank, scan>> /\ refund[t].pc = "mark"
      /\ ticket' = SetStatus(t, "refunded") /\ refund' = [refund EXCEPT ![t].pc = "tell"]
  BY DEF MarkRefunded, people
<1>3. /\ DOMAIN ticket' = Tickets /\ DOMAIN refund' = Tickets
      /\ \A u \in Tickets \ {t} : ticket'[u] = ticket[u] /\ refund'[u] = refund[u]
      /\ ticket'[t] = [ticket[t] EXCEPT !.status = "refunded"]
      /\ refund'[t] = [refund[t] EXCEPT !.pc = "tell"]
  BY <1>1, <1>2 DEF Tables, SetStatus
<1>4. Tables' /\ \A u \in Tickets \ {t} : Same(u)
  BY <1>1, <1>2, <1>3 DEF Tables, Same, SameMoney
<1>5. /\ ticket'[t] \in TicketRow /\ ticket'[t].holder = ticket[t].holder
      /\ ticket'[t].status = "refunded" /\ ticket'[t].redeemed = ticket[t].redeemed
  BY <1>1, <1>3 DEF Rows, TicketRow
<1>6. refund'[t] \in RefundHandler /\ refund'[t].pc = "tell"
  BY <1>1, <1>3 DEF Rows, RefundHandler
<1>7. RefundUnderWay(t) /\ ~ticket[t].redeemed
  BY <1>1, <1>2 DEF RefundUnderWay, DeskOK, OutOfUse
<1>8. Rows(t)'
  BY <1>1, <1>2, <1>5, <1>6 DEF Rows
<1>9. HandlerKnows(t)' /\ RowsMatchBank(t)'
  BY <1>1, <1>2, <1>6 DEF DeskOK, HandlerKnows, RowsMatchBank
<1>10. WordsGiven(t)'
  BY <1>1, <1>2 DEF DeskOK, WordsGiven
<1>11. DeskOK(t)'
  BY <1>1, <1>2, <1>5, <1>7, <1>8, <1>9, <1>10, RefundStepIsOK
<1>12. QED BY <1>4, <1>11, OneTicketStep

LEMMA TellReturnInv ==
  ASSUME DeskInv, NEW t \in Tickets, TellReturn(t)
  PROVE  DeskInv'
<1>1. Tables /\ DeskOK(t) /\ Rows(t)
  BY DEF DeskInv, DeskOK
<1>2. /\ UNCHANGED <<ticket, moved, pending, alloc, atBank, scan>> /\ refund[t].pc = "tell"
      /\ return' = IF refund[t].req THEN [return EXCEPT ![t].st = "refunded"] ELSE return
      /\ refund' = [refund EXCEPT ![t] = Idle]
  BY DEF TellReturn
<1>3. /\ DOMAIN return' = Tickets /\ DOMAIN refund' = Tickets
      /\ \A u \in Tickets \ {t} : return'[u] = return[u] /\ refund'[u] = refund[u]
      /\ return'[t] = IF refund[t].req THEN [return[t] EXCEPT !.st = "refunded"] ELSE return[t]
      /\ refund'[t] = Idle
  BY <1>1, <1>2 DEF Tables
<1>4. Tables' /\ \A u \in Tickets \ {t} : Same(u)
  BY <1>1, <1>2, <1>3 DEF Tables, Same, SameMoney
<1>5. /\ return'[t] \in ReturnRow /\ return'[t].yes = return[t].yes
      /\ return'[t] = return[t] \/ return'[t].st = "refunded"
  BY <1>1, <1>3 DEF Rows, ReturnRow
<1>6. refund'[t] \in RefundHandler /\ refund'[t].pc = "idle"
  BY <1>3 DEF RefundHandler, Idle
<1>7. RefundUnderWay(t) /\ ticket[t].status # "valid" /\ ~ticket[t].redeemed
  BY <1>1, <1>2 DEF RefundUnderWay, DeskOK, OutOfUse
<1>8. Rows(t)'
  BY <1>1, <1>2, <1>5, <1>6 DEF Rows
<1>9. HandlerKnows(t)' /\ RowsMatchBank(t)'
  BY <1>1, <1>2, <1>6 DEF DeskOK, HandlerKnows, RowsMatchBank
<1>10. WordsGiven(t)' /\ (ActiveReturn(t)' => ActiveReturn(t))
  BY <1>1, <1>5 DEF DeskOK, WordsGiven, ActiveReturn
<1>11. DeskOK(t)'
  BY <1>1, <1>2, <1>5, <1>7, <1>8, <1>9, <1>10, RefundStepIsOK
<1>12. QED BY <1>4, <1>11, OneTicketStep

(* A webhook ends a return only when no refund of it can be under way. *)
LEMMA HookReturnInv ==
  ASSUME DeskInv, NEW t \in Tickets, HookReturn(t)
  PROVE  DeskInv'
<1>1. Tables /\ DeskOK(t) /\ Rows(t)
  BY DEF DeskInv, DeskOK
<1>2. /\ UNCHANGED <<ticket, moved, pending, alloc, refund, atBank, scan>>
      /\ return' = IF return[t].st # "refunding" THEN return
                   ELSE IF AllSucceeded(t) THEN [return EXCEPT ![t].st = "refunded"]
                   ELSE IF LiveAllocation(t) THEN [return EXCEPT ![t].st = "review"]
                   ELSE [return EXCEPT ![t] = NoReturn]
  BY DEF HookReturn
<1>3. /\ DOMAIN return' = Tickets /\ \A u \in Tickets \ {t} : return'[u] = return[u]
      /\ return'[t] = IF return[t].st # "refunding" THEN return[t]
                      ELSE IF AllSucceeded(t) THEN [return[t] EXCEPT !.st = "refunded"]
                      ELSE IF LiveAllocation(t) THEN [return[t] EXCEPT !.st = "review"]
                      ELSE NoReturn
  BY <1>1, <1>2 DEF Tables
<1>4. Tables' /\ \A u \in Tickets \ {t} : Same(u)
  BY <1>1, <1>2, <1>3 DEF Tables, Same, SameMoney
<1>5. /\ return'[t] \in ReturnRow
      /\ \/ return'[t] = return[t]
         \/ /\ return'[t].st \in {"refunded", "review"} /\ return'[t].yes = return[t].yes
            /\ return[t].st = "refunding"
         \/ return'[t].st = "none" /\ ~LiveAllocation(t)
  BY <1>1, <1>3 DEF Rows, ReturnRow, NoReturn
<1>6. /\ RefundUnderWay(t)' <=> RefundUnderWay(t)
      /\ HandlerKnows(t)' /\ RowsMatchBank(t)'
  BY <1>1, <1>2, SameMoneyUnderWay DEF SameMoney, DeskOK
<1>7. RefundUnderWay(t) => /\ ticket[t].status # "valid" /\ ~ticket[t].redeemed
                           /\ LiveAllocation(t)
  BY <1>1, NoneLiveNoneUnderWay DEF DeskOK, OutOfUse
<1>8. Rows(t)'
  BY <1>1, <1>2, <1>5 DEF Rows
<1>9. WordsGiven(t)' /\ (ActiveReturn(t)' => ActiveReturn(t))
  BY <1>1, <1>5 DEF DeskOK, WordsGiven, ActiveReturn
<1>10. DeskOK(t)'
  BY <1>1, <1>2, <1>5, <1>6, <1>7, <1>8, <1>9, RefundStepIsOK
<1>11. QED BY <1>4, <1>10, OneTicketStep

(* Neither does it restore a ticket of which a refund is under way. *)
LEMMA HookTicketInv ==
  ASSUME DeskInv, NEW t \in Tickets, HookTicket(t)
  PROVE  DeskInv'
<1>1. Tables /\ DeskOK(t) /\ Rows(t) /\ ticket[t] \in TicketRow
  BY DEF DeskInv, DeskOK, Rows
<1>2. /\ UNCHANGED <<moved, pending, return, alloc, refund, atBank, scan>>
      /\ ticket' = IF AllSucceeded(t) THEN SetStatus(t, "refunded")
                   ELSE IF ~LiveAllocation(t) /\ ticket[t].status = "void" THEN SetStatus(t, "valid")
                   ELSE ticket
  BY DEF HookTicket, people
<1>3. /\ DOMAIN ticket' = Tickets /\ \A u \in Tickets \ {t} : ticket'[u] = ticket[u]
      /\ \/ ticket'[t] = [ticket[t] EXCEPT !.status = "refunded"]
         \/ ~LiveAllocation(t) /\ ticket'[t] = [ticket[t] EXCEPT !.status = "valid"]
         \/ ticket'[t] = ticket[t]
  BY <1>1, <1>2 DEF Tables, SetStatus
<1>4. Tables' /\ \A u \in Tickets \ {t} : Same(u)
  BY <1>1, <1>2, <1>3 DEF Tables, Same, SameMoney
<1>5. /\ ticket'[t] \in TicketRow /\ ticket'[t].holder = ticket[t].holder
      /\ ticket'[t].redeemed = ticket[t].redeemed
      /\ \/ ticket'[t].status \in {"refunded", ticket[t].status}
         \/ ~LiveAllocation(t)
  BY <1>1, <1>3 DEF TicketRow
<1>6. SameMoney(t) /\ (RefundUnderWay(t) => LiveAllocation(t))
  BY <1>1, <1>2, NoneLiveNoneUnderWay DEF SameMoney
<1>7. RefundUnderWay(t) => ticket'[t].status # "valid" /\ ~ticket'[t].redeemed
  BY <1>1, <1>5, <1>6 DEF DeskOK, OutOfUse
<1>8. /\ moved'[t] \in BOOLEAN /\ return'[t] \in ReturnRow /\ pending'[t] \in Operation \cup {None}
      /\ WordsGiven(t)' /\ (pending'[t] # None => ~ActiveReturn(t)' /\ ~RefundUnderWay(t))
  BY <1>1, <1>2 DEF Rows, DeskOK, WordsGiven, Apart, ActiveReturn
<1>9. DeskOK(t)'
  BY <1>1, <1>2, <1>5, <1>6, <1>7, <1>8, HandsAreOK
<1>10. QED BY <1>4, <1>9, OneTicketStep

-----------------------------------------------------------------------------
(* The books: every step keeps the kind of what it writes there. *)

LEMMA LedgerInit == Init => Ledger
<1> SUFFICES ASSUME Init PROVE Ledger
  OBVIOUS
<1>1. \A t \in Tickets : ticket[t].type \in Types /\ ticket[t].amount \in Int
  BY DeskInitInv DEF DeskInv, DeskOK, Rows, TicketRow
<1>2. exchange \in [Exchanges -> ExchangeRow]
  BY DEF Init, ExchangeInit, NoExchange, ExchangeRow, ExchangeStatus
<1>3. paid \in [Tickets -> [Payments -> Int]] /\ back \in [Tickets -> [Payments -> Int]]
  BY <1>1 DEF Init, ExchangeInit
<1>4. assign \in [Tickets -> Operation \cup {None}]
  <2>1. {[to |-> p, from |-> None, open |-> TRUE] : p \in Persons} \subseteq Operation
    <3> SUFFICES ASSUME NEW p \in Persons
                 PROVE  [to |-> p, from |-> None, open |-> TRUE] \in Operation
      OBVIOUS
    <3>1. QED BY DEF Operation
  <2>2. assign \in [Tickets -> {None} \cup
                      {[to |-> p, from |-> None, open |-> TRUE] : p \in Persons}]
    BY DEF Init
  <2>3. QED BY <2>1, <2>2
<1>5. QED BY <1>2, <1>3, <1>4 DEF Ledger

(* An amount added to what went back of some payment. *)
LEMMA BackAdded ==
  ASSUME Ledger, NEW u, NEW p, NEW n \in Int
  PROVE  [back EXCEPT ![u][p] = @ + n] \in [Tickets -> [Payments -> Int]]
<1>1. back \in [Tickets -> [Payments -> Int]]
  BY DEF Ledger
<1>2. CASE u \in Tickets /\ p \in Payments
  BY <1>1, <1>2
<1>3. CASE u \in Tickets /\ p \notin Payments
  BY <1>1, <1>3
<1>4. CASE u \notin Tickets
  BY <1>1, <1>4
<1>5. QED BY <1>2, <1>3, <1>4

(* An exchange's row is reserved, or its status is set. *)
Reserved(e, t, to) ==
  exchange' = [exchange EXCEPT ![e] = [st |-> "processing", of |-> t, from |-> ticket[t].type,
                                       to |-> to, delta |-> Price[to] - ticket[t].amount]]
LEMMA ExchangeStepRow ==
  ASSUME ExchangeStep
  PROVE  \/ exchange' = exchange
         \/ \E e \in Exchanges, t \in Tickets, to \in Types : Reserved(e, t, to)
         \/ \E e \in Exchanges, st \in ExchangeStatus : SetExchange(e, st)
<1> USE DEF ExchangeStatus, ActiveStatuses
<1>1. ASSUME NEW e \in Exchanges, Completed(e) \/ GivenUp(e) \/ CompleteOrThrow(e)
      PROVE  exchange' = exchange \/ \E st \in ExchangeStatus : SetExchange(e, st)
  BY <1>1 DEF Completed, GivenUp, CompleteOrThrow
<1>2. CASE \E t \in Tickets, e \in Exchanges, to \in Types : ReserveExchange(e, t, to)
  <2>1. PICK t \in Tickets, e \in Exchanges, to \in Types : ReserveExchange(e, t, to)
    BY <1>2
  <2>2. Reserved(e, t, to)
    BY <2>1, Zenon DEF ReserveExchange, Reserved
  <2>3. QED BY <2>2
<1>3. ASSUME NEW e \in Exchanges,
             \/ CompleteFree(e) \/ AllocateExchangeRefund(e) \/ CallExchangeRefund(e)
             \/ FinishExchange(e) \/ OpenExchangeSession(e) \/ HookExchangeRefund(e)
             \/ FulfilExchange(e) \/ ExpireExchange(e) \/ ExchangeAnswerLost(e)
      PROVE  \/ exchange' = exchange
             \/ \E st \in ExchangeStatus : SetExchange(e, st)
  BY <1>1, <1>3 DEF CompleteFree, AllocateExchangeRefund, CallExchangeRefund, ExchangeCallFails,
         FinishExchange, OpenExchangeSession, HookExchangeRefund, FulfilExchange, ExpireExchange,
         ExchangeAnswerLost
<1>4. ASSUME NEW e \in Exchanges, PendExchange(e) \/ AwaitPayment(e)
      PROVE  \/ exchange' = exchange
             \/ \E st \in ExchangeStatus : SetExchange(e, st)
  BY <1>4 DEF PendExchange, AwaitPayment
<1>5. ASSUME NEW e \in Exchanges,
             \/ WriteExchangeRefund(e) \/ CheckExchange(e) \/ ExchangeBankSettles(e)
             \/ SessionEnds(e) \/ HookReadsExchange(e) \/ ExchangeStops(e)
      PROVE  exchange' = exchange
  BY <1>5 DEF WriteExchangeRefund, CheckExchange, ExchangeBankSettles, SessionEnds,
         HookReadsExchange, ExchangeStops
<1>6. ASSUME NEW t \in Tickets, UpgradeRefunded(t) PROVE exchange' = exchange
  BY <1>6 DEF UpgradeRefunded, xvars
<1>7. QED BY <1>2, <1>3, <1>4, <1>5, <1>6 DEF ExchangeStep, ExchangeNext

(* Stripe's books: a difference goes back, or is paid. *)
LEMMA ExchangeStepBank ==
  ASSUME ExchangeStep
  PROVE  /\ back' = back \/ \E e \in Exchanges : back' = PaidBack(e)
         /\ \/ paid' = paid
            \/ \E e \in Exchanges :
                 /\ session[e] = "open"
                 /\ paid' = [paid EXCEPT ![exchange[e].of]["upgrade"] = exchange[e].delta]
<1> USE DEF bank
<1>1. ASSUME NEW e \in Exchanges,
             \/ CompleteFree(e) \/ AllocateExchangeRefund(e) \/ WriteExchangeRefund(e)
             \/ PendExchange(e) \/ CheckExchange(e) \/ FinishExchange(e)
             \/ OpenExchangeSession(e) \/ AwaitPayment(e) \/ HookReadsExchange(e)
             \/ HookExchangeRefund(e) \/ FulfilExchange(e) \/ ExpireExchange(e) \/ ExchangeStops(e)
      PROVE  UNCHANGED bank
  BY <1>1 DEF CompleteFree, AllocateExchangeRefund, WriteExchangeRefund, PendExchange,
         CheckExchange, FinishExchange, OpenExchangeSession, AwaitPayment, HookReadsExchange,
         HookExchangeRefund, FulfilExchange, ExpireExchange, ExchangeStops
<1>2. ASSUME NEW e \in Exchanges,
             CallExchangeRefund(e) \/ ExchangeAnswerLost(e) \/ ExchangeBankSettles(e)
      PROVE  paid' = paid /\ (back' = back \/ back' = PaidBack(e))
  BY <1>2 DEF CallExchangeRefund, ExchangeCallFails, ExchangeAnswerLost, ExchangeBankSettles, Refunds
<1>3. ASSUME NEW e \in Exchanges, SessionEnds(e)
      PROVE  /\ back' = back /\ session[e] = "open"
             /\ \/ paid' = paid
                \/ paid' = [paid EXCEPT ![exchange[e].of]["upgrade"] = exchange[e].delta]
  BY <1>3 DEF SessionEnds
<1>4. ASSUME NEW t \in Tickets, \/ \E e \in Exchanges, to \in Types : ReserveExchange(e, t, to)
                                \/ UpgradeRefunded(t)
      PROVE  UNCHANGED bank
  BY <1>4 DEF ReserveExchange, UpgradeRefunded, xvars
<1>5. QED BY <1>1, <1>2, <1>3, <1>4 DEF ExchangeStep, ExchangeNext

(* The rows keep their type, and so do the books. *)
LEMMA RowStatus ==
  ASSUME Ledger, NEW e \in Exchanges, NEW st \in ExchangeStatus, SetExchange(e, st)
  PROVE  exchange' \in [Exchanges -> ExchangeRow]
<1>1. exchange \in [Exchanges -> ExchangeRow] /\ exchange[e] \in ExchangeRow
  BY DEF Ledger
<1>2. [exchange[e] EXCEPT !.st = st] \in ExchangeRow
  BY <1>1 DEF ExchangeRow
<1>3. QED BY <1>1, <1>2 DEF SetExchange

LEMMA RowReserved ==
  ASSUME DeskInv, Ledger, NEW e \in Exchanges, NEW t \in Tickets, NEW to \in Types, Reserved(e, t, to)
  PROVE  exchange' \in [Exchanges -> ExchangeRow]
<1>1. ticket[t].type \in Types /\ ticket[t].amount \in Int /\ Price[to] \in Int
  BY PriceAssumption DEF DeskInv, DeskOK, Rows, TicketRow
<1> DEFINE r == [st |-> "processing", of |-> t, from |-> ticket[t].type, to |-> to,
                 delta |-> Price[to] - ticket[t].amount]
<1>2. r \in ExchangeRow
  BY <1>1 DEF ExchangeRow, ExchangeStatus, ActiveStatuses
<1>3. exchange' = [exchange EXCEPT ![e] = r]
  BY DEF Reserved
<1> HIDE DEF r
<1>4. QED BY <1>2, <1>3 DEF Ledger

LEMMA ExchangeStepLedger ==
  ASSUME DeskInv, Ledger, Exchanging, UNCHANGED assign
  PROVE  Ledger'
<1>1. ExchangeStep
  BY DEF Exchanging, ExchangeStep
<1>2. exchange' \in [Exchanges -> ExchangeRow]
  BY <1>1, ExchangeStepRow, RowStatus, RowReserved DEF Ledger
<1>3. back' \in [Tickets -> [Payments -> Int]]
  <2>1. ASSUME NEW e \in Exchanges PROVE PaidBack(e) \in [Tickets -> [Payments -> Int]]
    <3> DEFINE u == xrefund[e].of
               p == xrefund[e].pay
    <3>1. PaidBack(e) = [back EXCEPT ![u][p] = @ + 1]
      BY DEF PaidBack
    <3> HIDE DEF u, p
    <3>2. [back EXCEPT ![u][p] = @ + 1] \in [Tickets -> [Payments -> Int]]
      <4>1. 1 \in Int
        OBVIOUS
      <4>2. QED BY Zenon, <4>1, BackAdded
    <3>3. QED BY <3>1, <3>2
  <2>2. QED BY <1>1, <2>1, ExchangeStepBank DEF Ledger
<1>4. paid' \in [Tickets -> [Payments -> Int]]
  <2>1. \A e \in Exchanges : exchange[e].delta \in Int
    BY DEF Ledger, ExchangeRow
  <2>2. paid' = paid \/ \E e \in Exchanges :
                          paid' = [paid EXCEPT ![exchange[e].of]["upgrade"] = exchange[e].delta]
    BY <1>1, ExchangeStepBank
  <2>3. ASSUME NEW e \in Exchanges
        PROVE  [paid EXCEPT ![exchange[e].of]["upgrade"] = exchange[e].delta]
                 \in [Tickets -> [Payments -> Int]]
    <3> DEFINE u == exchange[e].of
               n == exchange[e].delta
    <3>1. n \in Int
      BY <2>1
    <3> HIDE DEF u, n
    <3>2. [paid EXCEPT ![u]["upgrade"] = n] \in [Tickets -> [Payments -> Int]]
      BY <3>1 DEF Ledger, Payments
    <3>3. QED BY <3>2 DEF u, n
  <2>4. CASE paid' = paid
    BY <2>4 DEF Ledger
  <2>5. CASE \E e \in Exchanges : paid' = [paid EXCEPT ![exchange[e].of]["upgrade"] = exchange[e].delta]
    BY <2>3, <2>5
  <2>6. QED BY <2>2, <2>4, <2>5
<1>5. QED BY <1>2, <1>3, <1>4 DEF Ledger

LEMMA AssignmentLedger ==
  ASSUME Ledger, NEW t \in Tickets,
         \/ \E p \in Persons : RequestAssignment(t, p)
         \/ AcceptAssignment(t) \/ CancelAssignment(t) \/ ResendAssignment(t) \/ ExpireAssignment(t)
  PROVE  Ledger'
<1>1. assign \in [Tickets -> Operation \cup {None}]
  BY DEF Ledger
<1>2. \E r \in Operation \cup {None} : assign' = [assign EXCEPT ![t] = r]
  <2>1. CASE \E p \in Persons : RequestAssignment(t, p)
    BY <2>1, PeopleAssumption DEF RequestAssignment, Operation
  <2>2. CASE AcceptAssignment(t) \/ CancelAssignment(t)
    BY <2>2 DEF AcceptAssignment, CancelAssignment
  <2>3. CASE ResendAssignment(t)
    <3>1. assign[t] \in Operation /\ assign' = [assign EXCEPT ![t] = [assign[t] EXCEPT !.open = TRUE]]
      BY <1>1, <2>3 DEF ResendAssignment
    <3>2. [assign[t] EXCEPT !.open = TRUE] \in Operation
      BY <3>1 DEF Operation
    <3>3. QED BY <3>1, <3>2
  <2>4. CASE ExpireAssignment(t)
    <3>1. assign[t] \in Operation
      BY <1>1, <2>4 DEF ExpireAssignment
    <3>2. [assign[t] EXCEPT !.open = FALSE] \in Operation
      BY <3>1 DEF Operation
    <3>3. assign' = [assign EXCEPT ![t] = IF assign[t].from = Buyer THEN None
                                          ELSE [assign[t] EXCEPT !.open = FALSE]]
      BY <1>1, <2>4 DEF ExpireAssignment
    <3>4. QED BY <3>2, <3>3
  <2>5. QED BY <2>1, <2>2, <2>3, <2>4
<1>3. assign' \in [Tickets -> Operation \cup {None}]
  BY <1>1, <1>2
<1>4. UNCHANGED <<exchange, paid, back>>
  BY DEF RequestAssignment, AcceptAssignment, CancelAssignment, ResendAssignment, ExpireAssignment,
         money, xvars, bank
<1>5. QED BY <1>3, <1>4 DEF Ledger

(* The handler and Stripe only add an allocation's amount to what went back. *)
LEMMA RefundStepLedger ==
  ASSUME DeskInv, Ledger, NEW t \in Tickets, UNCHANGED <<assign, exchange, paid>>,
         back' = back \/ \E p \in Payments : back' = Reached(t, p)
  PROVE  Ledger'
<1>1. \A p \in Payments : alloc[t][p].amount \in Int
  BY DEF DeskInv, DeskOK, Rows, AllocationRow
<1>2. \A p \in Payments : Reached(t, p) \in [Tickets -> [Payments -> Int]]
  BY <1>1, BackAdded DEF Reached
<1>3. QED BY <1>2 DEF Ledger

-----------------------------------------------------------------------------
(* Every step keeps both. *)

LEMMA HandsInv ==
  ASSUME DeskInv, Ledger, NEW t \in Tickets, Hands(t)
  PROVE  DeskInv' /\ Ledger'
<1>1. CASE \/ \E p \in Persons : RequestAssignment(t, p)
           \/ AcceptAssignment(t) \/ CancelAssignment(t) \/ ResendAssignment(t)
           \/ ExpireAssignment(t)
  BY <1>1, AssignmentInv, AssignmentLedger
<1>2. CASE \/ \E p \in Persons : RequestTransfer(t, p) \/ RequestReturn(t, p) \/ Consent(t, p)
           \/ AcceptTransfer(t) \/ EndTransfer(t) \/ EndReturn(t)
  <2>1. DeskInv'
    BY <1>2, RequestTransferInv, RequestReturnInv, ConsentInv, AcceptTransferInv, EndTransferInv,
       EndReturnInv
  <2>2. UNCHANGED <<exchange, assign, paid, back>>
    BY <1>2 DEF RequestTransfer, RequestReturn, Consent, AcceptTransfer, EndTransfer, EndReturn,
                money, xvars, bank
  <2>3. QED BY <2>1, <2>2 DEF Ledger
<1>3. QED BY <1>1, <1>2 DEF Hands

LEMMA RefundingInv ==
  ASSUME DeskInv, Ledger, NEW t \in Tickets, Refunding(t)
  PROVE  DeskInv' /\ Ledger'
<1>1. CASE StartRefund(t) \/ StartReturnRefund(t)
  <2>1. PICK req \in BOOLEAN : Prepare(t, req)
    BY <1>1 DEF StartRefund, StartReturnRefund
  <2>2. UNCHANGED <<exchange, assign, paid, back>>
    BY <2>1 DEF Prepare, xvars, bank
  <2>3. QED BY <2>1, <2>2, PrepareInv DEF Ledger
<1>2. CASE RefuseReturnRefund(t)
  <2>1. UNCHANGED <<ticket, moved, pending, return, alloc, refund, atBank, scan>>
    BY <1>2 DEF RefuseReturnRefund, people
  <2>2. UNCHANGED <<exchange, assign, paid, back>>
    BY <1>2 DEF RefuseReturnRefund, people, xvars, bank
  <2>3. DeskInv'
    BY <2>1, AsideInv DEF DeskInv, Tables
  <2>4. QED BY <2>2, <2>3 DEF Ledger
<1>3. ASSUME NEW p \in Payments, NEW ans \in {"pending", "succeeded"}, AnswerRefund(t, p, ans)
      PROVE  DeskInv' /\ Ledger'
  <2>1. UNCHANGED <<assign, exchange, paid>> /\ back' \in {back, Reached(t, p)}
    BY <1>3 DEF AnswerRefund, people, exchanging
  <2>2. QED BY <1>3, <2>1, AnswerRefundInv, RefundStepLedger
<1>4. ASSUME NEW p \in Payments, CallFailed(t, p) \/ BankSettles(t, p)
      PROVE  DeskInv' /\ Ledger'
  <2>1. UNCHANGED <<assign, exchange, paid>> /\ back' \in {back, Reached(t, p)}
    BY <1>4 DEF CallFailed, BankSettles, people, exchanging
  <2>2. QED BY <1>4, <2>1, CallFailedInv, BankSettlesInv, RefundStepLedger
<1>5. ASSUME NEW p \in Payments, RecordAnswer(t, p) \/ HookAllocation(t, p)
      PROVE  DeskInv' /\ Ledger'
  <2>1. UNCHANGED <<assign, exchange, paid, back>>
    BY <1>5 DEF RecordAnswer, HookAllocation, people, xvars, bank
  <2>2. QED BY <1>5, <2>1, RecordAnswerInv, HookAllocationInv DEF Ledger
<1>6. CASE MarkRefunded(t) \/ TellReturn(t) \/ HookReturn(t) \/ HookTicket(t) \/ Crash(t)
  <2>1. UNCHANGED <<exchange, assign, paid, back>>
    BY <1>6 DEF MarkRefunded, TellReturn, HookReturn, HookTicket, Crash, people, xvars, bank
  <2>2. QED BY <1>6, <2>1, MarkRefundedInv, TellReturnInv, HookReturnInv, HookTicketInv, CrashInv
            DEF Ledger
<1>7. QED BY <1>1, <1>2, <1>3, <1>4, <1>5, <1>6 DEF Refunding

LEMMA DeskStep ==
  ASSUME DeskInv, Ledger, [Next]_vars
  PROVE  DeskInv' /\ Ledger'
<1>1. ASSUME NEW t \in Tickets, Hands(t) PROVE DeskInv' /\ Ledger'
  BY <1>1, HandsInv
<1>2. ASSUME NEW t \in Tickets, Refunding(t) PROVE DeskInv' /\ Ledger'
  BY <1>2, RefundingInv
<1>3. CASE Exchanging
  <2>1. UNCHANGED assign
    BY <1>3 DEF Exchanging, people
  <2>2. QED BY <1>3, <2>1, ExchangingInv, ExchangeStepLedger
<1>4. ASSUME NEW t \in Tickets, Door(t) PROVE DeskInv' /\ Ledger'
  <2>1. UNCHANGED <<exchange, assign, paid, back>>
    BY <1>4 DEF Door, Look, Unredeem, VoidTicket, people, money, xvars, bank
  <2>2. QED BY <1>4, <2>1, DoorInv DEF Ledger
<1>5. ASSUME NEW d \in Scanners, ClaimRedemption(d) PROVE DeskInv' /\ Ledger'
  <2>1. UNCHANGED <<exchange, assign, paid, back>>
    BY <1>5 DEF ClaimRedemption, people, money, xvars, bank
  <2>2. QED BY <1>5, <2>1, ClaimRedemptionInv DEF Ledger
<1>6. CASE ChargeRefunded
  <2>1. UNCHANGED <<exchange, assign, paid, back>>
    BY <1>6 DEF ChargeRefunded, people, money, xvars, bank
  <2>2. QED BY <1>6, <2>1, ChargeRefundedInv DEF Ledger
<1>7. CASE UNCHANGED vars
  <2>1. UNCHANGED <<ticket, moved, pending, return, alloc, refund, atBank, scan>>
    BY <1>7 DEF vars, people, money
  <2>2. UNCHANGED <<exchange, assign, paid, back>>
    BY <1>7 DEF vars, people, money, xvars, bank
  <2>3. DeskInv'
    BY <2>1, AsideInv DEF DeskInv, Tables
  <2>4. QED BY <2>2, <2>3 DEF Ledger
<1>8. QED BY <1>1, <1>2, <1>3, <1>4, <1>5, <1>6, <1>7 DEF Next

LEMMA DeskInvariant == Spec => [](DeskInv /\ Ledger)
<1>1. Init => DeskInv /\ Ledger
  BY DeskInitInv, LedgerInit
<1>2. DeskInv /\ Ledger /\ [Next]_vars => (DeskInv /\ Ledger)'
  BY DeskStep
<1>3. QED BY <1>1, <1>2, PTL DEF Spec

-----------------------------------------------------------------------------
(* refundTicket, the webhooks and claimRedemption together: whoever has     *)
(* been admitted has no refund asked for, at Stripe, or recorded as paid.   *)
THEOREM AdmittedAreNotRefunded == Spec => []CheckedInHasNoRefund
<1>1. DeskInv => CheckedInHasNoRefund
  BY DEF DeskInv, DeskOK, OutOfUse, CheckedInHasNoRefund
<1>2. QED BY <1>1, DeskInvariant, PTL

(* requestTicketReturn, acceptRefundConsent and refundTicket together: a     *)
(* transferred ticket's refund carries the word of the buyer and of the    *)
(* person who still holds it.                                              *)
THEOREM RefundsAreAgreed == Spec => []BothConsented
<1>1. DeskInv => BothConsented
  BY DEF DeskInv, DeskOK, Agreed, BothConsented
<1>2. QED BY <1>1, DeskInvariant, PTL

(* acceptTransfer, requestTicketReturn and refundTicket together: a transfer *)
(* that can still be accepted is of a ticket with no return and no refund.   *)
THEOREM TransfersAndReturnsApart == Spec => []TransferExcludesReturn
<1>1. DeskInv => TransferExcludesReturn
  BY DEF DeskInv, DeskOK, Apart, TransferExcludesReturn
<1>2. QED BY <1>1, DeskInvariant, PTL

-----------------------------------------------------------------------------
(* The amounts. *)

(* What exchanges and a refund have moved at Stripe and the ticket's amount *)
(* does not show: a difference that went back or was paid before its        *)
(* exchange completes, and the allocations that were refunded.             *)
Owing == {e \in Exchanges : xbank[e] = "succeeded" /\ applied[e] = 0}
Owed == Cardinality(Owing)
Prepaying == \E e \in Exchanges : session[e] = "paid" /\ applied[e] = 0
Prepaid(t) == IF Prepaying THEN paid[t]["upgrade"] ELSE 0
ExchangeMoved(t) == Owed - Prepaid(t)
Refunded(t, p) == IF atBank[t][p] = "succeeded" THEN alloc[t][p].amount ELSE 0
RefundMoved(t) == Refunded(t, "base") + Refunded(t, "upgrade")

Kept(t) == paid[t]["base"] - back[t]["base"] + paid[t]["upgrade"] - back[t]["upgrade"]

(* With exchanges only the books of a single ticket add up: a difference   *)
(* may be refunded from another ticket's upgrade, whose amount then shows  *)
(* nothing of it.  And no change may have been made twice.                 *)
Single == "exchange" \in Acts => \A t, u \in Tickets : t = u
OnceEach == \A e \in Exchanges : applied[e] <= 1
Balanced(t) ==
  Single /\ ~lost[t] /\ OnceEach => ticket[t].amount = Kept(t) + ExchangeMoved(t) + RefundMoved(t)

RefundStatus == {"none", "processing", "pending", "succeeded", "failed"}
BankStatus == {"none", "pending", "succeeded", "failed"}
Steps == {"idle", "complete", "allocate", "call", "write", "pend", "check", "finish", "session", "await"}
ExchangeTables ==
  /\ xrefund \in [Exchanges -> [of : Tickets \cup {None}, pay : Payments, st : RefundStatus]]
  /\ xhandler \in [Exchanges -> [pc : Steps, ans : {"none", "pending", "succeeded"}]]
  /\ xhook \in [Exchanges -> [ev : BankStatus, open : BOOLEAN]]
  /\ xbank \in [Exchanges -> BankStatus]
  /\ session \in [Exchanges -> {"none", "open", "paid", "expired"}]
  /\ applied \in [Exchanges -> Nat]
  /\ lost \in [Tickets -> BOOLEAN]

(* What a ticket costs, and what an exchange may make of it: a ticket that *)
(* cost nothing is only upgraded, by one exchange, and costs its price     *)
(* ever after.                                                             *)
TicketPriced(t) == ticket[t].amount \in {0, Price[ticket[t].type]}
OneActive(t) == \A e, f \in ExchangesOf(t) : Active(e) /\ Active(f) => e = f
Priced(e) ==
  LET x == exchange[e]
      k == ticket[x.of]
  IN x.of \in Tickets =>
       /\ x.st # "none"
       /\ x.delta <= 0 => k.amount # 0
       /\ x.delta <= 0 \/ (Active(e) /\ k.amount # 0) => x.delta = Price[x.to] - Price[x.from]
       /\ Active(e) /\ k.amount = 0 => k.type = x.from /\ x.delta = Price[x.to]

(* Where beginTicketExchange stands. *)
HandlerStands(e) ==
  LET pc == xhandler[e].pc IN
  /\ pc # "idle" => exchange[e].of \in Tickets
  /\ pc \in {"complete", "allocate", "call", "session", "await"} =>
       exchange[e].st = "processing" /\ applied[e] = 0 /\ xbank[e] = "none"
  /\ pc = "complete" => exchange[e].delta = 0
  /\ pc \in {"allocate", "call"} => exchange[e].delta = -1
  /\ pc = "call" => xrefund[e].of \in Tickets
  /\ pc \in {"session", "await"} => exchange[e].delta > 0
  /\ pc = "session" => session[e] = "none"
  /\ pc = "write" => xhandler[e].ans # "none"
  /\ pc \in {"write", "pend", "check", "finish"} => xbank[e] # "none"
  /\ pc \in {"check", "finish"} \/ (pc = "write" /\ xhandler[e].ans = "succeeded") =>
       xbank[e] = "succeeded"

(* A refund of a difference, and the webhook that tells of it. *)
RefundStands(e) ==
  /\ xbank[e] # "none" =>
       exchange[e].delta = -1 /\ exchange[e].of \in Tickets /\ xrefund[e].of \in Tickets
  /\ xhook[e] # NoHook => xbank[e] # "none"
  /\ xhook[e].ev = "succeeded" => xbank[e] = "succeeded"

(* A checkout for one, which is paid once for a ticket. *)
SessionStands(e) ==
  /\ exchange[e].st = "awaiting" \/ session[e] # "none" => exchange[e].delta > 0
  /\ session[e] = "open" \/ (session[e] = "paid" /\ applied[e] = 0) => Active(e)
  /\ session[e] = "paid" => paid[exchange[e].of]["upgrade"] = exchange[e].delta
  /\ Active(e) /\ exchange[e].delta > 0 /\ session[e] # "paid" =>
       paid[exchange[e].of]["upgrade"] = 0

(* What was applied had gone back or was paid, and is not on its way. *)
AppliedStands(e) ==
  /\ applied[e] > 0 => /\ exchange[e].of \in Tickets
                       /\ xbank[e] \in {"none", "succeeded"} /\ session[e] \in {"none", "paid"}
  /\ exchange[e].st = "completed" => applied[e] > 0

RowOK(e) ==
  Priced(e) /\ HandlerStands(e) /\ RefundStands(e) /\ SessionStands(e) /\ AppliedStands(e)
TicketOK(t) == TicketPriced(t) /\ OneActive(t) /\ Balanced(t)
AccountsInv ==
  ExchangeTables /\ (\A t \in Tickets : TicketOK(t)) /\ \A e \in Exchanges : RowOK(e)
(* The steps that are no exchange's leave what a ticket is and costs. *)

PricesKept ==
  \A u \in Tickets : ticket'[u].type = ticket[u].type /\ ticket'[u].amount = ticket[u].amount

(* A refund moves what its allocation says, while Stripe has it. *)
LEMMA RefundMovedSame ==
  ASSUME NEW u \in Tickets,
         \A p \in Payments : /\ atBank'[u][p] = atBank[u][p]
                             /\ alloc'[u][p].amount = alloc[u][p].amount
  PROVE  RefundMoved(u)' = RefundMoved(u)
  BY DEF RefundMoved, Refunded, Payments

(* There are only so many rows. *)
LEMMA OwedIsNat == IsFiniteSet(Owing) /\ Owed \in Nat
<1>1. Owing \in SUBSET Exchanges
  BY DEF Owing
<1>2. QED BY <1>1, ExchangesAssumption, FS_Subset, FS_CardinalityType DEF Owed

(* What exchanges read and write of a row and of its ticket is as it was. *)
LEMMA RowKept ==
  ASSUME NEW e \in Exchanges, RowOK(e), exchange'[e] = exchange[e],
         xrefund'[e] = xrefund[e], xhandler'[e] = xhandler[e], xhook'[e] = xhook[e],
         xbank'[e] = xbank[e], session'[e] = session[e], applied'[e] = applied[e],
         exchange[e].of \in Tickets =>
           /\ ticket'[exchange[e].of].type = ticket[exchange[e].of].type
           /\ ticket'[exchange[e].of].amount = ticket[exchange[e].of].amount,
         paid'[exchange[e].of] = paid[exchange[e].of]
  PROVE  RowOK(e)'
<1>1. Priced(e)' /\ HandlerStands(e)'
  BY DEF RowOK, Priced, HandlerStands, Active
<1>2. RefundStands(e)' /\ SessionStands(e)' /\ AppliedStands(e)'
  BY DEF RowOK, RefundStands, SessionStands, AppliedStands, Active
<1>3. QED BY <1>1, <1>2 DEF RowOK

(* Nothing that the balance is made of has changed. *)
LEMMA StillBalanced ==
  ASSUME NEW u \in Tickets, Balanced(u), ticket'[u].amount = ticket[u].amount,
         UNCHANGED <<xbank, session, applied, paid>>,
         back'[u] = back[u], lost'[u] = lost[u], RefundMoved(u)' = RefundMoved(u)
  PROVE  Balanced(u)'
<1>1. ExchangeMoved(u)' = ExchangeMoved(u)
  BY DEF ExchangeMoved, Owed, Owing, Prepaid, Prepaying
<1>2. Kept(u)' = Kept(u)
  BY DEF Kept
<1>3. QED BY <1>1, <1>2 DEF Balanced, OnceEach

(* Such a step keeps the books if every ticket's stay balanced. *)
LEMMA BalancedStep ==
  ASSUME AccountsInv, PricesKept, UNCHANGED exchanging,
         lost' \in [Tickets -> BOOLEAN], \A u \in Tickets : Balanced(u)'
  PROVE  AccountsInv'
<1>1. UNCHANGED <<exchange, xrefund, xhandler, xhook, xbank, session, paid, applied>>
  BY DEF exchanging, xhistory
<1>2. ExchangeTables'
  BY <1>1 DEF AccountsInv, ExchangeTables
<1>3. \A e \in Exchanges : RowOK(e)'
  BY <1>1, RowKept DEF AccountsInv, PricesKept
<1>4. \A u \in Tickets : TicketPriced(u)' /\ OneActive(u)'
  BY <1>1 DEF AccountsInv, TicketOK, PricesKept, TicketPriced, OneActive, Active, ExchangesOf
<1>5. QED BY <1>2, <1>3, <1>4 DEF AccountsInv, TicketOK

(* A step that leaves Stripe's books alone. *)
LEMMA BooksUntouched ==
  ASSUME AccountsInv, PricesKept, UNCHANGED <<exchanging, back, lost>>,
         \A u \in Tickets : RefundMoved(u)' = RefundMoved(u)
  PROVE  AccountsInv'
<1>1. \A u \in Tickets : Balanced(u)'
  BY StillBalanced DEF AccountsInv, TicketOK, PricesKept, exchanging, xhistory
<1>2. QED BY <1>1, BalancedStep DEF AccountsInv, ExchangeTables

(* A new status changes neither type nor amount. *)
LEMMA StatusKeepsPrices ==
  ASSUME DeskInv, NEW t \in Tickets, NEW s \in {"valid", "void", "refunded"},
         ticket' = SetStatus(t, s)
  PROVE  PricesKept
<1>1. DOMAIN ticket = Tickets /\ ticket[t] \in TicketRow
  BY DEF DeskInv, Tables, DeskOK, Rows
<1>2. \A u \in Tickets : ticket'[u] = IF u = t THEN [ticket[u] EXCEPT !.status = s] ELSE ticket[u]
  BY <1>1 DEF SetStatus
<1>3. QED BY <1>1, <1>2 DEF PricesKept, TicketRow

(* The people's steps and the door's. *)
LEMMA PeopleKeepPrices ==
  ASSUME DeskInv, NEW t \in Tickets, Hands(t) \/ Door(t)
  PROVE  PricesKept
<1>1. DOMAIN ticket = Tickets /\ ticket[t] \in TicketRow
  BY DEF DeskInv, Tables, DeskOK, Rows
<1>2. CASE ticket' = ticket
  BY <1>2 DEF PricesKept
<1>3. CASE ticket' = SetStatus(t, "void")
  BY <1>3, StatusKeepsPrices
<1>4. CASE \E p : ticket' = Attach(t, p)
  <2>1. PICK p : ticket' = [ticket EXCEPT ![t].holder = p, ![t].ref = @ + 1]
    BY <1>4 DEF Attach
  <2>2. \A u \in Tickets : u # t => ticket'[u] = ticket[u]
    BY <1>1, <2>1
  <2>3. ticket'[t] = [ticket[t] EXCEPT !.holder = p, !.ref = @ + 1]
    BY <1>1, <2>1
  <2>4. ticket'[t].type = ticket[t].type /\ ticket'[t].amount = ticket[t].amount
    BY <1>1, <2>3 DEF TicketRow
  <2>5. QED BY <2>2, <2>4 DEF PricesKept
<1>5. CASE Unredeem(t)
  <2>1. \A u \in Tickets : ticket'[u] = IF u = t THEN [ticket[u] EXCEPT !.redeemed = FALSE]
                                        ELSE ticket[u]
    BY <1>1, <1>5 DEF Unredeem
  <2>2. QED BY <1>1, <2>1 DEF PricesKept, TicketRow
<1>6. Hands(t) => \/ ticket' = ticket \/ ticket' = SetStatus(t, "void")
                  \/ \E p : ticket' = Attach(t, p)
  BY DEF Hands, RequestAssignment, AcceptAssignment, CancelAssignment, ResendAssignment,
         ExpireAssignment, RequestTransfer, AcceptTransfer, EndTransfer, RequestReturn, Consent,
         EndReturn
<1>7. Door(t) => ticket' = ticket \/ ticket' = SetStatus(t, "void") \/ Unredeem(t)
  BY DEF Door, Look, VoidTicket
<1>8. QED BY <1>2, <1>3, <1>4, <1>5, <1>6, <1>7

(* None of them is about money. *)
LEMMA PeopleAccounts ==
  ASSUME DeskInv, AccountsInv, NEW t \in Tickets, Hands(t) \/ Door(t)
  PROVE  AccountsInv'
<1>1. UNCHANGED <<exchanging, back, lost, alloc, atBank>>
  <2>1. Hands(t) => UNCHANGED <<exchanging, back, lost, alloc, atBank>>
    BY DEF Hands, RequestAssignment, AcceptAssignment, CancelAssignment, ResendAssignment,
           ExpireAssignment, RequestTransfer, AcceptTransfer, EndTransfer, RequestReturn, Consent,
           EndReturn, money, xvars, bank, exchanging
  <2>2. Door(t) => UNCHANGED <<exchanging, back, lost, alloc, atBank>>
    BY DEF Door, Look, Unredeem, VoidTicket, money, xvars, bank, exchanging
  <2>3. QED BY <2>1, <2>2
<1>2. \A u \in Tickets : RefundMoved(u)' = RefundMoved(u)
  BY <1>1, RefundMovedSame
<1>3. PricesKept
  BY PeopleKeepPrices
<1>4. QED BY <1>1, <1>2, <1>3, BooksUntouched

(* Nor is the claim of an admission. *)
LEMMA ScanAccounts ==
  ASSUME DeskInv, AccountsInv, NEW d \in Scanners, ClaimRedemption(d)
  PROVE  AccountsInv'
<1>1. UNCHANGED <<exchanging, back, lost, alloc, atBank>>
  BY DEF ClaimRedemption, money, xvars, bank, exchanging
<1>2. \A u \in Tickets : RefundMoved(u)' = RefundMoved(u)
  BY <1>1, RefundMovedSame
<1>3. PricesKept
  <2>1. CASE ticket' = ticket
    BY <2>1 DEF PricesKept
  <2>2. CASE ticket' = [ticket EXCEPT ![scan[d]].redeemed = TRUE]
    <3>1. DOMAIN ticket = Tickets /\ \A u \in Tickets : ticket[u] \in TicketRow
      BY DEF DeskInv, Tables, DeskOK, Rows
    <3>2. \A u \in Tickets : ticket'[u] = IF u = scan[d] THEN [ticket[u] EXCEPT !.redeemed = TRUE]
                                          ELSE ticket[u]
      BY <3>1, <2>2
    <3>3. QED BY <3>1, <3>2 DEF PricesKept, TicketRow
  <2>3. QED BY <2>1, <2>2 DEF ClaimRedemption
<1>4. QED BY <1>1, <1>2, <1>3, BooksUntouched

(* charge.refunded sets statuses. *)
LEMMA ChargeAccounts ==
  ASSUME DeskInv, AccountsInv, ChargeRefunded
  PROVE  AccountsInv'
<1>1. UNCHANGED <<exchanging, back, lost, alloc, atBank>>
  BY DEF ChargeRefunded, money, xvars, bank, exchanging
<1>2. \A u \in Tickets : RefundMoved(u)' = RefundMoved(u)
  BY <1>1, RefundMovedSame
<1>3. PricesKept
  <2>1. \A u \in Tickets : ticket[u] \in TicketRow
    BY DEF DeskInv, DeskOK, Rows
  <2>2. \A u \in Tickets : ticket'[u] \in {ticket[u], [ticket[u] EXCEPT !.status = "refunded"]}
    BY DEF ChargeRefunded
  <2>3. QED BY <2>1, <2>2 DEF PricesKept, TicketRow
<1>4. QED BY <1>1, <1>2, <1>3, BooksUntouched

-----------------------------------------------------------------------------
(* refundTicket and its webhooks. *)

(* Where no refund was paid, none has moved money. *)
LEMMA NothingRefunded ==
  ASSUME NEW u \in Tickets, \A p \in Payments : atBank[u][p] # "succeeded"
  PROVE  RefundMoved(u) = 0
  BY DEF RefundMoved, Refunded, Payments

(* The new allocations replace those of a refund that failed. *)
LEMMA PrepareAccounts ==
  ASSUME DeskInv, AccountsInv, NEW t \in Tickets, NEW req \in BOOLEAN, Prepare(t, req)
  PROVE  AccountsInv'
<1>1. Tables /\ DeskOK(t)
  BY DEF DeskInv
<1>2. /\ UNCHANGED <<exchanging, back, lost>>
      /\ ticket' = SetStatus(t, "void") /\ ticket[t].status = "valid"
      /\ alloc' = [alloc EXCEPT ![t] = [p \in Payments |-> Allocated(t, p)]]
      /\ atBank' = [atBank EXCEPT ![t] = [p \in Payments |-> "none"]]
  BY DEF Prepare, Refundable, Usable, xvars, bank, exchanging
<1>3. \A u \in Tickets : RefundMoved(u)' = RefundMoved(u)
  <2>1. ASSUME NEW u \in Tickets \ {t} PROVE RefundMoved(u)' = RefundMoved(u)
    <3>1. alloc'[u] = alloc[u] /\ atBank'[u] = atBank[u]
      BY <1>1, <1>2 DEF Tables
    <3>2. QED BY <3>1, RefundMovedSame
  <2>2. \A p \in Payments : atBank[t][p] # "succeeded"
    BY <1>1, <1>2, ValidNotUnderWay DEF RefundUnderWay
  <2>3. \A p \in Payments : atBank'[t][p] = "none"
    BY <1>1, <1>2 DEF Tables
  <2>4. RefundMoved(t)' = 0
    BY <2>3 DEF RefundMoved, Refunded, Payments
  <2>5. QED BY <2>1, <2>2, <2>4, NothingRefunded
<1>4. PricesKept
  BY <1>2, StatusKeepsPrices
<1>5. QED BY <1>2, <1>3, <1>4, BooksUntouched

(* A refund that arrives is in Stripe's books by the amount allocated. *)
LEMMA ArrivalAccounts ==
  ASSUME DeskInv, Ledger, AccountsInv, NEW t \in Tickets, NEW p \in Payments,
         NEW s \in {"pending", "failed", "succeeded"}, atBank[t][p] \in {"none", "pending"},
         UNCHANGED <<ticket, alloc, lost, exchanging>>, atBank' = [atBank EXCEPT ![t][p] = s],
         back' = IF s = "succeeded" THEN Reached(t, p) ELSE back
  PROVE  AccountsInv'
<1>1. Tables /\ DeskOK(t) /\ Rows(t)
  BY DEF DeskInv, DeskOK
<1>2. UNCHANGED <<exchange, xbank, session, applied, paid>>
  BY DEF exchanging, xhistory
<1>3. /\ \A u \in Tickets \ {t} : atBank'[u] = atBank[u]
      /\ atBank'[t] = [atBank[t] EXCEPT ![p] = s]
  BY <1>1 DEF Tables
<1>4. atBank'[t][p] = s /\ \A q \in Payments \ {p} : atBank'[t][q] = atBank[t][q]
  BY <1>1, <1>3 DEF Rows
<1>5. /\ \A u \in Tickets \ {t} : back'[u] = back[u]
      /\ \A q \in Payments \ {p} : back'[t][q] = back[t][q]
      /\ back'[t][p] = IF s = "succeeded" THEN back[t][p] + alloc[t][p].amount ELSE back[t][p]
  BY DEF Ledger, Reached
<1>6. PricesKept
  BY DEF PricesKept
<1>7. ASSUME NEW u \in Tickets \ {t} PROVE Balanced(u)'
  <2>1. RefundMoved(u)' = RefundMoved(u)
    BY <1>3, RefundMovedSame
  <2>2. QED BY <1>2, <1>5, <2>1, StillBalanced DEF AccountsInv, TicketOK
<1>8. Balanced(t)'
  <2>1. /\ \A q \in Payments : paid[t][q] \in Int /\ back[t][q] \in Int /\ alloc[t][q].amount \in Int
        /\ paid'[t] = paid[t] /\ alloc'[t] = alloc[t] /\ ticket'[t] = ticket[t] /\ lost'[t] = lost[t]
    BY <1>1, <1>2 DEF Ledger, Rows, AllocationRow
  <2> DEFINE n == IF s = "succeeded" THEN alloc[t][p].amount ELSE 0
  <2>2. n \in Int
    BY <2>1
  <2>3. back'[t][p] = back[t][p] + n
    BY <1>5, <2>1
  <2>4. Refunded(t, p)' = Refunded(t, p) + n
    BY <1>4, <2>1 DEF Refunded
  <2>5. \A q \in Payments \ {p} : Refunded(t, q)' = Refunded(t, q)
    BY <1>4, <2>1 DEF Refunded
  <2>6. \A q \in Payments : Refunded(t, q) \in Int
    BY <2>1 DEF Refunded
  <2> HIDE DEF n
  <2>7. RefundMoved(t)' = RefundMoved(t) + n /\ RefundMoved(t) \in Int
    BY <2>2, <2>4, <2>5, <2>6 DEF RefundMoved, Payments
  <2>8. Kept(t)' = Kept(t) - n /\ Kept(t) \in Int
    BY <1>5, <2>1, <2>2, <2>3 DEF Kept, Payments
  <2>9. ExchangeMoved(t)' = ExchangeMoved(t) /\ ExchangeMoved(t) \in Int
    <3>1. ExchangeMoved(t)' = ExchangeMoved(t)
      BY <1>2 DEF ExchangeMoved, Owed, Owing, Prepaid, Prepaying
    <3>2. Prepaid(t) \in Int
      BY <2>1 DEF Prepaid, Payments
    <3>3. QED BY <3>1, <3>2, OwedIsNat DEF ExchangeMoved
  <2>10. Balanced(t) /\ ticket'[t].amount = ticket[t].amount
    BY <2>1 DEF AccountsInv, TicketOK
  <2>11. OnceEach' <=> OnceEach
    BY <1>2 DEF OnceEach
  <2>12. QED BY <2>1, <2>2, <2>7, <2>8, <2>9, <2>10, <2>11 DEF Balanced
<1>9. QED BY <1>2, <1>6, <1>7, <1>8, BalancedStep DEF AccountsInv, ExchangeTables

(* An allocation's status and reference are written, its amount never. *)
LEMMA AllocationKeepsAmount ==
  ASSUME DeskInv, NEW t \in Tickets, NEW p \in Payments, NEW st,
         \/ alloc' = [alloc EXCEPT ![t][p].st = st]
         \/ alloc' = [alloc EXCEPT ![t][p].st = st, ![t][p].ref = TRUE]
  PROVE  \A u \in Tickets, q \in Payments : alloc'[u][q].amount = alloc[u][q].amount
<1>1. DOMAIN alloc = Tickets /\ DOMAIN alloc[t] = Payments /\ alloc[t][p] \in AllocationRow
  BY DEF DeskInv, Tables, DeskOK, Rows
<1>2. CASE alloc' = [alloc EXCEPT ![t][p].st = st]
  <2>1. /\ \A u \in Tickets \ {t} : alloc'[u] = alloc[u]
        /\ \A q \in Payments \ {p} : alloc'[t][q] = alloc[t][q]
        /\ alloc'[t][p] = [alloc[t][p] EXCEPT !.st = st]
    BY <1>1, <1>2
  <2>2. QED BY <1>1, <2>1 DEF AllocationRow
<1>3. CASE alloc' = [alloc EXCEPT ![t][p].st = st, ![t][p].ref = TRUE]
  <2>1. /\ \A u \in Tickets \ {t} : alloc'[u] = alloc[u]
        /\ \A q \in Payments \ {p} : alloc'[t][q] = alloc[t][q]
        /\ alloc'[t][p] = [[alloc[t][p] EXCEPT !.st = st] EXCEPT !.ref = TRUE]
    BY <1>1, <1>3
  <2>2. QED BY <1>1, <2>1 DEF AllocationRow
<1>4. QED BY <1>2, <1>3

(* A refund whose answer got lost is the one thing the amount does not show. *)
LEMMA CallFailedAccounts ==
  ASSUME DeskInv, Ledger, AccountsInv, NEW t \in Tickets, NEW p \in Payments, CallFailed(t, p)
  PROVE  AccountsInv'
<1>1. /\ UNCHANGED <<exchanging, atBank>>
      /\ alloc' = [alloc EXCEPT ![t][p].st = "failed"]
      /\ \/ UNCHANGED <<back, lost>>
         \/ back' = Reached(t, p) /\ lost' = [lost EXCEPT ![t] = TRUE]
      /\ ticket' = ticket \/ ticket' = SetStatus(t, "valid")
  BY DEF CallFailed, exchanging
<1>2. PricesKept
  <2>1. ticket' = ticket => PricesKept
    BY DEF PricesKept
  <2>2. QED BY <1>1, <2>1, StatusKeepsPrices
<1>3. \A u \in Tickets : RefundMoved(u)' = RefundMoved(u)
  BY <1>1, AllocationKeepsAmount, RefundMovedSame
<1>4. CASE UNCHANGED <<back, lost>>
  BY <1>1, <1>2, <1>3, <1>4, BooksUntouched
<1>5. CASE back' = Reached(t, p) /\ lost' = [lost EXCEPT ![t] = TRUE]
  <2>1. lost \in [Tickets -> BOOLEAN]
    BY DEF AccountsInv, ExchangeTables
  <2>2. lost' \in [Tickets -> BOOLEAN] /\ lost'[t] /\ \A u \in Tickets \ {t} : lost'[u] = lost[u]
    BY <1>5, <2>1
  <2>3. \A u \in Tickets \ {t} : back'[u] = back[u]
    BY <1>5 DEF Ledger, Reached
  <2>4. ASSUME NEW u \in Tickets \ {t} PROVE Balanced(u)'
    BY <1>1, <1>2, <1>3, <2>2, <2>3, StillBalanced
       DEF AccountsInv, TicketOK, PricesKept, exchanging, xhistory
  <2>5. Balanced(t)'
    BY <2>2 DEF Balanced
  <2>6. QED BY <1>1, <1>2, <2>2, <2>4, <2>5, BalancedStep
<1>6. QED BY <1>1, <1>4, <1>5

(* All of it together. *)
LEMMA RefundingAccounts ==
  ASSUME DeskInv, Ledger, AccountsInv, NEW t \in Tickets, Refunding(t)
  PROVE  AccountsInv'
<1> DEFINE Rest == UNCHANGED <<exchanging, back, lost>>
<1>1. CASE StartRefund(t) \/ StartReturnRefund(t)
  <2>1. PICK req \in BOOLEAN : Prepare(t, req)
    BY <1>1 DEF StartRefund, StartReturnRefund
  <2>2. QED BY <2>1, PrepareAccounts
<1>2. ASSUME NEW p \in Payments, NEW ans \in {"pending", "succeeded"}, AnswerRefund(t, p, ans)
      PROVE  AccountsInv'
  <2>1. refund[t].pc = "call" /\ Unasked(t, p) /\ DeskOK(t)
    BY <1>2 DEF AnswerRefund, Asking, DeskInv
  <2>2. atBank[t][p] = "none"
    BY <2>1 DEF DeskOK, HandlerKnows
  <2>3. /\ UNCHANGED <<ticket, alloc, lost, exchanging>> /\ atBank' = [atBank EXCEPT ![t][p] = ans]
        /\ back' = IF ans = "succeeded" THEN Reached(t, p) ELSE back
    BY <1>2 DEF AnswerRefund
  <2>4. QED BY <2>2, <2>3, ArrivalAccounts
<1>3. ASSUME NEW p \in Payments, BankSettles(t, p) PROVE AccountsInv'
  <2>1. PICK s \in {"failed", "succeeded"} :
          /\ atBank' = [atBank EXCEPT ![t][p] = s]
          /\ back' = IF s = "succeeded" THEN Reached(t, p) ELSE back
    BY <1>3 DEF BankSettles
  <2>2. atBank[t][p] = "pending" /\ UNCHANGED <<ticket, alloc, lost, exchanging>>
    BY <1>3 DEF BankSettles
  <2>3. QED BY <2>1, <2>2, ArrivalAccounts
<1>4. ASSUME NEW p \in Payments, CallFailed(t, p) PROVE AccountsInv'
  BY <1>4, CallFailedAccounts
<1>5. ASSUME NEW p \in Payments, RecordAnswer(t, p) \/ HookAllocation(t, p) PROVE AccountsInv'
  <2>1. Rest /\ UNCHANGED <<ticket, atBank>>
    BY <1>5 DEF RecordAnswer, HookAllocation, xvars, bank, exchanging
  <2>2. \E st : \/ alloc' = [alloc EXCEPT ![t][p].st = st]
                \/ alloc' = [alloc EXCEPT ![t][p].st = st, ![t][p].ref = TRUE]
    BY <1>5 DEF RecordAnswer, HookAllocation
  <2>3. \A u \in Tickets : RefundMoved(u)' = RefundMoved(u)
    BY <2>1, <2>2, AllocationKeepsAmount, RefundMovedSame
  <2>4. PricesKept
    BY <2>1 DEF PricesKept
  <2>5. QED BY <2>1, <2>3, <2>4, BooksUntouched
<1>6. CASE RefuseReturnRefund(t) \/ MarkRefunded(t) \/ TellReturn(t) \/ HookReturn(t)
             \/ HookTicket(t) \/ Crash(t)
  <2>1. Rest /\ UNCHANGED <<alloc, atBank>>
    BY <1>6 DEF RefuseReturnRefund, MarkRefunded, TellReturn, HookReturn, HookTicket, Crash, xvars,
                bank, exchanging
  <2>2. \A u \in Tickets : RefundMoved(u)' = RefundMoved(u)
    BY <2>1, RefundMovedSame
  <2>3. PricesKept
    <3>1. \/ ticket' = ticket
          \/ \E s \in {"valid", "void", "refunded"} : ticket' = SetStatus(t, s)
      BY <1>6 DEF RefuseReturnRefund, MarkRefunded, TellReturn, HookReturn, HookTicket, Crash
    <3>2. ticket' = ticket => PricesKept
      BY DEF PricesKept
    <3>3. QED BY <3>1, <3>2, StatusKeepsPrices
  <2>4. QED BY <2>1, <2>2, <2>3, BooksUntouched
<1>7. QED BY <1>1, <1>2, <1>3, <1>4, <1>5, <1>6 DEF Refunding


-----------------------------------------------------------------------------
(* The exchanges: a step is one row's, or voids a ticket. *)
RowStep(e) ==
  \/ \E t \in Tickets, to \in Types : ReserveExchange(e, t, to)
  \/ CompleteFree(e) \/ AllocateExchangeRefund(e) \/ CallExchangeRefund(e)
  \/ WriteExchangeRefund(e) \/ PendExchange(e) \/ CheckExchange(e) \/ FinishExchange(e)
  \/ OpenExchangeSession(e) \/ AwaitPayment(e)
  \/ ExchangeBankSettles(e) \/ SessionEnds(e)
  \/ HookReadsExchange(e) \/ HookExchangeRefund(e) \/ FulfilExchange(e) \/ ExpireExchange(e)
  \/ ExchangeAnswerLost(e) \/ ExchangeStops(e)

LEMMA StepsOfRows ==
  ASSUME ExchangeStep
  PROVE  (\E e \in Exchanges : RowStep(e)) \/ (\E t \in Tickets : UpgradeRefunded(t))
  BY Zenon DEF ExchangeStep, ExchangeNext, RowStep

(* The other rows stay as they are. *)
OtherRow(f) ==
  /\ exchange'[f] = exchange[f] /\ xrefund'[f] = xrefund[f] /\ xhandler'[f] = xhandler[f]
  /\ xhook'[f] = xhook[f] /\ xbank'[f] = xbank[f] /\ session'[f] = session[f]
  /\ applied'[f] = applied[f]

LEMMA OtherRowsKept ==
  ASSUME ExchangeTables, Ledger, NEW e \in Exchanges, RowStep(e), NEW f \in Exchanges \ {e}
  PROVE  OtherRow(f)
<1> USE DEF RowStep, ReserveExchange, CompleteFree, AllocateExchangeRefund, CallExchangeRefund,
            ExchangeCallFails, ExchangeAnswerLost, WriteExchangeRefund, PendExchange, CheckExchange,
            FinishExchange, OpenExchangeSession, AwaitPayment, ExchangeBankSettles, SessionEnds,
            HookReadsExchange, HookExchangeRefund, FulfilExchange, ExpireExchange, ExchangeStops,
            xhistory
<1>1. exchange'[f] = exchange[f] /\ applied'[f] = applied[f]
  BY DEF ExchangeTables, Ledger, SetExchange, CompleteOrThrow, Completed, GivenUp
<1>2. xrefund'[f] = xrefund[f]
  BY DEF ExchangeTables
<1>3. xhandler'[f] = xhandler[f]
  BY DEF ExchangeTables, To, Done
<1>4. xhook'[f] = xhook[f]
  BY DEF ExchangeTables
<1>5. xbank'[f] = xbank[f] /\ session'[f] = session[f]
  BY DEF ExchangeTables, Refunds
<1>6. QED BY <1>1, <1>2, <1>3, <1>4, <1>5 DEF OtherRow

(* The tables keep their types. *)
LEMMA ExchangeTablesStep ==
  ASSUME ExchangeTables, NEW e \in Exchanges, RowStep(e), UNCHANGED lost
  PROVE  ExchangeTables'
<1> DEFINE RefundRow == [of : Tickets \cup {None}, pay : Payments, st : RefundStatus]
           Handler == [pc : Steps, ans : {"none", "pending", "succeeded"}]
           Hook == [ev : BankStatus, open : BOOLEAN]
<1> USE DEF RowStep, ReserveExchange, CompleteFree, AllocateExchangeRefund, CallExchangeRefund,
            ExchangeCallFails, ExchangeAnswerLost, WriteExchangeRefund, PendExchange, CheckExchange,
            FinishExchange, OpenExchangeSession, AwaitPayment, ExchangeBankSettles, SessionEnds,
            HookReadsExchange, HookExchangeRefund, FulfilExchange, ExpireExchange, ExchangeStops
<1>1. /\ xrefund \in [Exchanges -> RefundRow] /\ xhandler \in [Exchanges -> Handler]
      /\ xhook \in [Exchanges -> Hook] /\ xbank \in [Exchanges -> BankStatus]
      /\ session \in [Exchanges -> {"none", "open", "paid", "expired"}]
      /\ applied \in [Exchanges -> Nat] /\ lost \in [Tickets -> BOOLEAN]
  BY DEF ExchangeTables
<1>2. xrefund[e] \in RefundRow /\ xhandler[e] \in Handler /\ xhook[e] \in Hook
  BY <1>1
<1>3. xrefund' \in [Exchanges -> RefundRow]
  <2>1. \/ xrefund' = xrefund
        \/ \E st \in RefundStatus : xrefund' = [xrefund EXCEPT ![e].st = st]
        \/ \E u \in Tickets, p \in Payments :
             xrefund' = [xrefund EXCEPT ![e] = [of |-> u, pay |-> p, st |-> "processing"]]
    BY <1>2 DEF RefundStatus, BankStatus
  <2>2. ASSUME NEW st \in RefundStatus, xrefund' = [xrefund EXCEPT ![e].st = st]
        PROVE  xrefund' \in [Exchanges -> RefundRow]
    <3>1. [xrefund[e] EXCEPT !.st = st] \in RefundRow
      BY <1>2
    <3>2. xrefund' = [xrefund EXCEPT ![e] = [xrefund[e] EXCEPT !.st = st]]
      BY <1>1, <2>2
    <3> HIDE DEF RefundRow
    <3>3. QED BY <1>1, <3>1, <3>2
  <2>3. ASSUME NEW u \in Tickets, NEW p \in Payments,
               xrefund' = [xrefund EXCEPT ![e] = [of |-> u, pay |-> p, st |-> "processing"]]
        PROVE  xrefund' \in [Exchanges -> RefundRow]
    BY <1>1, <2>3 DEF RefundStatus
  <2> HIDE DEF RefundRow
  <2>4. QED BY <1>1, <2>1, <2>2, <2>3
<1>4. xhandler' \in [Exchanges -> Handler]
  <2>1. \/ xhandler' = xhandler
        \/ \E pc \in Steps : To(e, pc)
        \/ \E pc \in Steps, a \in {"none", "pending", "succeeded"} :
             xhandler' = [xhandler EXCEPT ![e] = [pc |-> pc, ans |-> a]]
    BY <1>2 DEF Done, ExchangeIdle, Steps
  <2>2. ASSUME NEW pc \in Steps, To(e, pc) PROVE xhandler' \in [Exchanges -> Handler]
    <3>1. [xhandler[e] EXCEPT !.pc = pc] \in Handler
      BY <1>2
    <3>2. xhandler' = [xhandler EXCEPT ![e] = [xhandler[e] EXCEPT !.pc = pc]]
      BY <1>1, <2>2 DEF To
    <3> HIDE DEF Handler
    <3>3. QED BY <1>1, <3>1, <3>2
  <2>3. ASSUME NEW pc \in Steps, NEW a \in {"none", "pending", "succeeded"},
               xhandler' = [xhandler EXCEPT ![e] = [pc |-> pc, ans |-> a]]
        PROVE  xhandler' \in [Exchanges -> Handler]
    BY <1>1, <2>3
  <2> HIDE DEF Handler
  <2>4. QED BY <1>1, <2>1, <2>2, <2>3
<1>5. xhook' \in [Exchanges -> Hook]
  <2>1. \/ xhook' = xhook
        \/ \E v \in Hook : xhook' = [xhook EXCEPT ![e] = v]
    <3>1. NoHook \in Hook
      BY DEF NoHook, BankStatus
    <3>2. [ev |-> xbank[e], open |-> exchange[e].st # "completed"] \in Hook
      BY <1>1
    <3>3. \/ xhook' = xhook \/ xhook' = [xhook EXCEPT ![e] = NoHook]
          \/ xhook' = [xhook EXCEPT ![e] = [ev |-> xbank[e], open |-> exchange[e].st # "completed"]]
      OBVIOUS
    <3> HIDE DEF Hook
    <3>4. QED BY <3>1, <3>2, <3>3
  <2> HIDE DEF Hook
  <2>2. QED BY <1>1, <2>1
<1>6. xbank' \in [Exchanges -> BankStatus]
  <2>1. xbank' = xbank \/ \E s \in BankStatus : xbank' = [xbank EXCEPT ![e] = s]
    BY DEF Refunds, BankStatus
  <2>2. QED BY <1>1, <2>1
<1>7. session' \in [Exchanges -> {"none", "open", "paid", "expired"}]
  <2>1. \/ session' = session
        \/ \E s \in {"open", "paid", "expired"} : session' = [session EXCEPT ![e] = s]
    OBVIOUS
  <2>2. QED BY <1>1, <2>1
<1>8. applied' \in [Exchanges -> Nat]
  <2>1. applied' = applied \/ applied' = [applied EXCEPT ![e] = @ + 1]
    BY DEF xhistory, CompleteOrThrow, Completed, GivenUp
  <2>2. QED BY <1>1, <2>1
<1>9. QED BY <1>1, <1>3, <1>4, <1>5, <1>6, <1>7, <1>8 DEF ExchangeTables


-----------------------------------------------------------------------------
(* What the provers have to know of a row. *)
Standing(e) ==
  exchange[e] \in ExchangeRow /\ DOMAIN exchange = Exchanges /\ ExchangeTables /\ RowOK(e)

LEMMA RowStands ==
  ASSUME Ledger, AccountsInv, NEW e \in Exchanges
  PROVE  Standing(e)
  BY DEF Ledger, AccountsInv, Standing

SameTerms(e) ==
  /\ exchange'[e].of = exchange[e].of /\ exchange'[e].from = exchange[e].from
  /\ exchange'[e].to = exchange[e].to /\ exchange'[e].delta = exchange[e].delta

(* The status of a row is written, the rest of it stays. *)
LEMMA StatusSet ==
  ASSUME NEW e \in Exchanges, Standing(e), NEW st, SetExchange(e, st)
  PROVE  exchange'[e].st = st /\ SameTerms(e)
<1>1. exchange'[e] = [exchange[e] EXCEPT !.st = st]
  BY DEF SetExchange, Standing
<1>2. exchange[e] \in ExchangeRow
  BY DEF Standing
<1>3. QED BY <1>1, <1>2 DEF ExchangeRow, SameTerms

(* The handler goes on to its next step, or answers. *)
LEMMA HandlerMoved ==
  ASSUME NEW e \in Exchanges, Standing(e), NEW pc, To(e, pc)
  PROVE  xhandler'[e].pc = pc /\ xhandler'[e].ans = xhandler[e].ans
<1>1. xhandler'[e] = [xhandler[e] EXCEPT !.pc = pc]
  BY DEF To, Standing, ExchangeTables
<1>2. QED BY <1>1 DEF Standing, ExchangeTables

LEMMA HandlerDone ==
  ASSUME NEW e \in Exchanges, Standing(e), Done(e)
  PROVE  xhandler'[e].pc = "idle" /\ HandlerStands(e)'
<1>1. xhandler'[e].pc = "idle"
  BY DEF Done, Standing, ExchangeTables, ExchangeIdle
<1>2. QED BY <1>1 DEF HandlerStands

(* A row keeps its rules where only its status, its handler, its webhook or *)
(* the refund's row is written.                                            *)
LEMMA WrittenRow ==
  ASSUME NEW e \in Exchanges, Standing(e), UNCHANGED <<ticket, paid>>, SameTerms(e),
         xbank'[e] = xbank[e], session'[e] = session[e], applied'[e] = applied[e],
         xrefund[e].of \in Tickets => xrefund'[e].of \in Tickets, HandlerStands(e)',
         \/ xhook'[e] \in {xhook[e], NoHook}
         \/ xhook'[e].ev = xbank[e] /\ xbank[e] # "none",
         \/ exchange'[e].st = exchange[e].st
         \/ exchange'[e].st = "failed" /\ (session[e] = "open" => FALSE)
              /\ (session[e] = "paid" => applied[e] # 0)
         \/ exchange'[e].st = "refund_pending" /\ xbank[e] # "none"
         \/ exchange'[e].st = "awaiting" /\ exchange[e].st = "processing" /\ exchange[e].delta > 0
  PROVE  RowOK(e)'
<1>1. exchange[e].delta \in Int /\ (exchange[e].of \notin Tickets => exchange[e].delta = 0)
  BY DEF Standing, ExchangeRow
<1>2. xbank[e] # "none" => exchange[e].delta = -1 /\ session[e] = "none"
  BY DEF Standing, RowOK, RefundStands, SessionStands
<1>3. Active(e)' /\ ~Active(e) => exchange'[e].st = "refund_pending" /\ exchange[e].delta = -1
  BY <1>2 DEF Active, ActiveStatuses, SameTerms
<1>4. Priced(e)'
  BY <1>1, <1>3 DEF Standing, RowOK, Priced, SameTerms
<1>5. RefundStands(e)'
  <2>1. RefundStands(e)
    BY DEF Standing, RowOK
  <2>2. NoHook.ev = "none"
    BY DEF NoHook
  <2>3. /\ xhook'[e] # NoHook => xbank[e] # "none"
        /\ xhook'[e].ev = "succeeded" => xbank[e] = "succeeded"
    BY <2>1, <2>2 DEF RefundStands
  <2>4. QED BY <2>1, <2>3 DEF RefundStands, SameTerms
<1>6. SessionStands(e)'
  BY <1>1, <1>2, <1>3 DEF Standing, RowOK, SessionStands, SameTerms, Active, ActiveStatuses
<1>7. AppliedStands(e)'
  BY DEF Standing, RowOK, AppliedStands, SameTerms
<1>8. QED BY <1>4, <1>5, <1>6, <1>7 DEF RowOK

-----------------------------------------------------------------------------
(* A ticket keeps at most one row under way. *)
Alone(e) ==
  exchange'[e].of \in Tickets /\ Active(e)' =>
    \A f \in Exchanges \ {e} : exchange[f].of = exchange'[e].of => ~Active(f)

LEMMA StillAlone ==
  ASSUME AccountsInv, NEW e \in Exchanges, exchange'[e].of = exchange[e].of, Active(e)' => Active(e)
  PROVE  Alone(e)
  BY DEF AccountsInv, TicketOK, OneActive, ExchangesOf, Alone

LEMMA OneActiveStep ==
  ASSUME AccountsInv, NEW e \in Exchanges, \A f \in Exchanges \ {e} : OtherRow(f), Alone(e)
  PROVE  \A t \in Tickets : OneActive(t)'
<1> SUFFICES ASSUME NEW t \in Tickets, NEW f \in Exchanges, NEW g \in Exchanges, f # g,
                    exchange'[f].of = t, exchange'[g].of = t, Active(f)', Active(g)'
             PROVE  FALSE
  BY DEF OneActive, ExchangesOf
<1>1. \A x \in Exchanges \ {e} : exchange'[x] = exchange[x] /\ (Active(x)' <=> Active(x))
  BY DEF OtherRow, Active
<1>2. OneActive(t)
  BY DEF AccountsInv, TicketOK
<1>3. CASE f # e /\ g # e
  BY <1>1, <1>2, <1>3 DEF OneActive, ExchangesOf
<1>4. CASE f = e \/ g = e
  BY <1>1, <1>4 DEF Alone
<1>5. QED BY <1>3, <1>4

(* A row's step keeps the books if it keeps its row's rules, the others'     *)
(* and the tickets'.                                                       *)
LEMMA RowStepKeeps ==
  ASSUME Ledger, AccountsInv, NEW e \in Exchanges, RowStep(e), UNCHANGED lost, Alone(e), RowOK(e)',
         \A f \in Exchanges \ {e} : RowOK(f)',
         \A t \in Tickets : TicketPriced(t)' /\ Balanced(t)'
  PROVE  AccountsInv'
<1>1. ExchangeTables' /\ \A f \in Exchanges \ {e} : OtherRow(f)
  BY ExchangeTablesStep, OtherRowsKept DEF AccountsInv
<1>2. \A t \in Tickets : TicketOK(t)'
  BY <1>1, OneActiveStep DEF TicketOK
<1>3. QED BY <1>1, <1>2 DEF AccountsInv

(* A step that leaves the ticket and Stripe's books alone. *)
LEMMA QuietStep ==
  ASSUME Ledger, AccountsInv, NEW e \in Exchanges, RowStep(e), Alone(e), RowOK(e)',
         UNCHANGED <<ticket, bank, alloc, atBank, lost>>, applied'[e] = applied[e],
         xbank'[e] = "succeeded" <=> xbank[e] = "succeeded",
         session'[e] = "paid" <=> session[e] = "paid"
  PROVE  AccountsInv'
<1>1. \A f \in Exchanges \ {e} : OtherRow(f)
  BY OtherRowsKept DEF AccountsInv
<1>2. \A f \in Exchanges \ {e} : RowOK(f)'
  BY <1>1, RowKept DEF AccountsInv, OtherRow, bank
<1>3. Owing' = Owing /\ (Prepaying' <=> Prepaying) /\ (OnceEach' <=> OnceEach)
  BY <1>1 DEF Owing, Prepaying, OnceEach, OtherRow
<1>4. ASSUME NEW t \in Tickets PROVE TicketPriced(t)' /\ Balanced(t)'
  <2>1. TicketPriced(t) /\ Balanced(t)
    BY DEF AccountsInv, TicketOK
  <2>2. RefundMoved(t)' = RefundMoved(t)
    BY RefundMovedSame
  <2>3. ExchangeMoved(t)' = ExchangeMoved(t) /\ Kept(t)' = Kept(t)
    BY <1>3 DEF ExchangeMoved, Owed, Prepaid, Kept, bank
  <2>4. QED BY <1>3, <2>1, <2>2, <2>3 DEF TicketPriced, Balanced
<1>5. QED BY <1>2, <1>4, RowStepKeeps


-----------------------------------------------------------------------------
(* The writes of the handlers. *)

(* A status is written to the refund's row. *)
LEMMA RefundStatusSet ==
  ASSUME NEW e \in Exchanges, ExchangeTables, NEW st, xrefund' = [xrefund EXCEPT ![e].st = st]
  PROVE  xrefund'[e].of = xrefund[e].of
<1>1. xrefund'[e] = [xrefund[e] EXCEPT !.st = st]
  BY DEF ExchangeTables
<1>2. QED BY <1>1 DEF ExchangeTables

(* A handler goes on, a webhook reads, or one of them ends. *)
LEMMA SteppingAccounts ==
  ASSUME Ledger, AccountsInv, NEW e \in Exchanges, UNCHANGED <<alloc, atBank, lost>>,
         \/ WriteExchangeRefund(e) \/ CheckExchange(e) \/ HookReadsExchange(e) \/ ExchangeStops(e)
  PROVE  AccountsInv'
<1>1. Standing(e) /\ RowStep(e)
  BY RowStands DEF RowStep
<1>2. ExchangeTables /\ HandlerStands(e)
  BY <1>1 DEF Standing, RowOK
<1>3. UNCHANGED <<ticket, exchange, xbank, session, bank, applied>>
  BY DEF WriteExchangeRefund, CheckExchange, HookReadsExchange, ExchangeStops, xhistory
<1>4. SameTerms(e) /\ Alone(e)
  <2>1. SameTerms(e) /\ (Active(e)' => Active(e))
    BY <1>3 DEF SameTerms, Active
  <2>2. QED BY <2>1, StillAlone DEF SameTerms
<1>5. CASE WriteExchangeRefund(e)
  <2>1. xhandler[e].pc = "write" /\ xhook' = xhook
        /\ xrefund' = [xrefund EXCEPT ![e].st = xhandler[e].ans]
        /\ To(e, IF xhandler[e].ans = "pending" THEN "pend" ELSE "check")
    BY <1>5 DEF WriteExchangeRefund
  <2>2. xrefund'[e].of = xrefund[e].of
    BY <1>2, <2>1, RefundStatusSet
  <2>3. xhandler'[e].pc = IF xhandler[e].ans = "pending" THEN "pend" ELSE "check"
    BY <1>1, <2>1, HandlerMoved
  <2>4. xhandler[e].ans \in {"none", "pending", "succeeded"}
    BY <1>2 DEF ExchangeTables
  <2>5. HandlerStands(e)'
    BY <1>2, <1>3, <2>1, <2>3, <2>4 DEF HandlerStands
  <2>6. RowOK(e)'
    BY <1>1, <1>3, <1>4, <2>1, <2>2, <2>5, WrittenRow DEF bank
  <2>7. QED BY <1>1, <1>3, <1>4, <2>6, QuietStep
<1>6. CASE CheckExchange(e)
  <2>1. xhandler[e].pc = "check" /\ UNCHANGED <<xhook, xrefund>> /\ (Done(e) \/ To(e, "finish"))
    BY <1>6 DEF CheckExchange
  <2>2. CASE To(e, "finish")
    <3>1. xhandler'[e].pc = "finish"
      BY <1>1, <2>2, HandlerMoved
    <3>2. HandlerStands(e)'
      BY <1>2, <1>3, <2>1, <3>1 DEF HandlerStands
    <3>3. QED BY <1>1, <1>3, <1>4, <2>1, <3>2, WrittenRow, QuietStep DEF bank
  <2>3. CASE Done(e)
    BY <1>1, <1>3, <1>4, <2>1, <2>3, HandlerDone, WrittenRow, QuietStep DEF bank
  <2>4. QED BY <2>1, <2>2, <2>3
<1>7. CASE HookReadsExchange(e)
  <2>1. /\ xbank[e] # "none" /\ UNCHANGED <<xhandler, xrefund>>
        /\ xhook' = [xhook EXCEPT ![e] = [ev |-> xbank[e], open |-> exchange[e].st # "completed"]]
    BY <1>7 DEF HookReadsExchange
  <2>2. xhook'[e].ev = xbank[e]
    BY <1>2, <2>1 DEF ExchangeTables
  <2>3. HandlerStands(e)'
    BY <1>2, <1>3, <2>1 DEF HandlerStands
  <2>4. QED BY <1>1, <1>3, <1>4, <2>1, <2>2, <2>3, WrittenRow, QuietStep DEF bank
<1>8. CASE ExchangeStops(e)
  <2>1. xrefund' = xrefund
    BY <1>8 DEF ExchangeStops
  <2>2. HandlerStands(e)' /\ xhook'[e] \in {xhook[e], NoHook}
    <3>1. CASE Done(e) /\ UNCHANGED xhook
      BY <1>1, <3>1, HandlerDone
    <3>2. CASE xhook' = [xhook EXCEPT ![e] = NoHook] /\ UNCHANGED xhandler
      BY <1>2, <1>3, <2>1, <3>2 DEF HandlerStands, ExchangeTables
    <3>3. QED BY <1>8, <3>1, <3>2 DEF ExchangeStops
  <2>3. QED BY <1>1, <1>3, <1>4, <2>1, <2>2, WrittenRow, QuietStep DEF bank
<1>9. QED BY <1>5, <1>6, <1>7, <1>8

(* A row is left for the webhook, or for its payment. *)
LEMMA WaitingAccounts ==
  ASSUME Ledger, AccountsInv, NEW e \in Exchanges, UNCHANGED <<alloc, atBank, lost>>,
         PendExchange(e) \/ AwaitPayment(e)
  PROVE  AccountsInv'
<1>1. Standing(e) /\ RowStep(e)
  BY RowStands DEF RowStep
<1>2. HandlerStands(e)
  BY <1>1 DEF Standing, RowOK
<1>3. /\ UNCHANGED <<ticket, xrefund, xhook, xbank, session, bank, applied>> /\ Done(e)
  BY DEF PendExchange, AwaitPayment, xhistory
<1>4. HandlerStands(e)'
  BY <1>1, <1>3, HandlerDone
<1>5. CASE exchange' = exchange
  <2>1. SameTerms(e) /\ (Active(e)' => Active(e))
    BY <1>5 DEF SameTerms, Active
  <2>2. Alone(e)
    BY <2>1, StillAlone DEF SameTerms
  <2>3. QED BY <1>1, <1>3, <1>4, <1>5, <2>1, <2>2, WrittenRow, QuietStep DEF bank
<1>6. CASE PendExchange(e) /\ SetExchange(e, "refund_pending")
           /\ ~(\E x \in ExchangesOf(exchange[e].of) \ {e} : Active(x))
  <2>1. exchange'[e].st = "refund_pending" /\ SameTerms(e) /\ xbank[e] # "none"
    BY <1>1, <1>2, <1>6, StatusSet DEF PendExchange, HandlerStands
  <2>2. Alone(e)
    BY <1>6, <2>1 DEF Alone, SameTerms, ExchangesOf
  <2>3. QED BY <1>1, <1>3, <1>4, <2>1, <2>2, WrittenRow, QuietStep DEF bank
<1>7. CASE AwaitPayment(e)
  <2>1. /\ exchange'[e].st = "awaiting" /\ SameTerms(e)
        /\ exchange[e].st = "processing" /\ exchange[e].delta > 0
    BY <1>1, <1>2, <1>7, StatusSet DEF AwaitPayment, HandlerStands
  <2>2. Active(e)
    BY <2>1 DEF Active, ActiveStatuses
  <2>3. Alone(e)
    BY <2>1, <2>2, StillAlone DEF SameTerms
  <2>4. QED BY <1>1, <1>3, <1>4, <2>1, <2>3, WrittenRow, QuietStep DEF bank
<1>8. QED BY <1>5, <1>6, <1>7 DEF PendExchange

(* A row is given up: no checkout for it is open or paid. *)
LEMMA GivenUpAccounts ==
  ASSUME Ledger, AccountsInv, NEW e \in Exchanges, RowStep(e), GivenUp(e),
         UNCHANGED <<session, bank, alloc, atBank, lost>>, xbank'[e] = xbank[e],
         session[e] \notin {"open", "paid"}, HandlerStands(e)',
         xrefund'[e].of = xrefund[e].of, xhook'[e] \in {xhook[e], NoHook}
  PROVE  AccountsInv'
<1>1. Standing(e)
  BY RowStands
<1>2. exchange'[e].st = "failed" /\ SameTerms(e) /\ UNCHANGED <<ticket, applied>>
  BY <1>1, StatusSet DEF GivenUp
<1>3. Alone(e)
  BY <1>2, StillAlone DEF SameTerms, Active, ActiveStatuses
<1>4. RowOK(e)'
  BY <1>1, <1>2, WrittenRow DEF bank
<1>5. QED BY <1>2, <1>3, <1>4, QuietStep

(* A refund or an unpaid row has no checkout that could still bring money. *)
LEMMA NoSession ==
  ASSUME NEW e \in Exchanges, Standing(e),
         \/ xbank[e] # "none" \/ xhandler[e].pc \in {"allocate", "call", "session"}
         \/ session[e] = "expired"
  PROVE  session[e] \notin {"open", "paid"}
  BY DEF Standing, RowOK, HandlerStands, RefundStands, SessionStands

(* A payment that has the difference is named, or the exchange given up. *)
LEMMA AllocateAccounts ==
  ASSUME Ledger, AccountsInv, NEW e \in Exchanges, UNCHANGED <<alloc, atBank, lost>>,
         AllocateExchangeRefund(e)
  PROVE  AccountsInv'
<1>1. Standing(e) /\ RowStep(e) /\ HandlerStands(e) /\ ExchangeTables
  BY RowStands DEF RowStep, Standing, RowOK
<1>2. xhandler[e].pc = "allocate" /\ UNCHANGED <<xhook, xbank, session, bank>>
  BY DEF AllocateExchangeRefund
<1>3. CASE GivenUp(e) /\ Done(e) /\ UNCHANGED xrefund
  BY <1>1, <1>2, <1>3, HandlerDone, NoSession, GivenUpAccounts
<1>4. ASSUME NEW u \in Tickets, NEW p \in Payments,
             xrefund' = [xrefund EXCEPT ![e] = [of |-> u, pay |-> p, st |-> "processing"]],
             To(e, "call"), UNCHANGED <<ticket, exchange, applied>>
      PROVE  AccountsInv'
  <2>1. xhandler'[e].pc = "call" /\ xrefund'[e].of \in Tickets
    BY <1>1, <1>4, HandlerMoved DEF ExchangeTables
  <2>2. HandlerStands(e)'
    BY <1>1, <1>2, <1>4, <2>1 DEF HandlerStands
  <2>3. SameTerms(e) /\ (Active(e)' => Active(e))
    BY <1>4 DEF SameTerms, Active
  <2>4. Alone(e)
    BY <2>3, StillAlone DEF SameTerms
  <2>5. QED BY <1>1, <1>2, <1>4, <2>1, <2>2, <2>3, <2>4, WrittenRow, QuietStep DEF bank
<1>5. QED BY <1>3, <1>4 DEF AllocateExchangeRefund

(* Nothing was paid. *)
LEMMA ExpireAccounts ==
  ASSUME Ledger, AccountsInv, NEW e \in Exchanges, UNCHANGED <<alloc, atBank, lost>>,
         ExpireExchange(e)
  PROVE  AccountsInv'
<1>1. Standing(e) /\ RowStep(e) /\ HandlerStands(e)
  BY RowStands DEF RowStep, Standing, RowOK
<1>2. /\ exchange[e].st = "awaiting" /\ session[e] = "expired" /\ GivenUp(e)
      /\ UNCHANGED <<xrefund, xhandler, xhook, xbank, session, bank>>
  BY DEF ExpireExchange
<1>3. SameTerms(e)
  BY <1>1, <1>2, StatusSet DEF GivenUp
<1>4. HandlerStands(e)'
  BY <1>1, <1>2, <1>3 DEF HandlerStands, SameTerms
<1>5. QED BY <1>1, <1>2, <1>4, NoSession, GivenUpAccounts

(* The checkout for the difference is opened. *)
LEMMA OpenSessionAccounts ==
  ASSUME Ledger, AccountsInv, NEW e \in Exchanges, UNCHANGED <<alloc, atBank, lost>>,
         OpenExchangeSession(e)
  PROVE  AccountsInv'
<1>1. Standing(e) /\ RowStep(e) /\ HandlerStands(e) /\ ExchangeTables /\ RowOK(e)
  BY RowStands DEF RowStep, Standing, RowOK
<1>2. xhandler[e].pc = "session" /\ UNCHANGED <<xrefund, xhook, xbank, bank>>
  BY DEF OpenExchangeSession
<1>3. CASE GivenUp(e) /\ Done(e) /\ UNCHANGED session
  BY <1>1, <1>2, <1>3, HandlerDone, NoSession, GivenUpAccounts
<1>4. CASE session' = [session EXCEPT ![e] = "open"] /\ To(e, "await")
           /\ UNCHANGED <<ticket, exchange, applied>>
  <2>1. session'[e] = "open" /\ xhandler'[e].pc = "await"
    BY <1>1, <1>4, HandlerMoved DEF ExchangeTables
  <2>2. /\ session[e] = "none" /\ exchange[e].st = "processing" /\ applied[e] = 0
        /\ xbank[e] = "none" /\ exchange[e].delta > 0
    BY <1>1, <1>2 DEF HandlerStands
  <2>3. HandlerStands(e)'
    BY <1>1, <1>2, <1>4, <2>1, <2>2 DEF HandlerStands
  <2>4. Priced(e)' /\ RefundStands(e)'
    BY <1>1, <1>2, <1>4 DEF RowOK, Priced, RefundStands, Active
  <2>5. SessionStands(e)' /\ AppliedStands(e)'
    BY <1>1, <1>2, <1>4, <2>1, <2>2
       DEF RowOK, SessionStands, AppliedStands, Active, ActiveStatuses, bank
  <2>6. Alone(e)
    BY <1>4, StillAlone DEF Active
  <2>7. RowOK(e)'
    BY <2>3, <2>4, <2>5 DEF RowOK
  <2>8. QED BY <1>1, <1>2, <1>4, <2>1, <2>2, <2>6, <2>7, QuietStep
<1>5. QED BY <1>3, <1>4 DEF OpenExchangeSession


-----------------------------------------------------------------------------
(* The sums: they all are integers. *)
Numbers(t) ==
  /\ ticket[t] \in TicketRow /\ ticket[t].amount \in Int
  /\ \A p \in Payments : paid[t][p] \in Int /\ back[t][p] \in Int
  /\ Kept(t) \in Int /\ ExchangeMoved(t) \in Int /\ RefundMoved(t) \in Int
  /\ Owed \in Nat /\ Prepaid(t) \in Int

LEMMA AccountNumbers ==
  ASSUME DeskInv, Ledger, NEW t \in Tickets
  PROVE  Numbers(t)
<1>1. ticket[t] \in TicketRow /\ ticket[t].amount \in Int
  BY DEF DeskInv, DeskOK, Rows, TicketRow
<1>2. \A p \in Payments : paid[t][p] \in Int /\ back[t][p] \in Int
  BY DEF Ledger
<1>3. Kept(t) \in Int /\ Prepaid(t) \in Int
  BY <1>2 DEF Kept, Prepaid, Payments
<1>4. Owed \in Nat /\ ExchangeMoved(t) \in Int
  BY <1>3, OwedIsNat DEF ExchangeMoved
<1>5. RefundMoved(t) \in Int
  <2>1. \A p \in Payments : alloc[t][p].amount \in Int
    BY DEF DeskInv, DeskOK, Rows, AllocationRow
  <2>2. \A p \in Payments : Refunded(t, p) \in Int
    BY <2>1 DEF Refunded
  <2>3. QED BY <2>2 DEF RefundMoved, Payments
<1>6. QED BY <1>1, <1>2, <1>3, <1>4, <1>5 DEF Numbers

(* The amount changes by what the exchange moved and what Stripe keeps. *)
LEMMA StepBalanced ==
  ASSUME NEW t \in Tickets, Numbers(t), Balanced(t), UNCHANGED <<alloc, atBank, lost>>,
         NEW a \in Int, NEW k \in Int, NEW m \in Int, OnceEach' => OnceEach,
         ticket'[t].amount = ticket[t].amount + a, Kept(t)' = Kept(t) + k,
         ExchangeMoved(t)' = ExchangeMoved(t) + m, a = k + m
  PROVE  Balanced(t)'
<1>1. RefundMoved(t)' = RefundMoved(t)
  BY RefundMovedSame
<1>2. QED BY <1>1 DEF Balanced, Numbers

(* A change is never undone. *)
LEMMA OnceEachBefore ==
  ASSUME ExchangeTables, NEW e \in Exchanges, \A f \in Exchanges \ {e} : OtherRow(f),
         applied'[e] \in {applied[e], applied[e] + 1}
  PROVE  OnceEach' => OnceEach /\ (applied'[e] # applied[e] => applied[e] = 0)
<1>1. \A f \in Exchanges : applied[f] \in Nat
  BY DEF ExchangeTables
<1>2. \A f \in Exchanges \ {e} : applied'[f] = applied[f]
  BY DEF OtherRow
<1>3. SUFFICES ASSUME OnceEach'
               PROVE  OnceEach /\ (applied'[e] # applied[e] => applied[e] = 0)
  OBVIOUS
<1>4. applied'[e] <= 1 /\ \A f \in Exchanges \ {e} : applied[f] <= 1
  BY <1>2, <1>3 DEF OnceEach
<1>5. applied[e] <= 1 /\ (applied'[e] # applied[e] => applied[e] = 0)
  BY <1>1, <1>4
<1>6. QED BY <1>4, <1>5 DEF OnceEach

-----------------------------------------------------------------------------
(* The difference went back from a payment of this ticket: there is no     *)
(* other whose upgrade could have been taken for it.                       *)
LEMMA PaidBackKept ==
  ASSUME NEW e \in Exchanges, NEW t \in Tickets, \A u \in Tickets : u = t, Ledger, ExchangeTables,
         xrefund[e].of \in Tickets, back' = PaidBack(e), UNCHANGED paid
  PROVE  Kept(t)' = Kept(t) - 1
<1>1. xrefund[e].of = t /\ xrefund[e].pay \in Payments
  BY DEF ExchangeTables
<1>2. PICK p \in Payments : p = xrefund[e].pay
  BY <1>1
<1>3. back' = [back EXCEPT ![t][p] = @ + 1]
  BY <1>1, <1>2 DEF PaidBack
<1>4. back'[t][p] = back[t][p] + 1 /\ \A q \in Payments \ {p} : back'[t][q] = back[t][q]
  BY <1>3 DEF Ledger
<1>5. \A q \in Payments : paid[t][q] \in Int /\ back[t][q] \in Int
  BY DEF Ledger
<1>6. QED BY <1>4, <1>5 DEF Kept, Payments

(* A refund of a difference that Stripe has done is owed to the ticket.     *)
LEMMA RefundOwed ==
  ASSUME NEW e \in Exchanges, \A f \in Exchanges \ {e} : OtherRow(f),
         applied[e] = 0, applied'[e] = 0, xbank[e] # "succeeded", xbank'[e] = "succeeded"
  PROVE  Owed' = Owed + 1
<1>1. Owing' = Owing \cup {e} /\ e \notin Owing
  BY DEF Owing, OtherRow
<1>2. QED BY <1>1, OwedIsNat, FS_AddElement DEF Owed

(* Stripe refunds a difference, or takes the refund, or does not do it. *)
LEMMA RefundsAccounts ==
  ASSUME DeskInv, Ledger, AccountsInv, "exchange" \in Acts, NEW e \in Exchanges, RowStep(e),
         UNCHANGED <<ticket, applied, session, xhook, paid, alloc, atBank, lost>>,
         NEW a \in {"pending", "succeeded", "failed"}, Refunds(e, a),
         xhandler[e].pc = "call" \/ xbank[e] = "pending",
         SameTerms(e), exchange'[e].st \in {exchange[e].st, "failed"},
         xrefund'[e].of = xrefund[e].of, HandlerStands(e)'
  PROVE  AccountsInv'
<1>1. Standing(e) /\ RowOK(e) /\ ExchangeTables
  BY RowStands DEF Standing
<1>2. \A f \in Exchanges \ {e} : OtherRow(f)
  BY OtherRowsKept DEF AccountsInv
<1>3. xbank'[e] = a
  BY <1>1 DEF Refunds, ExchangeTables
<1>4. /\ xbank[e] \in {"none", "pending"} /\ exchange[e].delta = -1 /\ applied[e] = 0
      /\ exchange[e].of \in Tickets /\ xrefund[e].of \in Tickets /\ session[e] = "none"
  <2>1. HandlerStands(e) /\ RefundStands(e) /\ SessionStands(e) /\ AppliedStands(e)
    BY <1>1 DEF RowOK
  <2>2. applied[e] \in Nat
    BY <1>1 DEF ExchangeTables
  <2>3. xbank[e] \in {"none", "pending"} /\ exchange[e].delta = -1
    BY <2>1 DEF HandlerStands, RefundStands
  <2>4. exchange[e].of \in Tickets /\ xrefund[e].of \in Tickets
    BY <2>1 DEF HandlerStands, RefundStands
  <2>5. applied[e] = 0
    BY <2>1, <2>2 DEF HandlerStands, AppliedStands
  <2>6. session[e] = "none"
    BY <2>1, <2>3 DEF SessionStands
  <2>7. QED BY <2>3, <2>4, <2>5, <2>6
<1>5. Active(e)' => Active(e)
  BY DEF Active, ActiveStatuses
<1>6. Priced(e)' /\ RefundStands(e)'
  BY <1>1, <1>3, <1>4, <1>5 DEF RowOK, Priced, RefundStands, SameTerms
<1>7. SessionStands(e)' /\ AppliedStands(e)'
  BY <1>1, <1>3, <1>4, <1>5 DEF RowOK, SessionStands, AppliedStands, SameTerms
<1>8. RowOK(e)'
  BY <1>6, <1>7 DEF RowOK
<1>9. Alone(e)
  BY <1>5, StillAlone DEF SameTerms
<1>10. CASE a # "succeeded"
  <2>1. back' = back
    BY <1>10 DEF Refunds
  <2>2. QED BY <1>3, <1>4, <1>8, <1>9, <1>10, <2>1, QuietStep DEF bank
<1>11. CASE a = "succeeded"
  <2>1. back' = PaidBack(e)
    BY <1>11 DEF Refunds
  <2>2. \A f \in Exchanges \ {e} : RowOK(f)'
    BY <1>2, RowKept DEF AccountsInv, OtherRow
  <2>3. ASSUME NEW t \in Tickets PROVE TicketPriced(t)' /\ Balanced(t)'
    <3>1. TicketPriced(t) /\ Balanced(t)
      BY DEF AccountsInv, TicketOK
    <3>2. CASE Single
      <4>1. Kept(t)' = Kept(t) - 1
        BY <1>1, <1>4, <2>1, <3>2, PaidBackKept DEF Single
      <4>2. Owed' = Owed + 1
        BY <1>2, <1>3, <1>4, <1>11, RefundOwed
      <4>3. Prepaid(t)' = Prepaid(t)
        BY DEF Prepaid, Prepaying
      <4>4. Numbers(t)
        BY AccountNumbers
      <4>5. ExchangeMoved(t)' = ExchangeMoved(t) + 1 /\ Kept(t)' = Kept(t) + (-1)
        BY <4>1, <4>2, <4>3, <4>4 DEF ExchangeMoved, Numbers
      <4>6. ticket'[t].amount = ticket[t].amount + 0 /\ 0 = -1 + 1 /\ 0 \in Int /\ -1 \in Int /\ 1 \in Int
        BY <4>4 DEF Numbers
      <4>7. OnceEach' => OnceEach
        BY DEF OnceEach
      <4>8. QED BY <3>1, <4>4, <4>5, <4>6, <4>7, StepBalanced DEF TicketPriced
    <3>3. CASE ~Single
      BY <3>1, <3>3 DEF TicketPriced, Balanced, Single
    <3>4. QED BY <3>2, <3>3
  <2>4. QED BY <1>8, <1>9, <2>2, <2>3, RowStepKeeps
<1>12. QED BY <1>10, <1>11

(* The call, with the answer, without it, or refused. *)
LEMMA CallAccounts ==
  ASSUME DeskInv, Ledger, AccountsInv, "exchange" \in Acts, NEW e \in Exchanges,
         UNCHANGED <<alloc, atBank, lost>>, CallExchangeRefund(e) \/ ExchangeAnswerLost(e)
  PROVE  AccountsInv'
<1>1. Standing(e) /\ RowStep(e) /\ HandlerStands(e) /\ ExchangeTables
  BY RowStands DEF RowStep, Standing, RowOK
<1>2. xhandler[e].pc = "call" /\ UNCHANGED <<xhook, session, paid>>
  BY DEF CallExchangeRefund, ExchangeAnswerLost, ExchangeCallFails
<1>3. CASE ExchangeCallFails(e)
  <2>1. /\ xrefund' = [xrefund EXCEPT ![e].st = "failed"] /\ GivenUp(e) /\ Done(e)
        /\ UNCHANGED <<ticket, applied>>
    BY <1>3 DEF ExchangeCallFails, GivenUp
  <2>2. /\ HandlerStands(e)' /\ xrefund'[e].of = xrefund[e].of
        /\ exchange'[e].st = "failed" /\ SameTerms(e)
    BY <1>1, <2>1, HandlerDone, RefundStatusSet, StatusSet DEF GivenUp
  <2>3. CASE UNCHANGED <<xbank, back>>
    BY <1>1, <1>2, <2>1, <2>2, <2>3, NoSession, GivenUpAccounts DEF bank
  <2>4. ASSUME NEW a \in {"pending", "succeeded"}, Refunds(e, a) PROVE AccountsInv'
    BY <1>1, <1>2, <2>1, <2>2, <2>4, RefundsAccounts
  <2>5. UNCHANGED <<xbank, back>> \/ \E a \in {"pending", "succeeded"} : Refunds(e, a)
    BY DEF CallExchangeRefund, ExchangeAnswerLost
  <2>6. QED BY <2>3, <2>4, <2>5
<1>4. ASSUME NEW a \in {"pending", "succeeded"}, Refunds(e, a),
             xhandler' = [xhandler EXCEPT ![e] = [pc |-> "write", ans |-> a]],
             UNCHANGED <<ticket, exchange, xrefund, xhook, session, paid, xhistory>>
      PROVE  AccountsInv'
  <2>1. xhandler'[e].pc = "write" /\ xhandler'[e].ans = a /\ xbank'[e] = a
    BY <1>1, <1>4 DEF ExchangeTables, Refunds
  <2>2. exchange[e].of \in Tickets
    BY <1>1, <1>2 DEF HandlerStands
  <2>3. HandlerStands(e)'
    BY <1>4, <2>1, <2>2 DEF HandlerStands
  <2>4. SameTerms(e) /\ UNCHANGED applied
    BY <1>4 DEF SameTerms, xhistory
  <2>5. QED BY <1>1, <1>2, <1>4, <2>3, <2>4, RefundsAccounts
<1>5. QED BY <1>3, <1>4 DEF CallExchangeRefund, ExchangeAnswerLost

LEMMA SettlesAccounts ==
  ASSUME DeskInv, Ledger, AccountsInv, "exchange" \in Acts, NEW e \in Exchanges,
         UNCHANGED <<alloc, atBank, lost>>, ExchangeBankSettles(e)
  PROVE  AccountsInv'
<1>1. Standing(e) /\ RowStep(e) /\ HandlerStands(e) /\ ExchangeTables
  BY RowStands DEF RowStep, Standing, RowOK
<1>2. xbank[e] = "pending" /\ SameTerms(e)
      /\ UNCHANGED <<ticket, exchange, xrefund, xhandler, xhook, session, paid, applied>>
  BY DEF ExchangeBankSettles, SameTerms, xhistory
<1>3. PICK a \in {"failed", "succeeded"} : Refunds(e, a)
  BY DEF ExchangeBankSettles
<1>4. xbank'[e] = a
  BY <1>1, <1>3 DEF ExchangeTables, Refunds
<1>5. HandlerStands(e)'
  BY <1>1, <1>2, <1>4 DEF HandlerStands
<1>6. QED BY <1>1, <1>2, <1>3, <1>5, RefundsAccounts


-----------------------------------------------------------------------------
(* The difference is paid, or the checkout for it expires.  It is the first *)
(* that is paid for the ticket: no other row has one.                      *)
LEMMA SessionEndsAccounts ==
  ASSUME DeskInv, Ledger, AccountsInv, "exchange" \in Acts, NEW e \in Exchanges,
         UNCHANGED <<alloc, atBank, lost>>, SessionEnds(e)
  PROVE  AccountsInv'
<1>1. Standing(e) /\ RowStep(e) /\ RowOK(e) /\ ExchangeTables
  BY RowStands DEF RowStep, Standing
<1>2. /\ session[e] = "open" /\ SameTerms(e)
      /\ UNCHANGED <<ticket, exchange, xrefund, xhandler, xhook, xbank, back, applied>>
  BY DEF SessionEnds, SameTerms, xhistory
<1>3. \A f \in Exchanges \ {e} : OtherRow(f)
  BY <1>1, OtherRowsKept
<1>4. exchange[e] \in ExchangeRow /\ exchange[e].delta > 0 /\ Active(e) /\ applied[e] = 0
  <2>1. exchange[e] \in ExchangeRow /\ applied[e] \in Nat
    BY <1>1 DEF Standing, ExchangeTables
  <2>2. SessionStands(e) /\ AppliedStands(e)
    BY <1>1 DEF RowOK
  <2>3. QED BY <1>2, <2>1, <2>2 DEF SessionStands, AppliedStands
<1>5. /\ exchange[e].of \in Tickets /\ exchange[e].delta \in Int
      /\ paid[exchange[e].of]["upgrade"] = 0
  <2>1. exchange[e].of \in Tickets /\ exchange[e].delta \in Int
    BY <1>4 DEF ExchangeRow
  <2>2. QED BY <1>1, <1>2, <1>4, <2>1 DEF RowOK, SessionStands
<1>6. Alone(e) /\ (Active(e)' <=> Active(e))
  BY <1>2, StillAlone DEF Active
<1>7. Priced(e)' /\ HandlerStands(e)' /\ RefundStands(e)'
  <2>1. Priced(e)' /\ RefundStands(e)'
    BY <1>1, <1>2, <1>6 DEF RowOK, Priced, RefundStands
  <2>2. xhandler[e].pc # "session"
    BY <1>1, <1>2 DEF RowOK, HandlerStands
  <2>3. HandlerStands(e)'
    BY <1>1, <1>2, <2>2 DEF RowOK, HandlerStands
  <2>4. QED BY <2>1, <2>3
<1>8. CASE session' = [session EXCEPT ![e] = "expired"] /\ UNCHANGED paid
  <2>1. session'[e] = "expired"
    BY <1>1, <1>8 DEF ExchangeTables
  <2>2. SessionStands(e)' /\ AppliedStands(e)'
    BY <1>1, <1>2, <1>4, <1>5, <1>6, <1>8, <2>1 DEF RowOK, SessionStands, AppliedStands
  <2>3. RowOK(e)'
    BY <1>7, <2>2 DEF RowOK
  <2>4. QED BY <1>1, <1>2, <1>6, <1>8, <2>1, <2>3, QuietStep DEF bank
<1>9. CASE /\ session' = [session EXCEPT ![e] = "paid"]
           /\ paid' = [paid EXCEPT ![exchange[e].of]["upgrade"] = exchange[e].delta]
  <2> DEFINE t == exchange[e].of
             n == exchange[e].delta
  <2>1. session'[e] = "paid"
    BY <1>1, <1>9 DEF ExchangeTables
  <2>2. /\ paid'[t]["upgrade"] = n /\ paid'[t]["base"] = paid[t]["base"]
        /\ \A u \in Tickets \ {t} : paid'[u] = paid[u]
    BY <1>5, <1>9 DEF Ledger, Payments
  <2>3. RowOK(e)'
    <3>1. SessionStands(e)'
      BY <1>2, <1>4, <1>6, <2>1, <2>2 DEF SessionStands
    <3>2. AppliedStands(e)'
      BY <1>1, <1>2, <1>4, <2>1 DEF RowOK, AppliedStands
    <3>3. QED BY <1>7, <3>1, <3>2 DEF RowOK
  <2>4. ASSUME NEW f \in Exchanges \ {e} PROVE RowOK(f)'
    <3>1. OtherRow(f) /\ RowOK(f) /\ exchange[f] \in ExchangeRow
      BY <1>3 DEF AccountsInv, Ledger
    <3>2. Priced(f)' /\ HandlerStands(f)' /\ RefundStands(f)' /\ AppliedStands(f)'
      BY <1>2, <3>1 DEF RowOK, OtherRow, Priced, HandlerStands, RefundStands, AppliedStands, Active
    <3>3. SessionStands(f) /\ (Active(f)' <=> Active(f))
      BY <1>2, <3>1 DEF RowOK, Active
    <3>4. CASE exchange[f].of = t
      <4>1. ~Active(f)
        BY <1>2, <1>4, <1>5, <1>6, <3>4 DEF Alone
      <4>2. session[f] # "paid"
        BY <1>5, <3>3, <3>4 DEF SessionStands
      <4>3. QED BY <3>1, <3>2, <3>3, <4>1, <4>2 DEF RowOK, SessionStands, OtherRow
    <3>5. CASE exchange[f].of \in Tickets \ {t}
      BY <2>2, <3>1, <3>2, <3>3, <3>5 DEF RowOK, SessionStands, OtherRow
    <3>6. CASE exchange[f].of \notin Tickets
      <4>1. exchange[f].delta = 0
        BY <3>1, <3>6 DEF ExchangeRow
      <4>2. session[f] = "none"
        BY <3>3, <4>1 DEF SessionStands
      <4>3. QED BY <3>1, <3>2, <3>3, <4>1, <4>2 DEF RowOK, SessionStands, OtherRow
    <3>7. QED BY <3>4, <3>5, <3>6
  <2>5. ASSUME NEW u \in Tickets PROVE TicketPriced(u)' /\ Balanced(u)'
    <3>1. TicketPriced(u) /\ Balanced(u)
      BY DEF AccountsInv, TicketOK
    <3>2. CASE Single
      <4>1. u = t /\ Numbers(u)
        BY <1>5, <3>2, AccountNumbers DEF Single
      <4>2. ~Prepaying /\ Prepaying'
        <5>1. \A f \in Exchanges : session[f] = "paid" => paid[t]["upgrade"] > 0
          <6> SUFFICES ASSUME NEW f \in Exchanges, session[f] = "paid"
                       PROVE  paid[t]["upgrade"] > 0
            OBVIOUS
          <6>1. SessionStands(f) /\ exchange[f] \in ExchangeRow
            BY DEF AccountsInv, RowOK, Ledger
          <6>2. exchange[f].delta > 0 /\ paid[exchange[f].of]["upgrade"] = exchange[f].delta
            BY <6>1 DEF SessionStands
          <6>3. exchange[f].of = t
            BY <1>5, <3>2, <6>1, <6>2 DEF ExchangeRow, Single
          <6>4. QED BY <6>2, <6>3
        <5>2. QED BY <1>2, <1>4, <1>5, <2>1, <5>1 DEF Prepaying
      <4>3. Prepaid(u) = 0 /\ Prepaid(u)' = n
        <5>1. Prepaid(u)' = paid'[u]["upgrade"]
          BY <1>2, <4>2 DEF Prepaid
        <5>2. QED BY <2>2, <4>1, <4>2, <5>1 DEF Prepaid
      <4>4. Owed' = Owed
        <5>1. Owing' = Owing
          BY <1>2 DEF Owing
        <5>2. QED BY <5>1 DEF Owed
      <4>5. Kept(u)' = Kept(u) + n
        BY <1>2, <1>5, <2>2, <4>1 DEF Kept, Numbers, Payments
      <4> DEFINE m == 0 - n
      <4>6. m \in Int /\ n \in Int /\ 0 \in Int /\ 0 = n + m
        BY <1>5
      <4>7. ExchangeMoved(u)' = ExchangeMoved(u) + m
        BY <1>5, <4>1, <4>3, <4>4 DEF ExchangeMoved, Numbers
      <4>8. ticket'[u].amount = ticket[u].amount + 0 /\ (OnceEach' => OnceEach)
        BY <1>2, <4>1 DEF Numbers, OnceEach
      <4>9. TicketPriced(u)'
        BY <1>2, <3>1 DEF TicketPriced
      <4> HIDE DEF m, n, t
      <4>10. QED BY <3>1, <4>1, <4>5, <4>6, <4>7, <4>8, <4>9, StepBalanced
    <3>3. CASE ~Single
      BY <1>2, <3>1, <3>3 DEF TicketPriced, Balanced, Single
    <3>4. QED BY <3>2, <3>3
  <2>6. QED BY <1>1, <1>6, <2>3, <2>4, <2>5, RowStepKeeps
<1>10. QED BY <1>8, <1>9 DEF SessionEnds

(* reserveExchange finds no other row under way, and prices at most one      *)
(* apart.                                                                  *)
LEMMA ReserveAccounts ==
  ASSUME DeskInv, Ledger, AccountsInv, NEW e \in Exchanges, NEW t \in Tickets, NEW to \in Types,
         UNCHANGED <<alloc, atBank, lost>>, ReserveExchange(e, t, to)
  PROVE  AccountsInv'
<1> DEFINE d == Price[to] - ticket[t].amount
           pc == IF d = 0 THEN "complete" ELSE IF d < 0 THEN "allocate" ELSE "session"
           row == [st |-> "processing", of |-> t, from |-> ticket[t].type, to |-> to, delta |-> d]
<1>1. Standing(e) /\ RowStep(e) /\ RowOK(e) /\ ExchangeTables /\ DOMAIN exchange = Exchanges
  BY RowStands DEF RowStep, Standing
<1>2. /\ exchange[e] = NoExchange /\ ~ActiveExchange(t) /\ (d > 0 => paid[t]["upgrade"] = 0)
      /\ exchange' = [exchange EXCEPT ![e] = row] /\ To(e, pc)
      /\ UNCHANGED <<ticket, xrefund, xhook, xbank, session, bank, applied>>
  BY DEF ReserveExchange
<1>3. /\ ticket[t] \in TicketRow /\ ticket[t].type \in Types /\ ticket[t].amount \in Int
      /\ Price[to] \in Nat \ {0} /\ Price[ticket[t].type] \in Nat \ {0}
      /\ Price[to] - Price[ticket[t].type] \in -1..1 /\ TicketPriced(t)
  BY PriceAssumption DEF DeskInv, DeskOK, Rows, TicketRow, AccountsInv, TicketOK
<1>4. /\ d \in Int /\ (d < 0 => d = -1) /\ (d <= 0 => ticket[t].amount # 0)
      /\ ticket[t].amount # 0 => d = Price[to] - Price[ticket[t].type]
      /\ ticket[t].amount = 0 => d = Price[to]
  BY <1>3 DEF TicketPriced
<1>5. exchange'[e] = row
  BY <1>1, <1>2
<1>6. /\ exchange'[e].st = "processing" /\ exchange'[e].of = t /\ exchange'[e].delta = d
      /\ exchange'[e].from = ticket[t].type /\ exchange'[e].to = to
  BY <1>5
<1>7. exchange[e].of = None /\ exchange[e].delta = 0 /\ None \notin Tickets
  BY <1>2, ExchangesAssumption DEF NoExchange
<1>8. xbank[e] = "none" /\ session[e] = "none" /\ applied[e] = 0 /\ xhook[e] = NoHook
  <2>1. RefundStands(e) /\ SessionStands(e) /\ AppliedStands(e) /\ applied[e] \in Nat
    BY <1>1 DEF RowOK, ExchangeTables
  <2>2. xbank[e] = "none"
    BY <1>7, <2>1 DEF RefundStands
  <2>3. QED BY <1>7, <2>1, <2>2 DEF RefundStands, SessionStands, AppliedStands
<1> HIDE DEF d, row
<1>9. xhandler'[e].pc = pc
  BY <1>1, <1>2, HandlerMoved
<1>10. Priced(e)'
  BY <1>2, <1>4, <1>6 DEF Priced, Active
<1>11. HandlerStands(e)'
  BY <1>2, <1>4, <1>6, <1>8, <1>9 DEF HandlerStands
<1>12. RefundStands(e)'
  BY <1>2, <1>8 DEF RefundStands, NoHook
<1>13. SessionStands(e)' /\ AppliedStands(e)'
  BY <1>2, <1>4, <1>6, <1>8 DEF SessionStands, AppliedStands, bank
<1>14. RowOK(e)'
  BY <1>10, <1>11, <1>12, <1>13 DEF RowOK
<1>15. Alone(e)
  BY <1>2, <1>6 DEF Alone, ActiveExchange, ExchangesOf
<1>16. QED BY <1>1, <1>2, <1>14, <1>15, QuietStep

-----------------------------------------------------------------------------
(* The change itself.  Its difference is nothing, or went back, or was paid *)
(* for an exchange still under way.                                        *)
Due(e) ==
  \/ exchange[e].delta = 0
  \/ exchange[e].delta = -1 /\ xbank[e] = "succeeded"
  \/ exchange[e].delta > 0 /\ session[e] = "paid" /\ Active(e)

(* Which is the one it stands in. *)
LEMMA DueOnce ==
  ASSUME NEW e \in Exchanges, RowOK(e), Due(e)
  PROVE  /\ xbank[e] \in {"none", "succeeded"} /\ session[e] \in {"none", "paid"}
         /\ xbank[e] = "succeeded" <=> exchange[e].delta = -1
         /\ session[e] = "paid" <=> exchange[e].delta > 0
<1>1. RefundStands(e) /\ SessionStands(e)
  BY DEF RowOK
<1>2. CASE exchange[e].delta = 0
  BY <1>1, <1>2 DEF RefundStands, SessionStands
<1>3. CASE exchange[e].delta = -1 /\ xbank[e] = "succeeded"
  BY <1>1, <1>3 DEF RefundStands, SessionStands
<1>4. CASE exchange[e].delta > 0 /\ session[e] = "paid" /\ Active(e)
  BY <1>1, <1>4 DEF RefundStands, SessionStands
<1>5. QED BY <1>2, <1>3, <1>4 DEF Due

(* What completeExchange writes. *)
Changed(e, t) ==
  /\ ticket'[t].type = exchange[e].to /\ ticket'[t].amount = ticket[t].amount + exchange[e].delta
  /\ \A u \in Tickets \ {t} : ticket'[u] = ticket[u]
  /\ exchange'[e].st = "completed" /\ SameTerms(e) /\ applied'[e] = applied[e] + 1
  /\ ~Active(e)'

LEMMA CompletedWrites ==
  ASSUME DeskInv, NEW e \in Exchanges, Standing(e), Completed(e), NEW t \in Tickets,
         t = exchange[e].of
  PROVE  Changed(e, t)
<1>1. exchange'[e].st = "completed" /\ SameTerms(e)
  BY StatusSet DEF Completed
<1>2. applied'[e] = applied[e] + 1
  BY DEF Completed, Standing, ExchangeTables
<1>3. DOMAIN ticket = Tickets /\ ticket[t] \in TicketRow
  BY DEF DeskInv, Tables, DeskOK, Rows
<1>4. ticket' = [ticket EXCEPT ![t].type = exchange[e].to, ![t].amount = @ + exchange[e].delta]
  BY DEF Completed
<1>5. /\ \A u \in Tickets \ {t} : ticket'[u] = ticket[u]
      /\ ticket'[t] = [ticket[t] EXCEPT !.type = exchange[e].to,
                                        !.amount = @ + exchange[e].delta]
  BY <1>3, <1>4
<1>6. ticket'[t].type = exchange[e].to /\ ticket'[t].amount = ticket[t].amount + exchange[e].delta
  BY <1>3, <1>5 DEF TicketRow
<1>7. ~Active(e)'
  BY <1>1 DEF Active, ActiveStatuses
<1>8. QED BY <1>1, <1>2, <1>5, <1>6, <1>7 DEF Changed

(* The ticket costs the price of its new type. *)
LEMMA ChangedPrice ==
  ASSUME DeskInv, NEW e \in Exchanges, Standing(e), NEW t \in Tickets, t = exchange[e].of,
         TicketPriced(t), Changed(e, t), CanComplete(e), Due(e)
  PROVE  /\ ticket'[t].amount = Price[exchange[e].to] /\ ticket'[t].amount # 0 /\ TicketPriced(t)'
         /\ ticket[t].amount = 0 => exchange[e].delta > 0 /\ Active(e)
<1>1. /\ Priced(e) /\ exchange[e].delta \in Int /\ exchange[e].to \in Types
      /\ exchange[e].from \in Types /\ ticket[t].amount \in Int /\ ticket[t].type = exchange[e].from
  <2>1. exchange[e] \in ExchangeRow /\ Priced(e)
    BY DEF Standing, RowOK
  <2>2. exchange[e].delta \in Int /\ exchange[e].to \in Types /\ exchange[e].from \in Types
    BY <2>1, ExchangesAssumption DEF ExchangeRow
  <2>3. ticket[t].amount \in Int
    BY DEF DeskInv, DeskOK, Rows, TicketRow
  <2>4. QED BY <2>1, <2>2, <2>3 DEF CanComplete
<1>2. /\ exchange[e].delta <= 0 => ticket[t].amount # 0
      /\ exchange[e].delta > 0 => Active(e)
  BY <1>1 DEF Due, Priced
<1>3. ticket[t].amount # 0 => exchange[e].delta = Price[exchange[e].to] - Price[exchange[e].from]
  BY <1>1, <1>2 DEF Priced
<1>4. ticket[t].amount = 0 => exchange[e].delta = Price[exchange[e].to]
  BY <1>1, <1>2 DEF Priced
<1>5. Price[exchange[e].to] \in Nat \ {0} /\ Price[exchange[e].from] \in Nat \ {0}
  BY <1>1, PriceAssumption
<1>6. ticket[t].amount \in {0, Price[exchange[e].from]}
  BY <1>1 DEF TicketPriced
<1>7. ticket'[t].amount = Price[exchange[e].to]
  BY <1>3, <1>4, <1>5, <1>6 DEF Changed
<1>8. TicketPriced(t)'
  BY <1>7 DEF TicketPriced, Changed
<1>9. QED BY <1>1, <1>2, <1>5, <1>7, <1>8

(* The row is through. *)
LEMMA ChangedRow ==
  ASSUME NEW e \in Exchanges, Standing(e), NEW t \in Tickets, t = exchange[e].of, Changed(e, t),
         Due(e), ticket'[t].amount # 0, HandlerStands(e)', UNCHANGED paid,
         xbank'[e] = xbank[e], session'[e] = session[e], xrefund'[e].of = xrefund[e].of,
         xhook'[e] \in {xhook[e], NoHook}
  PROVE  RowOK(e)'
<1>1. RowOK(e) /\ exchange'[e].of = t /\ applied[e] \in Nat /\ exchange[e].delta \in Int
  BY DEF Standing, Changed, SameTerms, ExchangeTables, ExchangeRow
<1>2. applied'[e] > 0
  BY <1>1 DEF Changed
<1>3. Priced(e)'
  BY <1>1 DEF RowOK, Priced, Changed, SameTerms
<1>4. RefundStands(e)'
  <2>1. RefundStands(e) /\ NoHook.ev = "none"
    BY <1>1 DEF RowOK, NoHook
  <2>2. /\ xhook'[e] # NoHook => xbank[e] # "none"
        /\ xhook'[e].ev = "succeeded" => xbank[e] = "succeeded"
    BY <2>1 DEF RefundStands
  <2>3. QED BY <2>1, <2>2 DEF RefundStands, Changed, SameTerms
<1>5. xbank[e] \in {"none", "succeeded"} /\ session[e] \in {"none", "paid"}
  BY <1>1, DueOnce
<1>6. SessionStands(e)'
  BY <1>1, <1>2, <1>5 DEF RowOK, SessionStands, Changed, SameTerms
<1>7. AppliedStands(e)'
  BY <1>1, <1>2, <1>5 DEF AppliedStands
<1>8. QED BY <1>3, <1>4, <1>6, <1>7 DEF RowOK

(* So are the other rows of the ticket left. *)
LEMMA OthersOfChanged ==
  ASSUME Ledger, AccountsInv, NEW e \in Exchanges, NEW t \in Tickets, t = exchange[e].of,
         Changed(e, t), ticket'[t].amount # 0, ticket[t].amount = 0 => Active(e),
         UNCHANGED paid, NEW f \in Exchanges \ {e}, OtherRow(f)
  PROVE  RowOK(f)'
<1>1. RowOK(f) /\ OneActive(t)
  BY DEF AccountsInv, TicketOK
<1>2. CASE exchange[f].of # t
  BY <1>1, <1>2, RowKept DEF OtherRow, Changed
<1>3. CASE exchange[f].of = t
  <2>1. HandlerStands(f)' /\ RefundStands(f)' /\ SessionStands(f)' /\ AppliedStands(f)'
    BY <1>1 DEF RowOK, OtherRow, HandlerStands, RefundStands, SessionStands, AppliedStands, Active
  <2>2. Active(f) => ~Active(e)
    BY <1>1, <1>3 DEF OneActive, ExchangesOf
  <2>3. Priced(f)'
    BY <1>1, <1>3, <2>2 DEF RowOK, OtherRow, Priced, Active
  <2>4. QED BY <2>1, <2>3 DEF RowOK
<1>4. QED BY <1>2, <1>3

(* And the amount shows now what was moved before. *)
LEMMA ChangedMoved ==
  ASSUME DeskInv, Ledger, AccountsInv, NEW e \in Exchanges, NEW t \in Tickets, t = exchange[e].of,
         Changed(e, t), Due(e), applied[e] = 0, UNCHANGED <<xbank, session, bank>>,
         \A f \in Exchanges \ {e} : OtherRow(f), \A u \in Tickets : u = t
  PROVE  ExchangeMoved(t)' = ExchangeMoved(t) + exchange[e].delta
<1>1. Numbers(t) /\ RowOK(e) /\ applied'[e] # 0 /\ exchange[e].delta \in Int
  BY AccountNumbers DEF AccountsInv, Changed, Ledger, ExchangeRow
<1>2. /\ xbank[e] \in {"none", "succeeded"} /\ session[e] \in {"none", "paid"}
      /\ xbank[e] = "succeeded" <=> exchange[e].delta = -1
      /\ session[e] = "paid" <=> exchange[e].delta > 0
  BY <1>1, DueOnce
<1>3. Owing' = Owing \ {e} /\ (e \in Owing <=> exchange[e].delta = -1)
  BY <1>1, <1>2 DEF Owing, OtherRow
<1>4. Owed' = IF exchange[e].delta = -1 THEN Owed - 1 ELSE Owed
  <2>1. CASE exchange[e].delta = -1
    BY <1>3, <2>1, OwedIsNat, FS_RemoveElement DEF Owed
  <2>2. CASE exchange[e].delta # -1
    <3>1. Owing' = Owing
      BY <1>3, <2>2
    <3>2. QED BY <2>2, <3>1 DEF Owed
  <2>3. QED BY <2>1, <2>2
<1>5. CASE exchange[e].delta > 0
  <2>1. Prepaying /\ paid[t]["upgrade"] = exchange[e].delta
    BY <1>1, <1>2, <1>5 DEF Prepaying, RowOK, SessionStands
  <2>2. ~Prepaying'
    <3> SUFFICES ASSUME NEW f \in Exchanges, session'[f] = "paid", applied'[f] = 0 PROVE FALSE
      BY DEF Prepaying
    <3>1. f # e /\ session[f] = "paid" /\ applied[f] = 0
      BY <1>1 DEF OtherRow
    <3>2. SessionStands(f) /\ exchange[f] \in ExchangeRow /\ OneActive(t)
      BY DEF AccountsInv, TicketOK, RowOK, Ledger
    <3>3. Active(f) /\ exchange[f].delta > 0
      BY <3>1, <3>2 DEF SessionStands
    <3>4. exchange[f].of = t
      BY <3>2, <3>3 DEF ExchangeRow
    <3>5. Active(e)
      BY <1>5 DEF Due
    <3>6. QED BY <3>1, <3>2, <3>3, <3>4, <3>5 DEF OneActive, ExchangesOf
  <2>3. Prepaid(t) = exchange[e].delta /\ Prepaid(t)' = 0
    BY <2>1, <2>2 DEF Prepaid
  <2>4. QED BY <1>1, <1>4, <1>5, <2>3 DEF ExchangeMoved, Numbers
<1>6. CASE exchange[e].delta <= 0
  <2>1. exchange[e].delta \in {0, -1}
    BY <1>1, <1>6 DEF Due
  <2>2. Prepaying' <=> Prepaying
    <3>1. session[e] # "paid"
      BY <1>1, <1>2, <1>6
    <3>2. QED BY <3>1 DEF Prepaying, OtherRow
  <2>3. Prepaid(t)' = Prepaid(t)
    BY <2>2 DEF Prepaid, bank
  <2>4. QED BY <1>1, <1>4, <2>1, <2>3 DEF ExchangeMoved, Numbers
<1>7. QED BY <1>1, <1>5, <1>6

LEMMA CompletedAccounts ==
  ASSUME DeskInv, Ledger, AccountsInv, "exchange" \in Acts, NEW e \in Exchanges, RowStep(e),
         exchange[e].of \in Tickets, Completed(e), CanComplete(e), Due(e), HandlerStands(e)',
         UNCHANGED <<xbank, session, bank, alloc, atBank, lost>>,
         xrefund'[e].of = xrefund[e].of, xhook'[e] \in {xhook[e], NoHook}
  PROVE  AccountsInv'
<1>1. PICK t \in Tickets : t = exchange[e].of
  OBVIOUS
<1>2. Standing(e) /\ ExchangeTables /\ TicketPriced(t) /\ Balanced(t)
  BY RowStands DEF AccountsInv, TicketOK
<1>3. \A f \in Exchanges \ {e} : OtherRow(f)
  BY <1>2, OtherRowsKept
<1>4. Changed(e, t)
  BY <1>1, <1>2, CompletedWrites
<1>5. /\ ticket'[t].amount # 0 /\ TicketPriced(t)'
      /\ ticket[t].amount = 0 => exchange[e].delta > 0 /\ Active(e)
  BY <1>1, <1>2, <1>4, ChangedPrice
<1>6. RowOK(e)'
  BY <1>1, <1>2, <1>4, <1>5, ChangedRow DEF bank
<1>7. \A f \in Exchanges \ {e} : RowOK(f)'
  BY <1>1, <1>3, <1>4, <1>5, OthersOfChanged DEF bank
<1>8. Alone(e)
  BY <1>4 DEF Changed, Alone
<1>9. ASSUME NEW u \in Tickets PROVE TicketPriced(u)'
  BY <1>4, <1>5 DEF AccountsInv, TicketOK, TicketPriced, Changed
<1>10. ASSUME NEW u \in Tickets PROVE Balanced(u)'
  <2>1. CASE Single /\ OnceEach'
    <3>1. \A v \in Tickets : v = t
      BY <2>1 DEF Single
    <3>2. applied'[e] = applied[e] + 1 /\ applied[e] \in Nat
      BY <1>2, <1>4 DEF Changed, ExchangeTables
    <3>3. OnceEach /\ applied[e] = 0
      BY <1>2, <1>3, <2>1, <3>2, OnceEachBefore
    <3>4. ExchangeMoved(t)' = ExchangeMoved(t) + exchange[e].delta
      BY <1>1, <1>3, <1>4, <3>1, <3>3, ChangedMoved
    <3>5. Numbers(t)
      BY AccountNumbers
    <3>6. Kept(t)' = Kept(t) + 0
      BY <3>5 DEF Kept, bank, Numbers
    <3>7. PICK d \in Int : d = exchange[e].delta
      BY DEF Ledger, ExchangeRow
    <3>8. ticket'[t].amount = ticket[t].amount + d /\ ExchangeMoved(t)' = ExchangeMoved(t) + d
      BY <1>4, <3>4, <3>7 DEF Changed
    <3>9. 0 \in Int /\ d = 0 + d
      BY <3>7
    <3>10. Balanced(t)'
      BY <1>2, <3>3, <3>5, <3>6, <3>8, <3>9, StepBalanced
    <3>11. QED BY <3>1, <3>10
  <2>2. CASE ~(Single /\ OnceEach')
    BY <2>2 DEF Balanced, Single
  <2>3. QED BY <2>1, <2>2
<1>11. QED BY <1>6, <1>7, <1>8, <1>9, <1>10, RowStepKeeps

-----------------------------------------------------------------------------
(* Who makes the change, or throws: its transaction is rolled back, and the  *)
(* handler or the webhook is through all the same.                         *)
LEMMA ThrownAccounts ==
  ASSUME Ledger, AccountsInv, NEW e \in Exchanges, RowStep(e), HandlerStands(e)',
         UNCHANGED <<ticket, exchange, applied, xbank, session, bank, alloc, atBank, lost>>,
         xrefund'[e].of = xrefund[e].of, xhook'[e] \in {xhook[e], NoHook}
  PROVE  AccountsInv'
<1>1. Standing(e)
  BY RowStands
<1>2. SameTerms(e) /\ (Active(e)' => Active(e))
  BY DEF SameTerms, Active
<1>3. Alone(e)
  BY <1>2, StillAlone DEF SameTerms
<1>4. RowOK(e)'
  BY <1>1, <1>2, WrittenRow DEF bank
<1>5. QED BY <1>3, <1>4, QuietStep

(* The handler, where there is nothing to pay or the refund is done. *)
LEMMA HandlerCompletes ==
  ASSUME DeskInv, Ledger, AccountsInv, "exchange" \in Acts, NEW e \in Exchanges,
         UNCHANGED <<alloc, atBank, lost>>, CompleteFree(e) \/ FinishExchange(e)
  PROVE  AccountsInv'
<1>1. Standing(e) /\ RowStep(e) /\ HandlerStands(e) /\ RefundStands(e)
  BY RowStands DEF RowStep, Standing, RowOK
<1>2. /\ CompleteOrThrow(e) /\ Done(e) /\ UNCHANGED <<xrefund, xhook, xbank, session, bank>>
      /\ xhandler[e].pc \in {"complete", "finish"}
  BY DEF CompleteFree, FinishExchange
<1>3. exchange[e].of \in Tickets /\ Due(e)
  BY <1>1, <1>2 DEF HandlerStands, RefundStands, Due
<1>4. HandlerStands(e)'
  BY <1>1, <1>2, HandlerDone
<1>5. CASE CanComplete(e) /\ Completed(e)
  BY <1>1, <1>2, <1>3, <1>4, <1>5, CompletedAccounts
<1>6. CASE UNCHANGED <<ticket, exchange, applied>>
  BY <1>1, <1>2, <1>4, <1>6, ThrownAccounts
<1>7. QED BY <1>2, <1>5, <1>6 DEF CompleteOrThrow

(* The webhook of a refund that succeeded, that failed, or is still pending. *)
LEMMA HookAccounts ==
  ASSUME DeskInv, Ledger, AccountsInv, "exchange" \in Acts, NEW e \in Exchanges,
         UNCHANGED <<alloc, atBank, lost>>, HookExchangeRefund(e)
  PROVE  AccountsInv'
<1>1. Standing(e) /\ RowStep(e) /\ HandlerStands(e) /\ RefundStands(e) /\ ExchangeTables
  BY RowStands DEF RowStep, Standing, RowOK
<1>2. /\ xhook[e] # NoHook /\ xhook' = [xhook EXCEPT ![e] = NoHook]
      /\ UNCHANGED <<xhandler, xbank, session, bank>>
  BY DEF HookExchangeRefund
<1>3. /\ xbank[e] # "none" /\ exchange[e].delta = -1 /\ exchange[e].of \in Tickets
      /\ xhook[e].ev = "succeeded" => xbank[e] = "succeeded"
  BY <1>1, <1>2 DEF RefundStands
<1>4. xhook'[e] = NoHook /\ NoHook \in {xhook[e], NoHook}
  BY <1>1, <1>2 DEF ExchangeTables
<1>5. xrefund' = xrefund \/ xrefund' = [xrefund EXCEPT ![e].st = xhook[e].ev]
  BY DEF HookExchangeRefund
<1>6. xrefund'[e].of = xrefund[e].of
  BY <1>1, <1>5, RefundStatusSet
<1>7. xhandler[e].pc \notin {"complete", "allocate", "call", "session", "await"}
  BY <1>1, <1>3 DEF HandlerStands
<1>8. exchange'[e].of = exchange[e].of => HandlerStands(e)'
  BY <1>1, <1>2, <1>3, <1>7 DEF HandlerStands
<1>9. CASE UNCHANGED <<ticket, exchange, applied>>
  BY <1>1, <1>2, <1>4, <1>6, <1>8, <1>9, ThrownAccounts
<1>10. CASE GivenUp(e)
  <2>1. exchange'[e].of = exchange[e].of
    BY <1>1, <1>10, StatusSet DEF GivenUp, SameTerms
  <2>2. session[e] \notin {"open", "paid"}
    BY <1>1, <1>3, NoSession
  <2>3. QED BY <1>1, <1>2, <1>4, <1>6, <1>8, <1>10, <2>1, <2>2, GivenUpAccounts
<1>11. CASE HookCompletes(e) /\ CanComplete(e) /\ Completed(e)
  <2>1. exchange'[e].of = exchange[e].of
    BY <1>1, <1>11, StatusSet DEF Completed, SameTerms
  <2>2. Due(e)
    BY <1>3, <1>11 DEF Due, HookCompletes
  <2>3. QED BY <1>1, <1>2, <1>3, <1>4, <1>6, <1>8, <1>11, <2>1, <2>2, CompletedAccounts
<1>12. QED BY <1>9, <1>10, <1>11 DEF HookExchangeRefund

(* The webhook of a payment. *)
LEMMA FulfilAccounts ==
  ASSUME DeskInv, Ledger, AccountsInv, "exchange" \in Acts, NEW e \in Exchanges,
         UNCHANGED <<alloc, atBank, lost>>, FulfilExchange(e)
  PROVE  AccountsInv'
<1>1. Standing(e) /\ RowStep(e) /\ HandlerStands(e) /\ SessionStands(e) /\ exchange[e] \in ExchangeRow
  BY RowStands DEF RowStep, Standing, RowOK
<1>2. /\ exchange[e].st = "awaiting" /\ session[e] = "paid" /\ CanComplete(e) /\ Completed(e)
      /\ UNCHANGED <<xrefund, xhandler, xhook, xbank, session, bank>>
  BY DEF FulfilExchange
<1>3. Due(e) /\ exchange[e].of \in Tickets
  BY <1>1, <1>2 DEF SessionStands, Due, Active, ActiveStatuses, ExchangeRow
<1>4. exchange'[e].of = exchange[e].of
  BY <1>1, <1>2, StatusSet DEF Completed, SameTerms
<1>5. HandlerStands(e)'
  BY <1>1, <1>2, <1>4 DEF HandlerStands
<1>6. QED BY <1>1, <1>2, <1>3, <1>5, CompletedAccounts

(* The webhook of a refunded payment sets a status. *)
LEMMA UpgradeRefundedAccounts ==
  ASSUME DeskInv, AccountsInv, NEW t \in Tickets, UNCHANGED <<alloc, atBank, lost>>,
         UpgradeRefunded(t)
  PROVE  AccountsInv'
<1>1. ticket' = SetStatus(t, "void") /\ UNCHANGED <<exchanging, back>>
  BY DEF UpgradeRefunded, SetStatus, xvars, bank, exchanging
<1>2. PricesKept
  BY <1>1, StatusKeepsPrices
<1>3. \A u \in Tickets : RefundMoved(u)' = RefundMoved(u)
  BY RefundMovedSame
<1>4. QED BY <1>1, <1>2, <1>3, BooksUntouched

LEMMA ExchangingAccounts ==
  ASSUME DeskInv, Ledger, AccountsInv, "exchange" \in Acts, Exchanging
  PROVE  AccountsInv'
<1>1. UNCHANGED <<alloc, atBank, lost>> /\ ExchangeStep
  BY DEF Exchanging, ExchangeStep
<1>2. ASSUME NEW e \in Exchanges, RowStep(e) PROVE AccountsInv'
  <2>1. ASSUME NEW t \in Tickets, NEW to \in Types, ReserveExchange(e, t, to) PROVE AccountsInv'
    BY <1>1, <2>1, ReserveAccounts
  <2>2. CASE CompleteFree(e) \/ FinishExchange(e)
    BY <1>1, <2>2, HandlerCompletes
  <2>3. CASE AllocateExchangeRefund(e) \/ OpenExchangeSession(e) \/ ExpireExchange(e)
    BY <1>1, <2>3, AllocateAccounts, OpenSessionAccounts, ExpireAccounts
  <2>4. CASE CallExchangeRefund(e) \/ ExchangeAnswerLost(e)
    BY <1>1, <2>4, CallAccounts
  <2>5. CASE \/ WriteExchangeRefund(e) \/ CheckExchange(e) \/ HookReadsExchange(e)
             \/ ExchangeStops(e)
    BY <1>1, <2>5, SteppingAccounts
  <2>6. CASE PendExchange(e) \/ AwaitPayment(e)
    BY <1>1, <2>6, WaitingAccounts
  <2>7. CASE ExchangeBankSettles(e) \/ SessionEnds(e)
    BY <1>1, <2>7, SettlesAccounts, SessionEndsAccounts
  <2>8. CASE HookExchangeRefund(e) \/ FulfilExchange(e)
    BY <1>1, <2>8, HookAccounts, FulfilAccounts
  <2>9. QED BY <1>2, <2>1, <2>2, <2>3, <2>4, <2>5, <2>6, <2>7, <2>8 DEF RowStep
<1>3. ASSUME NEW t \in Tickets, UpgradeRefunded(t) PROVE AccountsInv'
  BY <1>1, <1>3, UpgradeRefundedAccounts
<1>4. QED BY <1>1, <1>2, <1>3, StepsOfRows

-----------------------------------------------------------------------------
(* At the start nothing was exchanged and every ticket cost what was paid. *)
LEMMA AccountsInit == Init => AccountsInv
<1> SUFFICES ASSUME Init PROVE AccountsInv
  OBVIOUS
<1>1. ExchangeInit([t \in Tickets |-> ticket[t].amount])
  BY DEF Init
<1>2. ExchangeTables
  BY <1>1 DEF Init, ExchangeInit, ExchangeTables, ExchangeIdle, NoHook, Payments, RefundStatus,
              BankStatus, Steps
<1>3. \A e \in Exchanges :
        /\ exchange[e].st = "none" /\ exchange[e].of = None /\ exchange[e].delta = 0
        /\ xhandler[e].pc = "idle" /\ xhook[e] = NoHook /\ xbank[e] = "none"
        /\ session[e] = "none" /\ applied[e] = 0
  BY <1>1 DEF ExchangeInit, NoExchange, ExchangeIdle
<1>4. ASSUME NEW e \in Exchanges PROVE RowOK(e)
  <2>1. exchange[e].of \notin Tickets /\ ~Active(e)
    BY <1>3, ExchangesAssumption DEF Active, ActiveStatuses
  <2>2. Priced(e) /\ HandlerStands(e)
    BY <1>3, <2>1 DEF Priced, HandlerStands
  <2>3. RefundStands(e) /\ SessionStands(e) /\ AppliedStands(e)
    BY <1>3, <2>1 DEF RefundStands, SessionStands, AppliedStands, NoHook
  <2>4. QED BY <2>2, <2>3 DEF RowOK
<1>5. ASSUME NEW t \in Tickets PROVE TicketOK(t)
  <2>1. /\ paid[t]["base"] = ticket[t].amount /\ paid[t]["upgrade"] = 0
        /\ back[t]["base"] = 0 /\ back[t]["upgrade"] = 0
    BY <1>1 DEF ExchangeInit, Payments
  <2>2. \A p \in Payments : atBank[t][p] # "succeeded"
    BY DEF Init
  <2>3. PICK h \in {Buyer, None}, k \in Types, b \in BOOLEAN : ticket[t] = Fresh(h, k, b)
    <3>1. ticket[t] \in Issued
      BY DEF Init
    <3>2. QED BY <3>1 DEF Issued
  <2>4. ticket[t].type = k /\ ticket[t].amount \in {0, Price[k]} /\ Price[k] \in Int
    BY <2>3, PriceAssumption DEF Fresh
  <2>5. TicketPriced(t)
    BY <2>4 DEF TicketPriced
  <2>6. OneActive(t)
    BY <1>3 DEF OneActive, ExchangesOf, Active, ActiveStatuses
  <2>7. RefundMoved(t) = 0
    BY <2>2, NothingRefunded
  <2>8. Owed = 0 /\ Prepaid(t) = 0
    <3>1. Owing = {} /\ ~Prepaying
      BY <1>3 DEF Owing, Prepaying
    <3>2. QED BY <3>1, FS_EmptySet DEF Owed, Prepaid
  <2>9. Kept(t) = ticket[t].amount /\ ticket[t].amount \in Int
    BY <2>1, <2>4 DEF Kept
  <2>10. Balanced(t)
    BY <2>7, <2>8, <2>9 DEF Balanced, ExchangeMoved
  <2>11. QED BY <2>5, <2>6, <2>10 DEF TicketOK
<1>6. QED BY <1>2, <1>4, <1>5 DEF AccountsInv

(* Every step keeps the accounts. *)
LEMMA AccountsStep ==
  ASSUME DeskInv, Ledger, AccountsInv, [Next]_vars
  PROVE  AccountsInv'
<1>1. ASSUME NEW t \in Tickets, Hands(t) \/ Door(t) PROVE AccountsInv'
  BY <1>1, PeopleAccounts
<1>2. ASSUME NEW t \in Tickets, Refunding(t) PROVE AccountsInv'
  BY <1>2, RefundingAccounts
<1>3. CASE "exchange" \in Acts /\ Exchanging
  BY <1>3, ExchangingAccounts
<1>4. ASSUME NEW d \in Scanners, ClaimRedemption(d) PROVE AccountsInv'
  BY <1>4, ScanAccounts
<1>5. CASE ChargeRefunded
  BY <1>5, ChargeAccounts
<1>6. CASE UNCHANGED vars
  <2>1. UNCHANGED <<ticket, exchanging, back, lost, alloc, atBank>>
    BY <1>6 DEF vars, money, xvars, bank, exchanging
  <2>2. PricesKept /\ \A u \in Tickets : RefundMoved(u)' = RefundMoved(u)
    BY <2>1, RefundMovedSame DEF PricesKept
  <2>3. QED BY <2>1, <2>2, BooksUntouched
<1>7. QED BY <1>1, <1>2, <1>3, <1>4, <1>5, <1>6 DEF Next

LEMMA AccountsInvariant == Spec => []AccountsInv
<1>1. Init => AccountsInv
  BY AccountsInit
<1>2. DeskInv /\ Ledger /\ AccountsInv /\ [Next]_vars => AccountsInv'
  BY AccountsStep
<1>3. QED BY <1>1, <1>2, DeskInvariant, PTL DEF Spec

(* An exchange of the ticket that is through, or given up without its        *)
(* difference having gone back, owes the ticket nothing.                   *)
LEMMA NothingOwed ==
  ASSUME Ledger, AccountsInv, Single, "exchange" \in Acts, NEW t \in Tickets, ~ActiveExchange(t),
         \A e \in ExchangesOf(t) : ~(xbank[e] = "succeeded" /\ exchange[e].st = "failed")
  PROVE  ExchangeMoved(t) = 0
<1>1. Owing = {}
  <2> SUFFICES ASSUME NEW e \in Exchanges, xbank[e] = "succeeded", applied[e] = 0 PROVE FALSE
    BY DEF Owing
  <2>1. RowOK(e) /\ exchange[e] \in ExchangeRow
    BY DEF AccountsInv, Ledger
  <2>2. exchange[e].of = t
    BY <2>1 DEF RowOK, RefundStands, Single
  <2>3. exchange[e].st \notin {"none", "completed", "failed"}
    BY <2>1, <2>2 DEF RowOK, Priced, AppliedStands, ExchangesOf
  <2>4. ~Active(e)
    BY <2>2 DEF ActiveExchange, ExchangesOf
  <2>5. QED BY <2>1, <2>3, <2>4 DEF ExchangeRow, ExchangeStatus, Active
<1>2. ~Prepaying
  <2> SUFFICES ASSUME NEW e \in Exchanges, session[e] = "paid", applied[e] = 0 PROVE FALSE
    BY DEF Prepaying
  <2>1. RowOK(e) /\ exchange[e] \in ExchangeRow
    BY DEF AccountsInv, Ledger
  <2>2. Active(e) /\ exchange[e].delta > 0
    BY <2>1 DEF RowOK, SessionStands
  <2>3. exchange[e].of = t
    BY <2>1, <2>2 DEF ExchangeRow, Single
  <2>4. QED BY <2>2, <2>3 DEF ActiveExchange, ExchangesOf
<1>3. Owed = 0 /\ Prepaid(t) = 0
  BY <1>1, <1>2, FS_EmptySet DEF Owed, Prepaid
<1>4. QED BY <1>3 DEF ExchangeMoved

(* Where exchanges are not offered there are none. *)
NoneExchanged ==
  "exchange" \notin Acts =>
    \A e \in Exchanges : /\ exchange[e] = NoExchange /\ xbank[e] = "none"
                         /\ session[e] = "none" /\ applied[e] = 0

LEMMA OnlyExchanging ==
  ASSUME [Next]_vars
  PROVE  ("exchange" \in Acts /\ Exchanging) \/ UNCHANGED exchanging
<1>1. ASSUME NEW t \in Tickets, Hands(t) PROVE UNCHANGED exchanging
  BY <1>1 DEF Hands, RequestAssignment, AcceptAssignment, CancelAssignment, ResendAssignment,
         ExpireAssignment, RequestTransfer, AcceptTransfer, EndTransfer, RequestReturn, Consent,
         EndReturn, money, xvars, bank, exchanging
<1>2. ASSUME NEW t \in Tickets, Refunding(t) PROVE UNCHANGED exchanging
  BY <1>2 DEF Refunding, StartRefund, StartReturnRefund, Prepare, RefuseReturnRefund, AnswerRefund,
         CallFailed, RecordAnswer, BankSettles, HookAllocation, MarkRefunded, TellReturn, HookReturn,
         HookTicket, Crash, xvars, bank, exchanging
<1>3. ASSUME NEW t \in Tickets, Door(t) PROVE UNCHANGED exchanging
  BY <1>3 DEF Door, Look, Unredeem, VoidTicket, money, xvars, bank, exchanging
<1>4. ASSUME NEW d \in Scanners, ClaimRedemption(d) PROVE UNCHANGED exchanging
  BY <1>4 DEF ClaimRedemption, money, xvars, bank, exchanging
<1>5. ChargeRefunded \/ UNCHANGED vars => UNCHANGED exchanging
  BY DEF ChargeRefunded, vars, money, xvars, bank, exchanging
<1>6. QED BY <1>1, <1>2, <1>3, <1>4, <1>5 DEF Next

LEMMA NoneExchangedAlways == Spec => []NoneExchanged
<1>1. Init => NoneExchanged
  BY DEF Init, ExchangeInit, NoneExchanged
<1>2. NoneExchanged /\ [Next]_vars => NoneExchanged'
  BY OnlyExchanging DEF NoneExchanged, exchanging, xhistory
<1>3. QED BY <1>1, <1>2, PTL DEF Spec

(* beginTicketExchange, refundTicket and their webhooks together: the        *)
(* amount of a ticket in use is what Stripe keeps for it, unless an answer  *)
(* got lost, an exchange was given up whose difference had gone back, or    *)
(* one's change was made twice.  Where exchanges are offered the order is   *)
(* one of a single ticket.                                                 *)
THEOREM AmountsMatchMoney ==
  ASSUME "exchange" \in Acts => \A t, u \in Tickets : t = u
  PROVE  Spec => []AmountMatchesMoney
<1>1. Single
  BY DEF Single
<1>2. DeskInv /\ Ledger /\ AccountsInv /\ NoneExchanged => AmountMatchesMoney
  <2> SUFFICES ASSUME DeskInv, Ledger, AccountsInv, NoneExchanged, NEW t \in Tickets,
                      ticket[t].status = "valid", ~ActiveExchange(t), ~lost[t],
                      \A e \in ExchangesOf(t) :
                        /\ applied[e] <= 1
                        /\ ~(xbank[e] = "succeeded" /\ exchange[e].st = "failed")
               PROVE  ticket[t].amount = Left(t, "base") + Left(t, "upgrade")
    BY DEF AmountMatchesMoney
  <2>1. Numbers(t)
    BY AccountNumbers
  <2>2. ExchangeMoved(t) = 0 /\ OnceEach
    <3>1. CASE "exchange" \in Acts
      <4>1. ASSUME NEW e \in Exchanges PROVE applied[e] <= 1
        <5>1. AppliedStands(e) /\ applied[e] \in Nat
          BY DEF AccountsInv, RowOK, ExchangeTables
        <5>2. applied[e] > 0 => e \in ExchangesOf(t)
          BY <1>1, <3>1, <5>1 DEF AppliedStands, Single, ExchangesOf
        <5>3. QED BY <5>1, <5>2
      <4>2. QED BY <1>1, <3>1, <4>1, NothingOwed DEF OnceEach
    <3>2. CASE "exchange" \notin Acts
      <4>1. Owing = {} /\ ~Prepaying /\ OnceEach
        BY <3>2 DEF NoneExchanged, Owing, Prepaying, OnceEach
      <4>2. QED BY <4>1, FS_EmptySet DEF ExchangeMoved, Owed, Prepaid
    <3>3. QED BY <3>1, <3>2
  <2>3. RefundMoved(t) = 0
    BY NothingRefunded, ValidNotUnderWay DEF DeskInv, RefundUnderWay
  <2>4. ticket[t].amount = Kept(t)
    BY <1>1, <2>1, <2>2, <2>3 DEF AccountsInv, TicketOK, Balanced, Numbers
  <2>5. \A p \in Payments : paid[t][p] \in Int /\ back[t][p] \in Int
    BY DEF Ledger
  <2>6. QED BY <2>4, <2>5 DEF Kept, Left, Payments
<1>3. QED BY <1>2, AccountsInvariant, DeskInvariant, NoneExchangedAlways, PTL

-----------------------------------------------------------------------------
(* The types: the remaining tables, and that no sum of money is negative. *)
RestTyped ==
  /\ consented \in [Tickets -> BOOLEAN] /\ hook \in [Tickets -> {"idle", "return", "ticket"}]
  /\ faults \in 0..MaxFaults /\ overtaken \subseteq Exchanges
MoneyTyped ==
  /\ paid \in [Tickets -> [Payments -> Nat]] /\ back \in [Tickets -> [Payments -> Nat]]
  /\ \A t \in Tickets, p \in Payments : alloc[t][p].amount \in Nat

(* Paid are the prices, nothing went back and nothing is allocated. *)
LEMMA TypesInit == Init => RestTyped /\ MoneyTyped
<1> SUFFICES ASSUME Init PROVE RestTyped /\ MoneyTyped
  OBVIOUS
<1>1. ExchangeInit([t \in Tickets |-> ticket[t].amount])
  BY DEF Init
<1>2. RestTyped
  BY <1>1, BoundAssumption DEF Init, ExchangeInit, RestTyped
<1>3. \A t \in Tickets : ticket[t].amount \in Nat
  <2> SUFFICES ASSUME NEW t \in Tickets PROVE ticket[t].amount \in Nat
    OBVIOUS
  <2>1. PICK h \in {Buyer, None}, k \in Types, b \in BOOLEAN : ticket[t] = Fresh(h, k, b)
    <3>1. ticket[t] \in Issued
      BY DEF Init
    <3>2. QED BY <3>1 DEF Issued
  <2>2. QED BY <2>1, PriceAssumption DEF Fresh
<1>4. paid \in [Tickets -> [Payments -> Nat]] /\ back \in [Tickets -> [Payments -> Nat]]
  BY <1>1, <1>3 DEF ExchangeInit
<1>5. \A t \in Tickets, p \in Payments : alloc[t][p].amount = 0
  BY DEF Init, NoAllocation
<1>6. QED BY <1>2, <1>4, <1>5 DEF MoneyTyped

(* The tables without money. *)
LEMMA RestStep ==
  ASSUME AccountsInv, RestTyped, [Next]_vars
  PROVE  RestTyped'
<1>1. consented \in [Tickets -> BOOLEAN] /\ hook \in [Tickets -> {"idle", "return", "ticket"}]
      /\ faults \in 0..MaxFaults /\ overtaken \subseteq Exchanges
  BY DEF RestTyped
<1>2. ASSUME NEW t \in Tickets, Hands(t) PROVE RestTyped'
  <2>1. UNCHANGED <<hook, faults, overtaken>>
    BY <1>2 DEF Hands, RequestAssignment, AcceptAssignment, CancelAssignment, ResendAssignment,
                ExpireAssignment, RequestTransfer, AcceptTransfer, EndTransfer, RequestReturn,
                Consent, EndReturn, money, xvars, xhistory
  <2>2. consented' = consented \/ consented' = [consented EXCEPT ![t] = TRUE]
    BY <1>2 DEF Hands, RequestAssignment, AcceptAssignment, CancelAssignment, ResendAssignment,
                ExpireAssignment, RequestTransfer, AcceptTransfer, EndTransfer, RequestReturn,
                Consent, EndReturn, money
  <2>3. QED BY <1>1, <2>1, <2>2 DEF RestTyped
<1>3. ASSUME NEW t \in Tickets, Door(t) PROVE RestTyped'
  BY <1>1, <1>3 DEF Door, Look, Unredeem, VoidTicket, money, xvars, xhistory, RestTyped
<1>4. ASSUME NEW t \in Tickets, Refunding(t) PROVE RestTyped'
  <2> USE DEF Refunding, StartRefund, StartReturnRefund, Prepare, RefuseReturnRefund, AnswerRefund,
              CallFailed, RecordAnswer, BankSettles, HookAllocation, MarkRefunded, TellReturn,
              HookReturn, HookTicket, Crash
  <2>1. consented' = consented \/ consented' = [consented EXCEPT ![t] = FALSE]
    BY <1>4
  <2>2. hook' = hook \/ \E v \in {"idle", "return", "ticket"} : hook' = [hook EXCEPT ![t] = v]
    BY <1>4
  <2>3. faults' = faults \/ (faults < MaxFaults /\ faults' = faults + 1)
    BY <1>4
  <2>4. overtaken' = overtaken
    BY <1>4 DEF xvars, exchanging, xhistory
  <2>5. faults' \in 0..MaxFaults
    BY <1>1, <2>3, BoundAssumption
  <2>6. consented' \in [Tickets -> BOOLEAN] /\ hook' \in [Tickets -> {"idle", "return", "ticket"}]
    BY <1>1, <2>1, <2>2
  <2>7. QED BY <1>1, <2>4, <2>5, <2>6 DEF RestTyped
<1>5. CASE Exchanging
  <2>1. UNCHANGED <<consented, hook>>
    BY <1>5 DEF Exchanging
  <2>2. faults' = faults \/ (faults < MaxFaults /\ faults' = faults + 1)
    BY <1>5 DEF Exchanging
  <2>3. faults' \in 0..MaxFaults
    BY <1>1, <2>2, BoundAssumption
  <2>4. \/ overtaken' = overtaken
        \/ \E t \in Tickets : overtaken' = overtaken \cup {x \in ExchangesOf(t) : AtWork(x)}
    BY <1>5 DEF Exchanging, ExchangeNext, ReserveExchange, CompleteFree, AllocateExchangeRefund,
           CallExchangeRefund, ExchangeCallFails, ExchangeAnswerLost, WriteExchangeRefund,
           PendExchange, CheckExchange, FinishExchange, OpenExchangeSession, AwaitPayment,
           ExchangeBankSettles, SessionEnds, HookReadsExchange, HookExchangeRefund, FulfilExchange,
           ExpireExchange, UpgradeRefunded, ExchangeStops, xhistory, xvars
  <2>5. overtaken' \subseteq Exchanges
    BY <1>1, <2>4 DEF ExchangesOf
  <2>6. QED BY <1>1, <2>1, <2>3, <2>5 DEF RestTyped
<1>6. ASSUME NEW d \in Scanners, ClaimRedemption(d) PROVE RestTyped'
  BY <1>1, <1>6 DEF ClaimRedemption, money, xvars, xhistory, RestTyped
<1>7. CASE ChargeRefunded \/ UNCHANGED vars
  BY <1>1, <1>7 DEF ChargeRefunded, vars, money, xvars, xhistory, RestTyped
<1>8. QED BY <1>2, <1>3, <1>4, <1>5, <1>6, <1>7 DEF Next

(* An amount added to what went back of some payment. *)
LEMMA BackStaysNat ==
  ASSUME back \in [Tickets -> [Payments -> Nat]], NEW u \in Tickets, NEW p \in Payments, NEW n \in Nat
  PROVE  [back EXCEPT ![u][p] = @ + n] \in [Tickets -> [Payments -> Nat]]
<1>1. back[u][p] + n \in Nat
  OBVIOUS
<1>2. [back[u] EXCEPT ![p] = back[u][p] + n] \in [Payments -> Nat]
  BY <1>1
<1>3. QED BY <1>2

(* Prepare allocates shares that are positive or nothing. *)
LEMMA AllocatedIsNat ==
  ASSUME NEW t \in Tickets, NEW p \in Payments, Allocated(t, p) \in AllocationRow
  PROVE  Allocated(t, p).amount \in Nat
<1>1. Allocated(t, p).amount \in Int
  BY DEF AllocationRow
<1>2. CASE Share(t, p) > 0
  <2>1. Allocated(t, p).amount = Share(t, p)
    BY <1>2 DEF Allocated
  <2>2. QED BY <1>1, <1>2, <2>1
<1>3. CASE ~(Share(t, p) > 0)
  BY <1>3 DEF Allocated, NoAllocation
<1>4. QED BY <1>2, <1>3

(* The tables with money. *)
LEMMA MoneyStep ==
  ASSUME DeskInv, Ledger, AccountsInv, MoneyTyped, [Next]_vars
  PROVE  MoneyTyped'
<1>1. /\ paid \in [Tickets -> [Payments -> Nat]] /\ back \in [Tickets -> [Payments -> Nat]]
      /\ \A t \in Tickets, p \in Payments : alloc[t][p].amount \in Nat
  BY DEF MoneyTyped
<1>2. CASE UNCHANGED <<paid, back, alloc>>
  BY <1>1, <1>2 DEF MoneyTyped
<1>3. ASSUME NEW t \in Tickets, Hands(t) \/ Door(t) PROVE UNCHANGED <<paid, back, alloc>>
  BY <1>3 DEF Hands, RequestAssignment, AcceptAssignment, CancelAssignment, ResendAssignment,
           ExpireAssignment, RequestTransfer, AcceptTransfer, EndTransfer, RequestReturn, Consent,
           EndReturn, Door, Look, Unredeem, VoidTicket, money, xvars, bank
<1>4. ASSUME NEW d \in Scanners, ClaimRedemption(d) PROVE UNCHANGED <<paid, back, alloc>>
  BY <1>4 DEF ClaimRedemption, money, xvars, bank
<1>5. ChargeRefunded \/ UNCHANGED vars => UNCHANGED <<paid, back, alloc>>
  BY DEF ChargeRefunded, vars, money, xvars, bank
<1>6. ASSUME NEW t \in Tickets, Refunding(t) PROVE MoneyTyped'
  <2>1. paid' = paid /\ (back' = back \/ \E p \in Payments : back' = Reached(t, p))
    BY <1>6 DEF Refunding, StartRefund, StartReturnRefund, Prepare, RefuseReturnRefund,
              AnswerRefund, CallFailed, RecordAnswer, BankSettles, HookAllocation, MarkRefunded,
              TellReturn, HookReturn, HookTicket, Crash, xvars, bank, exchanging
  <2>2. back' \in [Tickets -> [Payments -> Nat]]
    <3>1. ASSUME NEW p \in Payments PROVE Reached(t, p) \in [Tickets -> [Payments -> Nat]]
      <4> DEFINE n == alloc[t][p].amount
      <4>1. n \in Nat /\ Reached(t, p) = [back EXCEPT ![t][p] = @ + n]
        BY <1>1 DEF Reached
      <4> HIDE DEF n
      <4>2. QED BY <1>1, <4>1, BackStaysNat
    <3>2. QED BY <1>1, <2>1, <3>1
  <2>3. \/ alloc' = alloc \/ (\E req \in BOOLEAN : Prepare(t, req))
        \/ \E p \in Payments : \E st : \/ alloc' = [alloc EXCEPT ![t][p].st = st]
                                       \/ alloc' = [alloc EXCEPT ![t][p].st = st, ![t][p].ref = TRUE]
    BY <1>6 DEF Refunding, StartRefund, StartReturnRefund, RefuseReturnRefund,
              AnswerRefund, CallFailed, RecordAnswer, BankSettles, HookAllocation, MarkRefunded,
              TellReturn, HookReturn, HookTicket, Crash
  <2>4. ASSUME NEW req \in BOOLEAN, Prepare(t, req)
        PROVE  \A u \in Tickets, p \in Payments : alloc'[u][p].amount \in Nat
    <3>1. DeskInv'
      BY <2>4, PrepareInv
    <3>2. /\ \A u \in Tickets \ {t} : alloc'[u] = alloc[u]
          /\ \A p \in Payments : alloc'[t][p] = Allocated(t, p)
      BY <2>4 DEF Prepare, DeskInv, Tables
    <3>3. \A p \in Payments : alloc'[t][p] \in AllocationRow
      BY <3>1 DEF DeskInv, DeskOK, Rows
    <3>4. \A p \in Payments : alloc'[t][p].amount \in Nat
      BY <3>2, <3>3, AllocatedIsNat
    <3>5. QED BY <1>1, <3>2, <3>4
  <2>5. \A u \in Tickets, p \in Payments : alloc'[u][p].amount \in Nat
    BY <1>1, <2>3, <2>4, AllocationKeepsAmount
  <2>6. QED BY <1>1, <2>1, <2>2, <2>5 DEF MoneyTyped
<1>7. CASE Exchanging
  <2>1. alloc' = alloc /\ ExchangeStep
    BY <1>7 DEF Exchanging, ExchangeStep
  <2>2. ASSUME NEW e \in Exchanges, RowStep(e)
        PROVE  /\ back' = back \/ (xrefund[e].of \in Tickets /\ back' = PaidBack(e))
               /\ \/ paid' = paid
                  \/ /\ session[e] = "open"
                     /\ paid' = [paid EXCEPT ![exchange[e].of]["upgrade"] = exchange[e].delta]
    <3>1. \/ UNCHANGED back
          \/ (xhandler[e].pc = "call" \/ xbank[e] = "pending") /\ back' = PaidBack(e)
      BY <2>2 DEF RowStep, ReserveExchange, CompleteFree, AllocateExchangeRefund,
           CallExchangeRefund, ExchangeCallFails, ExchangeAnswerLost, WriteExchangeRefund,
           PendExchange, CheckExchange, FinishExchange, OpenExchangeSession, AwaitPayment,
           ExchangeBankSettles, SessionEnds, HookReadsExchange, HookExchangeRefund, FulfilExchange,
           ExpireExchange, ExchangeStops, Refunds, bank
    <3>2. xhandler[e].pc = "call" \/ xbank[e] = "pending" => xrefund[e].of \in Tickets
      BY DEF AccountsInv, RowOK, HandlerStands, RefundStands
    <3>3. \/ UNCHANGED paid
          \/ /\ session[e] = "open"
             /\ paid' = [paid EXCEPT ![exchange[e].of]["upgrade"] = exchange[e].delta]
      BY <2>2 DEF RowStep, ReserveExchange, CompleteFree, AllocateExchangeRefund,
           CallExchangeRefund, ExchangeCallFails, ExchangeAnswerLost, WriteExchangeRefund,
           PendExchange, CheckExchange, FinishExchange, OpenExchangeSession, AwaitPayment,
           ExchangeBankSettles, SessionEnds, HookReadsExchange, HookExchangeRefund, FulfilExchange,
           ExpireExchange, ExchangeStops, bank
    <3>4. QED BY <3>1, <3>2, <3>3
  <2>3. ASSUME NEW e \in Exchanges, RowStep(e) PROVE MoneyTyped'
    <3>1. back' \in [Tickets -> [Payments -> Nat]]
      <4>1. CASE back' = back
        BY <1>1, <4>1
      <4>2. CASE xrefund[e].of \in Tickets /\ back' = PaidBack(e)
        <5>1. xrefund[e].pay \in Payments
          BY DEF AccountsInv, ExchangeTables
        <5>2. PICK u \in Tickets, p \in Payments : u = xrefund[e].of /\ p = xrefund[e].pay
          BY <4>2, <5>1
        <5>3. PaidBack(e) = [back EXCEPT ![u][p] = @ + 1]
          BY <5>2 DEF PaidBack
        <5>4. [back EXCEPT ![u][p] = @ + 1] \in [Tickets -> [Payments -> Nat]]
          BY <1>1, BackStaysNat
        <5>5. QED BY <4>2, <5>3, <5>4
      <4>3. QED BY <2>2, <2>3, <4>1, <4>2
    <3>2. session[e] = "open" => exchange[e].delta \in Nat
      BY DEF AccountsInv, RowOK, SessionStands, Ledger, ExchangeRow
    <3>3. paid' \in [Tickets -> [Payments -> Nat]]
      <4>1. CASE exchange[e].of \notin Tickets \/ paid' = paid
        BY <1>1, <2>2, <2>3, <4>1
      <4>2. ASSUME NEW u \in Tickets, NEW n \in Nat, paid' = [paid EXCEPT ![u]["upgrade"] = n]
            PROVE  paid' \in [Tickets -> [Payments -> Nat]]
        BY <1>1, <4>2 DEF Payments
      <4>3. QED BY <2>2, <2>3, <3>2, <4>1, <4>2
    <3>4. QED BY <1>1, <2>1, <3>1, <3>3 DEF MoneyTyped
  <2>4. ASSUME NEW t \in Tickets, UpgradeRefunded(t) PROVE UNCHANGED <<paid, back, alloc>>
    BY <2>1, <2>4 DEF UpgradeRefunded, xvars, bank
  <2>5. QED BY <1>2, <2>1, <2>3, <2>4, StepsOfRows
<1>8. QED BY <1>2, <1>3, <1>4, <1>5, <1>6, <1>7 DEF Next

(* A table has no more to it than its rows. *)
IsTable(f) == f = [x \in DOMAIN f |-> f[x]]
Shapes ==
  /\ IsTable(ticket) /\ IsTable(moved) /\ IsTable(pending) /\ IsTable(return)
  /\ IsTable(alloc) /\ IsTable(refund) /\ IsTable(atBank)
  /\ \A t \in Tickets : IsTable(alloc[t])

(* So its rows type it. *)
LEMMA TableOf ==
  ASSUME NEW f, NEW S, NEW R, IsTable(f), DOMAIN f = S, \A x \in S : f[x] \in R
  PROVE  f \in [S -> R]
  BY DEF IsTable

LEMMA ShapesInit == Init => Shapes
<1> SUFFICES ASSUME Init PROVE Shapes
  OBVIOUS
<1>1. IsTable(ticket)
  BY DEF Init, IsTable
<1>2. IsTable(moved) /\ IsTable(pending) /\ IsTable(return) /\ IsTable(refund)
  BY DEF Init, IsTable
<1>3. IsTable(alloc) /\ IsTable(atBank) /\ \A t \in Tickets : IsTable(alloc[t])
  BY DEF Init, IsTable
<1>4. QED BY <1>1, <1>2, <1>3 DEF Shapes

(* A step replaces rows. *)
LEMMA ShapesStep ==
  ASSUME DeskInv, Shapes, [Next]_vars
  PROVE  Shapes'
<1>1. /\ IsTable(ticket) /\ IsTable(moved) /\ IsTable(pending) /\ IsTable(return)
      /\ IsTable(alloc) /\ IsTable(refund) /\ IsTable(atBank)
      /\ \A t \in Tickets : IsTable(alloc[t])
  BY DEF Shapes
<1>2. ASSUME NEW t \in Tickets, Hands(t) PROVE Shapes'
  <2> USE DEF Hands, RequestAssignment, AcceptAssignment, CancelAssignment, ResendAssignment,
              ExpireAssignment, RequestTransfer, AcceptTransfer, EndTransfer, RequestReturn,
              Consent, EndReturn, Attach, SetStatus
  <2>1. IsTable(ticket)'
    BY <1>1, <1>2 DEF IsTable
  <2>2. IsTable(moved)' /\ IsTable(pending)'
    BY <1>1, <1>2 DEF IsTable
  <2>3. IsTable(return)'
    BY <1>1, <1>2 DEF IsTable
  <2>4. UNCHANGED <<alloc, refund, atBank>>
    BY <1>2 DEF money
  <2>5. QED BY <1>1, <2>1, <2>2, <2>3, <2>4 DEF Shapes, IsTable
<1>3. ASSUME NEW t \in Tickets, Door(t) PROVE Shapes'
  <2>1. IsTable(ticket)'
    BY <1>1, <1>3 DEF IsTable, Door, Look, Unredeem, VoidTicket, SetStatus
  <2>2. UNCHANGED <<moved, pending, return, alloc, refund, atBank>>
    BY <1>3 DEF Door, Look, Unredeem, VoidTicket, people, money
  <2>3. QED BY <1>1, <2>1, <2>2 DEF Shapes, IsTable
<1>4. ASSUME NEW t \in Tickets, Refunding(t) PROVE Shapes'
  <2> USE DEF Refunding, StartRefund, StartReturnRefund, Prepare, RefuseReturnRefund, AnswerRefund,
              CallFailed, RecordAnswer, BankSettles, HookAllocation, MarkRefunded, TellReturn,
              HookReturn, HookTicket, Crash, SetStatus
  <2>1. IsTable(ticket)'
    BY <1>1, <1>4 DEF IsTable
  <2>2. IsTable(moved)' /\ IsTable(pending)'
    BY <1>1, <1>4 DEF IsTable, people
  <2>3. IsTable(return)'
    BY <1>1, <1>4 DEF IsTable, people
  <2>4. IsTable(refund)' /\ IsTable(atBank)'
    BY <1>1, <1>4 DEF IsTable
  <2>5. \/ alloc' = alloc
        \/ alloc' = [alloc EXCEPT ![t] = [p \in Payments |-> Allocated(t, p)]]
        \/ \E p \in Payments : \E st : \/ alloc' = [alloc EXCEPT ![t][p].st = st]
                                       \/ alloc' = [alloc EXCEPT ![t][p].st = st, ![t][p].ref = TRUE]
    BY <1>4
  <2>6. DOMAIN alloc = Tickets
    BY DEF DeskInv, Tables
  <2>7. IsTable(alloc)'
    BY <1>1, <2>5 DEF IsTable
  <2>8. \A u \in Tickets : IsTable(alloc[u])'
    BY <1>1, <2>5, <2>6 DEF IsTable
  <2>9. QED BY <2>1, <2>2, <2>3, <2>4, <2>7, <2>8 DEF Shapes
<1>5. CASE Exchanging
  <2>1. ExchangeStep /\ UNCHANGED <<moved, pending, return, alloc, refund, atBank>>
    BY <1>5 DEF Exchanging, ExchangeStep, people
  <2>2. IsTable(ticket)'
    BY <1>1, <2>1, ExchangeOfTicket DEF IsTable, Completed
  <2>3. QED BY <1>1, <2>1, <2>2 DEF Shapes, IsTable
<1>6. ASSUME NEW d \in Scanners, ClaimRedemption(d) PROVE Shapes'
  <2>1. IsTable(ticket)'
    BY <1>1, <1>6 DEF IsTable, ClaimRedemption
  <2>2. UNCHANGED <<moved, pending, return, alloc, refund, atBank>>
    BY <1>6 DEF ClaimRedemption, people, money
  <2>3. QED BY <1>1, <2>1, <2>2 DEF Shapes, IsTable
<1>7. CASE ChargeRefunded
  <2>1. IsTable(ticket)'
    BY <1>7 DEF IsTable, ChargeRefunded
  <2>2. UNCHANGED <<moved, pending, return, alloc, refund, atBank>>
    BY <1>7 DEF ChargeRefunded, people, money
  <2>3. QED BY <1>1, <2>1, <2>2 DEF Shapes, IsTable
<1>8. CASE UNCHANGED vars
  BY <1>1, <1>8 DEF Shapes, IsTable, vars, people, money
<1>9. QED BY <1>2, <1>3, <1>4, <1>5, <1>6, <1>7, <1>8 DEF Next

(* Every table keeps its type: a ticket costs nothing or its type's price,  *)
(* and no payment, allocation or sum that went back is negative, however    *)
(* exchanges, refunds, crashes and webhooks follow on each other.          *)
THEOREM OperationsAreTyped == Spec => []TypeOK
<1>1. Init => Shapes /\ RestTyped /\ MoneyTyped
  BY ShapesInit, TypesInit
<1>2. DeskInv /\ Ledger /\ AccountsInv /\ Shapes /\ RestTyped /\ MoneyTyped /\ [Next]_vars
        => (Shapes /\ RestTyped /\ MoneyTyped)'
  BY ShapesStep, RestStep, MoneyStep
<1>3. DeskInv /\ Ledger /\ AccountsInv /\ Shapes /\ RestTyped /\ MoneyTyped => TypeOK
  <2> SUFFICES ASSUME DeskInv, Ledger, AccountsInv, Shapes, RestTyped, MoneyTyped PROVE TypeOK
    OBVIOUS
  <2> DEFINE Row == [status : {"valid", "void", "refunded"}, redeemed : BOOLEAN,
                     ref : 0..MaxRef, holder : Persons \cup {None},
                     type : Types, amount : Nat, paid : BOOLEAN]
             Allocation == [st : {"none", "processing", "pending", "succeeded", "failed"},
                            amount : Nat, ref : BOOLEAN]
  <2>1. ExchangeTypeOK
    BY DEF ExchangeTypeOK, Ledger, ExchangeRow, ExchangeStatus, AccountsInv, ExchangeTables,
           RefundStatus, BankStatus, Steps, RestTyped, MoneyTyped
  <2>2. Tables /\ \A t \in Tickets : Rows(t)
    BY DEF DeskInv, DeskOK
  <2>3. ticket \in [Tickets -> Row]
    <3>1. ASSUME NEW t \in Tickets PROVE ticket[t] \in Row
      <4>1. ticket[t] \in TicketRow
        BY <2>2 DEF Rows
      <4>2. ticket[t].type \in Types
        BY <4>1 DEF TicketRow
      <4>3. ticket[t].amount \in Nat
        BY <4>2, PriceAssumption DEF AccountsInv, TicketOK, TicketPriced
      <4>4. QED BY <4>1, <4>3 DEF TicketRow
    <3> HIDE DEF Row
    <3>2. QED BY <2>2, <3>1, TableOf DEF Shapes, Tables
  <2>4. moved \in [Tickets -> BOOLEAN]
    <3>1. IsTable(moved) /\ DOMAIN moved = Tickets /\ \A t \in Tickets : moved[t] \in BOOLEAN
      BY <2>2 DEF Shapes, Tables, Rows
    <3>2. QED BY Zenon, <3>1, TableOf
  <2>5. pending \in [Tickets -> Operation \cup {None}] /\ assign \in [Tickets -> Operation \cup {None}]
    BY <2>2, TableOf DEF Shapes, Tables, Rows, Ledger
  <2>6. return \in [Tickets -> ReturnRow] /\ refund \in [Tickets -> RefundHandler]
    BY <2>2, TableOf DEF Shapes, Tables, Rows
  <2>7. alloc \in [Tickets -> [Payments -> Allocation]]
    <3>1. \A t \in Tickets, p \in Payments : alloc[t][p] \in AllocationRow /\ alloc[t][p].amount \in Nat
      BY <2>2 DEF Rows, MoneyTyped
    <3>2. \A t \in Tickets, p \in Payments : alloc[t][p] \in Allocation
      BY <3>1 DEF AllocationRow
    <3> HIDE DEF Allocation
    <3>3. \A t \in Tickets : alloc[t] \in [Payments -> Allocation]
      BY <2>2, <3>2, TableOf DEF Shapes, Rows
    <3>4. QED BY <2>2, <3>3, TableOf DEF Shapes, Tables
  <2>8. atBank \in [Tickets -> [Payments -> {"none", "pending", "succeeded", "failed"}]]
    <3>1. /\ IsTable(atBank) /\ DOMAIN atBank = Tickets
          /\ \A t \in Tickets : atBank[t] \in [Payments -> {"none", "pending", "succeeded", "failed"}]
      BY <2>2 DEF Shapes, Tables, Rows
    <3>2. QED BY Zenon, <3>1, TableOf
  <2>9. QED BY <2>1, <2>2, <2>3, <2>4, <2>5, <2>6, <2>7, <2>8
            DEF TypeOK, ReturnRow, RefundHandler, RestTyped, AccountsInv, ExchangeTables, Tables
<1>4. QED BY <1>1, <1>2, <1>3, DeskInvariant, AccountsInvariant, PTL DEF Spec
=============================================================================
