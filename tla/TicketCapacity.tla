--------------------------- MODULE TicketCapacity ---------------------------
(***************************************************************************)
(* How much of an event is sold and how much is held.  Everything that     *)
(* sells a place (checkout, issuance, exchange) asks these questions while *)
(* it holds the row locks of the event and of the ticket type.             *)
(***************************************************************************)
EXTENDS Naturals, FiniteSets

CONSTANTS
  Refs,         \* checkout references; Stripe's idempotency key gives each
                \* at most one session and one PaymentIntent
  Types,        \* ticket types of the one event
  Persons,      \* buyers, by e-mail hash
  MaxTickets,   \* bound: ticket rows that can ever be inserted
  TypeOf,       \* the ticket type a reference buys
  BuyerOf,      \* the buyer of a reference
  QtyOf,        \* the number of tickets a reference buys
  MaxQty,       \* MAX_TICKETS_PER_ORDER
  Quantity,     \* ticket_types.quantity
  PersonLimit,  \* ticket_types.per_person_limit
  Capacity      \* events.capacity

ASSUME CapacityAssumption ==
  /\ IsFiniteSet(Refs)
  /\ MaxTickets \in Nat
  /\ MaxQty \in Nat
  /\ TypeOf \in [Refs -> Types]
  /\ BuyerOf \in [Refs -> Persons]
  /\ QtyOf \in [Refs -> 1..MaxQty]
  /\ Quantity \in [Types -> Nat]
  /\ PersonLimit \in [Types -> Nat]
  /\ Capacity \in Nat

TicketIds == 1..MaxTickets

VARIABLES
  row,      \* checkout_sessions: the status and the refund_ref of a reference
  lapsed,   \* expires_at <= now() for the row
  tickets   \* the tickets table; a row not inserted yet has status "none"

(* Places sold: the rows that are counted are the valid ones. *)
SoldOfType(ty) == {t \in TicketIds : tickets[t].status = "valid" /\ tickets[t].type = ty}
SoldOfEvent == {t \in TicketIds : tickets[t].status = "valid"}
SoldToPerson(ty, p) == {t \in SoldOfType(ty) : tickets[t].holder = p}

(* ACTIVE_CHECKOUT_HOLD_SQL *)
ActiveHold(r) ==
  \/ row[r].status \in {"creating", "pending"} /\ ~lapsed[r]
  \/ row[r].status \in {"payment_pending", "fulfilling", "payment_mismatch"}

(* countCheckoutHolds: the held places of every reference but one, so that *)
(* a sum of quantities is the size of a set.                               *)
HeldPlaces(except) ==
  {p \in Refs \X (1..MaxQty) :
     p[1] # except /\ ActiveHold(p[1]) /\ p[2] <= QtyOf[p[1]]}
HeldOfType(ty, except) == {p \in HeldPlaces(except) : TypeOf[p[1]] = ty}
HeldByPerson(ty, who, except) ==
  {p \in HeldOfType(ty, except) : BuyerOf[p[1]] = who}

(* Mutant: holds are counted and the tickets already sold are not. *)
AvailableByHolds(ty, who, qty, except) ==
  /\ Cardinality(HeldOfType(ty, except)) + qty <= Quantity[ty]
  /\ Cardinality(HeldPlaces(except)) + qty <= Capacity

(* The refusals shared by startCheckout and insertTicketsWithCapacity: the *)
(* per-person limit, the ticket type's quantity, the event's capacity.     *)
Available(ty, who, qty, except) ==
  /\ Cardinality(SoldToPerson(ty, who)) + Cardinality(HeldByPerson(ty, who, except)) + qty
       <= PersonLimit[ty]
  /\ Cardinality(SoldOfType(ty)) + Cardinality(HeldOfType(ty, except)) + qty
       <= Quantity[ty]
  /\ Cardinality(SoldOfEvent) + Cardinality(HeldPlaces(except)) + qty <= Capacity

(***************************************************************************)
(* The promise at the head of the ticket store: "Two buyers racing for the *)
(* last seat serialise behind the lock, so overselling is not possible."   *)
(***************************************************************************)
NoOversell ==
  /\ \A ty \in Types : Cardinality(SoldOfType(ty)) <= Quantity[ty]
  /\ Cardinality(SoldOfEvent) <= Capacity
=============================================================================
