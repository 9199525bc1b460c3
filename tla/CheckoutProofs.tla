--------------------------- MODULE CheckoutProofs ---------------------------
(***************************************************************************)
(* The sale of tickets, for any buyers, ticket types, handlers, faults and *)
(* quantities.  Six results:                                               *)
(*   - nothing is oversold as long as no payment is disputed; that is a    *)
(*     matter of the capacity check alone;                                 *)
(*   - a checkout is issued once if, besides, claims outlive their         *)
(*     handlers; that needs the history of the claim: a row has one        *)
(*     claimant at most, no other handler can move a claimed row back to   *)
(*     where it can be claimed, and whoever is about to issue found no     *)
(*     tickets;                                                            *)
(*   - a dispute stops every admission if handlers run one at a time; that *)
(*     needs what is still to come: the dispute's event stays due until    *)
(*     its handler has voided the tickets, and no fulfilment goes on to    *)
(*     issue after that;                                                   *)
(*   - the types, and with them that no payment returns more than it       *)
(*     brought in; an amount is the size of a set of units, so a sum needs *)
(*     no induction;                                                       *)
(*   - a ticket is marked refunded only for money that went back;          *)
(*   - a quiet payment admits no more than the money it kept covers, if    *)
(*     handlers run one at a time; that needs what is still to come: what  *)
(*     a payment has returned is told by an event still due, or applied to *)
(*     its tickets while no fulfilment is about to issue.                  *)
(*                                                                         *)
(* The invariants of the first three say nothing of amounts, and ask of    *)
(* records only that they have the fields they speak of.                   *)
(***************************************************************************)
EXTENDS Checkout, TLAPS, FiniteSetTheorems, WellFoundedInduction

DisputeSteps == {"disputeRow", "disputeTickets", "restore", "reopen"}
Waiting == {"none", "creating", "pending", "payment_pending"}
PaymentEvents == {"completed", "async_succeeded", "expired", "charge.refunded", "refund.updated"}
Claimant(w) == worker[w].pc \in ClaimantSteps

(* Records have the fields the invariant speaks of. *)
WorkersShape ==
  /\ DOMAIN worker = Workers
  /\ \A w \in Workers : {"pc", "ref", "to"} \subseteq DOMAIN worker[w]
RowsShape ==
  /\ DOMAIN row = Refs /\ DOMAIN stale = Refs
  /\ \A r \in Refs : "status" \in DOMAIN row[r]
TicketsShape ==
  /\ DOMAIN tickets = TicketIds
  /\ \A t \in TicketIds : {"status", "type", "ref"} \subseteq DOMAIN tickets[t]

(* Without disputes there are five types of events, and no handler is in a *)
(* step of the dispute branches.                                           *)
EventsKnown == \A ev \in sent : ev.type \in PaymentEvents /\ ev.ref \in Refs
Undisputed == \A r \in Refs : dispute[r] = "none"
(* What a handler knows at its step: whose payment it is about, how the    *)
(* cancellation will end, and that there are no tickets to adopt.          *)
WorkerOK(w) ==
  /\ worker[w].pc \notin DisputeSteps
  /\ worker[w].pc # "idle" => worker[w].ref \in Refs
  /\ worker[w].pc = "cancelWrite" => worker[w].to \in {"refunded", "refund_pending"}
  /\ ~SlowClaims /\ worker[w].pc = "issue" => OrderTickets(worker[w].ref) = {}
WorkersOK == \A w \in Workers : WorkerOK(w)
(* A row is claimed by one handler at a time, and while it is, no event or *)
(* request moves it back to a status that can be claimed.                  *)
OneClaimant ==
  \A v, w \in Workers :
    ~SlowClaims /\ Claimant(v) /\ Claimant(w) /\ worker[v].ref = worker[w].ref => v = w
ClaimKept ==
  \A w \in Workers : ~SlowClaims /\ Claimant(w) =>
    /\ row[worker[w].ref].status \notin Waiting
    /\ row[worker[w].ref].status = "fulfilling" => ~stale[worker[w].ref]

(* The inductive invariant. *)
SaleInv ==
  /\ WorkersShape /\ RowsShape /\ TicketsShape
  /\ EventsKnown /\ Undisputed /\ WorkersOK
  /\ OneClaimant /\ ClaimKept
  /\ ~SlowClaims => OneOrderPerCheckout
  /\ NoOversell

-----------------------------------------------------------------------------
(* Counting tickets. *)

(* The tickets table is finite. *)
LEMMA TicketsFinite ==
  ASSUME NEW S \in SUBSET TicketIds
  PROVE  IsFiniteSet(S) /\ Cardinality(S) \in Nat
<1>1. IsFiniteSet(TicketIds)
  BY FS_Interval, CapacityAssumption DEF TicketIds
<1>2. IsFiniteSet(S)
  BY <1>1, FS_Subset
<1>3. QED BY <1>2, FS_CardinalityType

(* A part of the tickets is not more than the whole. *)
LEMMA FewerTickets ==
  ASSUME NEW S \in SUBSET TicketIds, NEW T \in SUBSET S
  PROVE  Cardinality(T) <= Cardinality(S)
  BY TicketsFinite, FS_Subset

(* So are the places held by checkouts. *)
LEMMA HeldFinite ==
  ASSUME NEW r, NEW S \in SUBSET HeldPlaces(r)
  PROVE  Cardinality(S) \in Nat
<1>1. IsFiniteSet(Refs) /\ IsFiniteSet(1..MaxQty)
  BY CapacityAssumption, FS_Interval
<1>2. IsFiniteSet(Refs \X (1..MaxQty))
  BY <1>1, FS_Product
<1>3. S \in SUBSET (Refs \X (1..MaxQty))
  BY DEF HeldPlaces
<1>4. IsFiniteSet(S)
  BY <1>2, <1>3, FS_Subset
<1>5. QED BY <1>4, FS_CardinalityType

(* Steps that add no admission. *)
TicketsKept ==
  /\ TicketsShape'
  /\ \A t \in TicketIds :
       /\ tickets'[t].ref = tickets[t].ref
       /\ tickets'[t].type = tickets[t].type
       /\ tickets'[t].status = "valid" => tickets[t].status = "valid"

(* Refunds, disputes and voids sell nothing and leave orders as they are. *)
LEMMA KeptSaleKeepsCounts ==
  ASSUME NoOversell, TicketsKept
  PROVE  /\ NoOversell' /\ (OneOrderPerCheckout => OneOrderPerCheckout')
         /\ \A r : OrderTickets(r)' = OrderTickets(r)
<1>1. \A ty \in Types : Cardinality(SoldOfType(ty)') <= Quantity[ty]
  <2> TAKE ty \in Types
  <2>1. SoldOfType(ty) \in SUBSET TicketIds /\ SoldOfType(ty)' \in SUBSET SoldOfType(ty)
    BY DEF SoldOfType, TicketsKept
  <2>2. Cardinality(SoldOfType(ty)') <= Cardinality(SoldOfType(ty))
    BY <2>1, FewerTickets
  <2>3. Cardinality(SoldOfType(ty)) \in Nat /\ Cardinality(SoldOfType(ty)') \in Nat
    BY <2>1, TicketsFinite
  <2>4. Quantity[ty] \in Nat
    BY CapacityAssumption
  <2>5. QED BY <2>2, <2>3, <2>4 DEF NoOversell
<1>2. Cardinality(SoldOfEvent') <= Capacity
  <2>1. SoldOfEvent \in SUBSET TicketIds /\ SoldOfEvent' \in SUBSET SoldOfEvent
    BY DEF SoldOfEvent, TicketsKept
  <2>2. Cardinality(SoldOfEvent') <= Cardinality(SoldOfEvent)
    BY <2>1, FewerTickets
  <2>3. Cardinality(SoldOfEvent) \in Nat /\ Cardinality(SoldOfEvent') \in Nat
    BY <2>1, TicketsFinite
  <2>4. QED BY <2>2, <2>3, CapacityAssumption DEF NoOversell
<1>3. \A r : OrderTickets(r)' = OrderTickets(r)
  BY DEF OrderTickets, TicketsKept
<1>4. QED BY <1>1, <1>2, <1>3 DEF NoOversell, OneOrderPerCheckout

(* Issuance adds as many places as it asked for. *)
LEMMA IssueAddsOnce ==
  ASSUME NEW ids \in SUBSET Unused, NEW ty, NEW who, NEW ref, NEW qty \in Nat, NEW r,
         NoOversell, TicketsShape, Available(ty, who, qty, r), Fresh(ids, qty),
         Insert(ids, ty, who, ref)
  PROVE  /\ NoOversell' /\ TicketsShape'
         /\ \A t \in TicketIds : IF t \in ids THEN tickets'[t].ref = ref
                                              ELSE tickets'[t] = tickets[t]
<1>1. /\ TicketsShape'
      /\ \A t \in TicketIds :
           IF t \in ids THEN /\ tickets'[t].ref = ref /\ tickets'[t].status = "valid"
                             /\ tickets'[t].type = ty
                        ELSE tickets'[t] = tickets[t]
  BY DEF Insert, TicketsShape
<1>2. ids \in SUBSET TicketIds /\ Cardinality(ids) = qty
      /\ \A t \in ids : tickets[t].status = "none"
  BY DEF Unused, Fresh
<1>3. ASSUME NEW S \in SUBSET TicketIds, \A t \in S : tickets[t].status = "valid"
      PROVE  /\ Cardinality(S) \in Nat
             /\ Cardinality(S \cup ids) = Cardinality(S) + qty
  <2>1. IsFiniteSet(S) /\ IsFiniteSet(ids) /\ Cardinality(S) \in Nat
    BY <1>2, TicketsFinite
  <2>2. S \cap ids = {}
    BY <1>2, <1>3
  <2>3. Cardinality(S \cup ids) = Cardinality(S) + Cardinality(ids) - Cardinality(S \cap ids)
    BY <2>1, FS_Union
  <2>4. Cardinality(S \cap ids) = 0
    BY <2>2, FS_EmptySet
  <2>5. QED BY <1>2, <2>1, <2>3, <2>4
<1>4. ASSUME NEW u \in Types
      PROVE  Cardinality(SoldOfType(u)') <= Quantity[u]
  <2>0. SoldOfType(u) \in SUBSET TicketIds /\ \A t \in SoldOfType(u) : tickets[t].status = "valid"
    BY DEF SoldOfType
  <2>1. CASE u = ty
    <3>1. SoldOfType(u)' = SoldOfType(u) \cup ids
      BY <1>1, <1>2, <2>1 DEF SoldOfType
    <3>2. Cardinality(HeldOfType(ty, r)) \in Nat
      BY HeldFinite DEF HeldOfType
    <3>3. Quantity[ty] \in Nat
      BY <2>1, CapacityAssumption
    <3>4. Cardinality(SoldOfType(ty)) + Cardinality(HeldOfType(ty, r)) + qty <= Quantity[ty]
      BY DEF Available
    <3>5. Cardinality(SoldOfType(u)) \in Nat
          /\ Cardinality(SoldOfType(u)') = Cardinality(SoldOfType(u)) + qty
      BY <1>3, <2>0, <3>1
    <3>6. QED BY <2>1, <3>2, <3>3, <3>4, <3>5
  <2>2. CASE u # ty
    <3>1. SoldOfType(u)' = SoldOfType(u)
      BY <1>1, <1>2, <2>2 DEF SoldOfType
    <3>2. QED BY <3>1 DEF NoOversell
  <2>3. QED BY <2>1, <2>2
<1>5. Cardinality(SoldOfEvent') <= Capacity
  <2>0. SoldOfEvent \in SUBSET TicketIds /\ \A t \in SoldOfEvent : tickets[t].status = "valid"
    BY DEF SoldOfEvent
  <2>1. SoldOfEvent' = SoldOfEvent \cup ids
    BY <1>1, <1>2 DEF SoldOfEvent
  <2>2. Cardinality(HeldPlaces(r)) \in Nat
    BY HeldFinite
  <2>3. Cardinality(SoldOfEvent) + Cardinality(HeldPlaces(r)) + qty <= Capacity
    BY DEF Available
  <2>4. Cardinality(SoldOfEvent) \in Nat /\ Cardinality(SoldOfEvent') = Cardinality(SoldOfEvent) + qty
    BY <1>3, <2>0, <2>1
  <2>5. QED BY <2>2, <2>3, <2>4, CapacityAssumption
<1>6. QED BY <1>1, <1>4, <1>5 DEF NoOversell

-----------------------------------------------------------------------------
(* What a step does to the workers. *)

OthersKept(w) == WorkersShape' /\ \A v \in Workers : v # w => worker'[v] = worker[v]

(* Goto moves one handler to its next step. *)
LEMMA GotoMoves ==
  ASSUME WorkersShape, NEW w \in Workers, NEW pc, Goto(w, pc)
  PROVE  OthersKept(w) /\ worker'[w].pc = pc /\ worker'[w].ref = worker[w].ref
  BY DEF WorkersShape, Goto, OthersKept

(* ToSettle moves one handler to its last write. *)
LEMMA ToSettleMoves ==
  ASSUME WorkersShape, NEW w \in Workers, NEW status, NEW key, NEW ok, ToSettle(w, status, key, ok)
  PROVE  OthersKept(w) /\ worker'[w].pc = "settle" /\ worker'[w].ref = worker[w].ref
  BY DEF WorkersShape, ToSettle, OthersKept

(* ToRefund moves one handler to the refund of the payment. *)
LEMMA ToRefundMoves ==
  ASSUME WorkersShape, NEW w \in Workers, NEW key, NEW amt, ToRefund(w, key, amt)
  PROVE  OthersKept(w) /\ worker'[w].pc = "refund" /\ worker'[w].ref = worker[w].ref
  BY DEF WorkersShape, ToRefund, OthersKept

(* Finish ends one handler and makes no event. *)
LEMMA FinishMoves ==
  ASSUME WorkersShape, NEW w \in Workers, NEW ok, Finish(w, ok)
  PROVE  OthersKept(w) /\ worker'[w].pc = "idle" /\ sent' = sent
  BY DEF WorkersShape, Finish, Idle, OthersKept

(* A handler ends, starts, or goes on to a step of the same kind for the   *)
(* same reference.                                                         *)
FirstSteps == {"claim", "expire", "reconcile", "refundRow"}
GoesOn(w) ==
  /\ OthersKept(w)
  /\ \/ worker'[w].pc = "idle"
     \/ worker'[w].pc \in FirstSteps /\ worker'[w].ref \in Refs
     \/ /\ worker'[w].ref = worker[w].ref
        /\ worker[w].pc # "idle"
        /\ worker'[w].pc \in ClaimantSteps <=> worker[w].pc \in ClaimantSteps
        /\ worker'[w].pc \notin DisputeSteps
        /\ worker'[w].pc = "cancelWrite" => worker'[w].to \in {"refunded", "refund_pending"}
        /\ ~SlowClaims /\ worker'[w].pc = "issue" => OrderTickets(worker[w].ref)' = {}

(* What a step of w, or of nobody, may do to the rows without taking a    *)
(* claim from another worker.                                              *)
RowsKept ==
  /\ RowsShape'
  /\ \A r \in Refs :
       \/ row'[r].status = row[r].status /\ stale'[r] = stale[r]
       \/ row'[r].status \notin Waiting \cup {"fulfilling"}
       \/ ~SlowClaims => \A v \in Workers : ~(Claimant(v)' /\ worker'[v].ref = r)

(* A handler that goes on takes no claim from another. *)
LEMMA HandlerKeepsClaims ==
  ASSUME SaleInv, NEW w \in Workers, GoesOn(w), RowsKept,
         \A r : OrderTickets(r)' = OrderTickets(r)
  PROVE  WorkersShape' /\ RowsShape' /\ WorkersOK' /\ OneClaimant' /\ ClaimKept'
<1>1. WorkersShape' /\ RowsShape'
  BY DEF GoesOn, OthersKept, RowsKept
<1>2. \A v \in Workers : Claimant(v)' => Claimant(v) /\ worker'[v].ref = worker[v].ref
  BY DEF GoesOn, OthersKept, Claimant, ClaimantSteps, FirstSteps
<1>3. OneClaimant'
  BY <1>2 DEF SaleInv, OneClaimant
<1>4. ClaimKept'
  <2> SUFFICES ASSUME ~SlowClaims, NEW v \in Workers, Claimant(v)'
               PROVE  /\ row'[worker'[v].ref].status \notin Waiting
                      /\ row'[worker'[v].ref].status = "fulfilling" => ~stale'[worker'[v].ref]
    BY DEF ClaimKept
  <2>1. Claimant(v) /\ worker'[v].ref = worker[v].ref
    BY <1>2
  <2>2. worker[v].ref \in Refs
    BY <2>1 DEF SaleInv, WorkersOK, WorkerOK, Claimant, ClaimantSteps
  <2>3. /\ row[worker[v].ref].status \notin Waiting
        /\ row[worker[v].ref].status = "fulfilling" => ~stale[worker[v].ref]
    BY <2>1 DEF SaleInv, ClaimKept
  <2>4. QED BY <2>1, <2>2, <2>3 DEF RowsKept, Waiting
<1>5. WorkersOK'
  <2> SUFFICES ASSUME NEW v \in Workers PROVE WorkerOK(v)'
    BY DEF WorkersOK
  <2>1. WorkerOK(v) /\ WorkerOK(w)
    BY DEF SaleInv, WorkersOK
  <2>2. CASE v # w
    <3>1. worker'[v] = worker[v]
      BY <2>2 DEF GoesOn, OthersKept
    <3>2. QED BY <2>1, <3>1 DEF WorkerOK
  <2>3. CASE v = w /\ worker'[w].pc = "idle"
    BY <2>3 DEF WorkerOK, DisputeSteps
  <2>4. CASE v = w /\ worker'[w].pc # "idle"
    BY <2>1, <2>4 DEF WorkerOK, GoesOn, FirstSteps, DisputeSteps
  <2>5. QED BY <2>2, <2>3, <2>4
<1>6. QED BY <1>1, <1>3, <1>4, <1>5

(* A step that leaves the workers alone. *)
LEMMA NobodyKeepsClaims ==
  ASSUME SaleInv, UNCHANGED worker, RowsKept, \A r \in Refs : OrderTickets(r)' \subseteq OrderTickets(r)
  PROVE  WorkersShape' /\ RowsShape' /\ WorkersOK' /\ OneClaimant' /\ ClaimKept'
<1>1. WorkersShape' /\ RowsShape'
  BY DEF SaleInv, WorkersShape, RowsKept
<1>2. OneClaimant'
  BY DEF SaleInv, OneClaimant, Claimant
<1>3. ClaimKept'
  <2> SUFFICES ASSUME ~SlowClaims, NEW v \in Workers, Claimant(v)
               PROVE  /\ row'[worker[v].ref].status \notin Waiting
                      /\ row'[worker[v].ref].status = "fulfilling" => ~stale'[worker[v].ref]
    BY DEF ClaimKept, Claimant
  <2>1. worker[v].ref \in Refs
    BY DEF SaleInv, WorkersOK, WorkerOK, Claimant, ClaimantSteps
  <2>2. /\ row[worker[v].ref].status \notin Waiting
        /\ row[worker[v].ref].status = "fulfilling" => ~stale[worker[v].ref]
    BY DEF SaleInv, ClaimKept
  <2>3. QED BY <2>1, <2>2 DEF RowsKept, Waiting, Claimant
<1>4. WorkersOK'
  BY DEF SaleInv, WorkersOK, WorkerOK
<1>5. QED BY <1>1, <1>2, <1>3, <1>4

(* A handler that goes on, keeps claims and sells nothing keeps SaleInv. *)
LEMMA HandlerInv ==
  ASSUME SaleInv, NEW w \in Workers, GoesOn(w), RowsKept, TicketsKept, EventsKnown', Undisputed'
  PROVE  SaleInv'
<1>1. NoOversell' /\ (~SlowClaims => OneOrderPerCheckout') /\ \A r : OrderTickets(r)' = OrderTickets(r)
  BY KeptSaleKeepsCounts DEF SaleInv
<1>2. WorkersShape' /\ RowsShape' /\ WorkersOK' /\ OneClaimant' /\ ClaimKept'
  BY <1>1, HandlerKeepsClaims
<1>3. QED BY <1>1, <1>2 DEF SaleInv, TicketsKept

(* A step outside the handlers that keeps claims and sells nothing does, too. *)
LEMMA NobodyInv ==
  ASSUME SaleInv, UNCHANGED worker, RowsKept, TicketsKept, EventsKnown', Undisputed'
  PROVE  SaleInv'
<1>1. NoOversell' /\ (~SlowClaims => OneOrderPerCheckout') /\ \A r : OrderTickets(r)' = OrderTickets(r)
  BY KeptSaleKeepsCounts DEF SaleInv
<1>2. WorkersShape' /\ RowsShape' /\ WorkersOK' /\ OneClaimant' /\ ClaimKept'
  BY <1>1, NobodyKeepsClaims
<1>3. QED BY <1>1, <1>2 DEF SaleInv, TicketsKept

(* Tickets a step leaves alone are kept. *)
LEMMA SameTickets == ASSUME SaleInv, UNCHANGED tickets PROVE TicketsKept
  BY DEF SaleInv, TicketsShape, TicketsKept
(* Rows and clocks a step leaves alone are kept. *)
LEMMA SameRows == ASSUME SaleInv, UNCHANGED <<row, stale>> PROVE RowsKept
  BY DEF SaleInv, RowsShape, RowsKept
(* No new event. *)
LEMMA SameEvents == ASSUME SaleInv, UNCHANGED sent PROVE EventsKnown'
  BY DEF SaleInv, EventsKnown
(* No new dispute. *)
LEMMA SameDisputes == ASSUME SaleInv, UNCHANGED dispute PROVE Undisputed'
  BY DEF SaleInv, Undisputed
(* New events about a payment are known ones. *)
LEMMA SentEvents ==
  ASSUME SaleInv, NEW evs, Send(evs), \A ev \in evs : ev.type \in PaymentEvents /\ ev.ref \in Refs
  PROVE  EventsKnown'
  BY DEF SaleInv, EventsKnown, Send

-----------------------------------------------------------------------------
(* The actions, one lemma each. *)

(* A row that waits has no claimant. *)
LEMMA WaitingUnclaimed ==
  ASSUME SaleInv, NEW r \in Refs, row[r].status \in Waiting
  PROVE  ~SlowClaims => \A v \in Workers : ~(Claimant(v) /\ worker[v].ref = r)
  BY DEF SaleInv, ClaimKept

(* The start request, the payment and the buyer's page keep SaleInv. *)
LEMMA BuyerInv ==
  ASSUME SaleInv, NEW r \in Refs, Buyer(r)
  PROVE  SaleInv'
<1>1. CASE StartCheckout(r)
  <2>1. UNCHANGED <<worker, tickets, sent, dispute>>
    BY <1>1 DEF StartCheckout, stripe, hooks
  <2>2. RowsKept
    <3>1. ~SlowClaims => \A v \in Workers : ~(Claimant(v) /\ worker[v].ref = r)
      BY <1>1, WaitingUnclaimed DEF StartCheckout, Waiting
    <3>2. QED BY <1>1, <3>1 DEF StartCheckout, RowsKept, SaleInv, RowsShape, Claimant
  <2>3. QED BY <2>1, <2>2, NobodyInv, SameTickets, SameEvents, SameDisputes
<1>2. CASE CreateSession(r)
  <2>1. UNCHANGED <<worker, row, stale, tickets, sent, dispute>>
    BY <1>2 DEF CreateSession, db, hooks
  <2>2. QED BY <2>1, NobodyInv, SameTickets, SameRows, SameEvents, SameDisputes
<1>3. CASE CreateFails(r)
  <2>1. UNCHANGED <<worker, tickets, sent, dispute>>
    BY <1>3 DEF CreateFails, stripe, hooks
  <2>2. RowsKept
    BY <1>3 DEF CreateFails, RowsKept, SaleInv, RowsShape, Waiting
  <2>3. QED BY <2>1, <2>2, NobodyInv, SameTickets, SameEvents, SameDisputes
<1>4. CASE PersistSession(r)
  <2>1. UNCHANGED <<worker, tickets, sent, dispute>>
    BY <1>4 DEF PersistSession, hooks
  <2>2. RowsKept
    <3>1. ~SlowClaims => \A v \in Workers : ~(Claimant(v) /\ worker[v].ref = r)
      BY <1>4, WaitingUnclaimed DEF PersistSession, Waiting
    <3>2. QED BY <1>4, <3>1 DEF PersistSession, RowsKept, SaleInv, RowsShape, Claimant
  <2>3. QED BY <2>1, <2>2, NobodyInv, SameTickets, SameEvents, SameDisputes
<1>5. CASE PersistFails(r)
  <2>1. UNCHANGED <<worker, tickets, dispute>>
    BY <1>5 DEF PersistFails
  <2>2. RowsKept
    BY <1>5 DEF PersistFails, RowsKept, SaleInv, RowsShape, Waiting
  <2>3. EventsKnown'
    <3>1. CASE Send({Notice("expired", r)})
      BY <3>1, SentEvents DEF Notice, PaymentEvents
    <3>2. CASE UNCHANGED hooks
      BY <3>2, SameEvents DEF hooks
    <3>3. QED BY <1>5, <3>1, <3>2 DEF PersistFails
  <2>4. QED BY <2>1, <2>2, <2>3, NobodyInv, SameTickets, SameDisputes
<1>6. CASE Pay(r)
  <2>1. UNCHANGED <<worker, row, stale, tickets, dispute>>
    BY <1>6 DEF Pay, db
  <2>2. EventsKnown'
    BY <1>6, SentEvents DEF Pay, Notice, PaymentEvents
  <2>3. QED BY <2>1, <2>2, NobodyInv, SameTickets, SameRows, SameDisputes
<1>7. ASSUME NEW w \in Workers, Nudge(w, r)
      PROVE  SaleInv'
  <2>1. UNCHANGED <<row, stale, tickets, sent, dispute>>
    BY <1>7 DEF Nudge, db, stripe, hooks
  <2>2. GoesOn(w)
    BY <1>7 DEF Nudge, GoesOn, OthersKept, SaleInv, WorkersShape, Idle, FirstSteps
  <2>3. QED BY <2>1, <2>2, HandlerInv, SameTickets, SameRows, SameEvents, SameDisputes
<1>8. QED BY <1>1, <1>2, <1>3, <1>4, <1>5, <1>6, <1>7 DEF Buyer
(* Stripe, the dashboard and the clock keep SaleInv. *)
LEMMA ProviderInv ==
  ASSUME SaleInv, Disputes = {}, NEW r \in Refs, Provider(r)
  PROVE  SaleInv'
<1>1. CASE AsyncPayment(r)
  <2>1. UNCHANGED <<worker, row, stale, tickets, dispute>>
    BY <1>1 DEF AsyncPayment, db
  <2>2. EventsKnown'
    BY <1>1, SentEvents DEF AsyncPayment, Notice, PaymentEvents
  <2>3. QED BY <2>1, <2>2, NobodyInv, SameTickets, SameRows, SameDisputes
<1>2. CASE Lapse(r)
  <2>1. UNCHANGED <<worker, row, stale, tickets, dispute>>
    BY <1>2 DEF Lapse
  <2>2. EventsKnown'
    <3>1. CASE Send({Notice("expired", r)})
      BY <3>1, SentEvents DEF Notice, PaymentEvents
    <3>2. CASE UNCHANGED hooks
      BY <3>2, SameEvents DEF hooks
    <3>3. QED BY <1>2, <3>1, <3>2 DEF Lapse
  <2>3. QED BY <2>1, <2>2, NobodyInv, SameTickets, SameRows, SameDisputes
<1>3. CASE GrowStale(r)
  <2>1. UNCHANGED <<worker, row, tickets, sent, dispute>>
    BY <1>3 DEF GrowStale, stripe, hooks
  <2>2. ~SlowClaims => \A v \in Workers : ~(Claimant(v) /\ worker[v].ref = r)
    BY <1>3 DEF GrowStale, Claimed, Running, Claimant
  <2>3. RowsKept
    BY <1>3, <2>1, <2>2 DEF GrowStale, RowsKept, SaleInv, RowsShape, Claimant
  <2>4. QED BY <2>1, <2>3, NobodyInv, SameTickets, SameEvents, SameDisputes
<1>4. CASE DashboardRefund(r)
  <2>1. UNCHANGED <<worker, row, stale, tickets, dispute>>
    BY <1>4 DEF DashboardRefund, db
  <2>2. EventsKnown'
    BY <1>4, SentEvents DEF DashboardRefund, ChargeRefunded, PaymentEvents
  <2>3. QED BY <2>1, <2>2, NobodyInv, SameTickets, SameRows, SameDisputes
<1>5. CASE RefundSettles(r)
  <2>1. UNCHANGED <<worker, row, stale, tickets, dispute>>
    BY <1>5 DEF RefundSettles, db
  <2>2. EventsKnown'
    BY <1>5, SentEvents DEF RefundSettles, RefundUpdated, PaymentEvents
  <2>3. QED BY <2>1, <2>2, NobodyInv, SameTickets, SameRows, SameDisputes
<1>6. ~OpenDispute(r) /\ ~WinDispute(r)
  BY DEF OpenDispute, WinDispute, SaleInv, Undisputed
<1>7. QED BY <1>1, <1>2, <1>3, <1>4, <1>5, <1>6 DEF Provider

(* A delivered event starts a handler that claims nothing yet. *)
LEMMA DeliverInv ==
  ASSUME SaleInv, NEW w \in Workers, NEW ev \in sent, Deliver(w, ev)
  PROVE  SaleInv'
<1>1. UNCHANGED <<row, stale, tickets, sent, dispute>>
  BY DEF Deliver, Arrives, db, stripe, hooks
<1>2. ev.type \in PaymentEvents /\ ev.ref \in Refs
  BY DEF SaleInv, EventsKnown
<1>3. FirstStep(ev.type) \in FirstSteps
  BY <1>2 DEF FirstStep, FirstSteps, PaymentEvents
<1>4. worker'[w].pc = FirstStep(ev.type) /\ worker'[w].ref = ev.ref /\ OthersKept(w)
  BY DEF Deliver, OthersKept, SaleInv, WorkersShape, Idle
<1>5. GoesOn(w)
  BY <1>2, <1>3, <1>4 DEF GoesOn
<1>6. QED BY <1>1, <1>5, HandlerInv, SameTickets, SameRows, SameEvents, SameDisputes

(* A handler that dies keeps nobody else from its work. *)
LEMMA CrashInv ==
  ASSUME SaleInv, NEW w \in Workers, Crash(w)
  PROVE  SaleInv'
<1>1. UNCHANGED <<row, stale, tickets, sent, dispute>>
  BY DEF Crash, db, stripe, hooks
<1>2. GoesOn(w)
  BY DEF Crash, GoesOn, OthersKept, SaleInv, WorkersShape, Idle
<1>3. QED BY <1>1, <1>2, HandlerInv, SameTickets, SameRows, SameEvents, SameDisputes

(* When a claimant ends, nobody is left that claimed its row. *)
LEMMA ClaimantWasAlone ==
  ASSUME SaleInv, NEW w \in Workers, Claimant(w), OthersKept(w), worker'[w].pc = "idle"
  PROVE  ~SlowClaims => \A v \in Workers : ~(Claimant(v)' /\ worker'[v].ref = worker[w].ref)
  BY DEF SaleInv, OneClaimant, OthersKept, Claimant, ClaimantSteps

(* Only the claimant may take a row out of fulfilling by an unconditional  *)
(* write.                                                                  *)
LEMMA ClaimantWrites ==
  ASSUME SaleInv, NEW w \in Workers, Claimant(w), OthersKept(w), worker'[w].pc = "idle",
         UNCHANGED stale, RowsShape',
         \A r \in Refs : r # worker[w].ref => row'[r] = row[r]
  PROVE  RowsKept
  BY ClaimantWasAlone DEF RowsKept

(* The claiming update makes a claimant only of a row that has none. *)
LEMMA ClaimInv ==
  ASSUME SaleInv, NEW w \in Workers, Claim(w)
  PROVE  SaleInv'
<1> DEFINE r == worker[w].ref
<1>0. r \in Refs /\ worker[w].pc = "claim"
  BY DEF Claim, At, SaleInv, WorkersOK, WorkerOK
<1>1. UNCHANGED <<tickets, sent, dispute>>
  BY DEF Claim, stripe, hooks, Finish
<1>2. CASE ~Claimable(r)
  <2>1. UNCHANGED <<row, stale>> /\ worker'[w].pc = "idle" /\ OthersKept(w)
    BY <1>2, FinishMoves DEF Claim, SaleInv
  <2>2. GoesOn(w)
    BY <2>1 DEF GoesOn
  <2>3. QED BY <1>1, <2>1, <2>2, HandlerInv, SameTickets, SameRows, SameEvents, SameDisputes
<1>3. CASE Claimable(r)
  <2>1. /\ row' = [row EXCEPT ![r].status = "fulfilling"]
        /\ stale' = [stale EXCEPT ![r] = FALSE]
        /\ Goto(w, "retrieve")
    BY <1>3 DEF Claim
  <2>2. OthersKept(w) /\ worker'[w].pc = "retrieve" /\ worker'[w].ref = r
    BY <2>1, GotoMoves DEF SaleInv
  <2>3. ~SlowClaims => \A v \in Workers : ~(Claimant(v) /\ worker[v].ref = r)
    BY <1>3 DEF Claimable, SaleInv, ClaimKept, Waiting
  <2>4. RowsShape' /\ row'[r].status = "fulfilling" /\ ~stale'[r]
        /\ \A q \in Refs : q # r => row'[q] = row[q] /\ stale'[q] = stale[q]
    BY <1>0, <2>1 DEF SaleInv, RowsShape
  <2>5. NoOversell' /\ (~SlowClaims => OneOrderPerCheckout') /\ TicketsShape' /\ \A q : OrderTickets(q)' = OrderTickets(q)
    BY <1>1, SameTickets, KeptSaleKeepsCounts DEF SaleInv, TicketsKept
  <2>6. OneClaimant'
    BY <2>2, <2>3 DEF SaleInv, OneClaimant, Claimant, OthersKept
  <2>7. ClaimKept'
    <3> SUFFICES ASSUME ~SlowClaims, NEW v \in Workers, Claimant(v)'
                 PROVE  /\ row'[worker'[v].ref].status \notin Waiting
                        /\ row'[worker'[v].ref].status = "fulfilling" => ~stale'[worker'[v].ref]
      BY DEF ClaimKept
    <3>1. CASE v = w
      BY <2>2, <2>4, <3>1 DEF Waiting
    <3>2. CASE v # w
      <4>1. Claimant(v) /\ worker'[v] = worker[v]
        BY <2>2, <3>2 DEF OthersKept, Claimant
      <4>2. worker[v].ref \in Refs /\ worker[v].ref # r
        BY <2>3, <4>1 DEF SaleInv, WorkersOK, WorkerOK, Claimant, ClaimantSteps
      <4>3. QED BY <2>4, <4>1, <4>2 DEF SaleInv, ClaimKept
    <3>3. QED BY <3>1, <3>2
  <2>8. WorkersOK'
    <3> SUFFICES ASSUME NEW v \in Workers PROVE WorkerOK(v)'
      BY DEF WorkersOK
    <3>1. CASE v = w
      BY <1>0, <2>2, <3>1 DEF WorkerOK, DisputeSteps
    <3>2. CASE v # w
      BY <2>2, <2>5, <3>2 DEF OthersKept, SaleInv, WorkersOK, WorkerOK
    <3>3. QED BY <3>1, <3>2
  <2>9. QED BY <1>1, <2>2, <2>4, <2>5, <2>6, <2>7, <2>8, SameEvents, SameDisputes
            DEF SaleInv, OthersKept
<1>4. QED BY <1>2, <1>3
(* The issuing transaction keeps the capacity and makes the one order. *)
LEMMA IssueInv ==
  ASSUME SaleInv, NEW w \in Workers, Issue(w)
  PROVE  SaleInv'
<1> PICK r \in Refs : r = worker[w].ref
  BY DEF Issue, At, SaleInv, WorkersOK, WorkerOK
<1>0. worker[w].pc = "issue" /\ (~SlowClaims => OrderTickets(r) = {})
  BY DEF Issue, At, SaleInv, WorkersOK, WorkerOK
<1>1. UNCHANGED <<row, stale, sent, dispute>>
  BY DEF Issue, stripe, hooks
<1>2. CASE ~Available(TypeOf[r], BuyerOf[r], QtyOf[r], r)
  <2>1. UNCHANGED tickets /\ ToRefund(w, Key("oversold", 0), 0)
    BY <1>2 DEF Issue
  <2>2. GoesOn(w)
    BY <1>0, <2>1, ToRefundMoves DEF GoesOn, SaleInv, ClaimantSteps, DisputeSteps
  <2>3. QED BY <1>1, <2>1, <2>2, HandlerInv, SameTickets, SameRows, SameEvents, SameDisputes
<1>3. CASE Available(TypeOf[r], BuyerOf[r], QtyOf[r], r)
  <2>1. PICK ids \in SUBSET Unused :
          Fresh(ids, QtyOf[r]) /\ Insert(ids, TypeOf[r], BuyerOf[r], r)
    BY <1>3 DEF Issue
  <2>2. Goto(w, "record")
    BY <1>3 DEF Issue
  <2>3. OthersKept(w) /\ worker'[w].pc = "record" /\ worker'[w].ref = r
    BY <2>2, GotoMoves DEF SaleInv
  <2>4. QtyOf[r] \in Nat
    BY <1>0, CapacityAssumption
  <2>5. /\ NoOversell' /\ TicketsShape'
        /\ \A t \in TicketIds : IF t \in ids THEN tickets'[t].ref = r
                                             ELSE tickets'[t] = tickets[t]
    BY <1>3, <2>1, <2>4, IssueAddsOnce DEF SaleInv
  <2>6. (~SlowClaims => OrderTickets(r)' = ids) /\ \A q \in Refs : q # r => OrderTickets(q)' \in SUBSET OrderTickets(q)
    BY <1>0, <2>1, <2>5 DEF OrderTickets, Unused
  <2>7. ~SlowClaims => OneOrderPerCheckout'
    <3> SUFFICES ASSUME ~SlowClaims, NEW q \in Refs PROVE Cardinality(OrderTickets(q)') <= QtyOf[q]
      BY DEF OneOrderPerCheckout
    <3>0. QtyOf[q] \in Nat
      BY CapacityAssumption
    <3>1. CASE q = r
      BY <2>1, <2>4, <2>6, <3>1 DEF Fresh
    <3>2. CASE q # r
      <4>1. OrderTickets(q) \in SUBSET TicketIds /\ OrderTickets(q)' \in SUBSET OrderTickets(q)
        BY <2>6, <3>2 DEF OrderTickets
      <4>2. /\ Cardinality(OrderTickets(q)') <= Cardinality(OrderTickets(q))
            /\ Cardinality(OrderTickets(q)') \in Nat /\ Cardinality(OrderTickets(q)) \in Nat
        BY <4>1, FewerTickets, TicketsFinite
      <4>3. QED BY <3>0, <4>2 DEF SaleInv, OneOrderPerCheckout
    <3>3. QED BY <3>1, <3>2
  <2>8. OneClaimant' /\ ClaimKept' /\ RowsShape'
    <3>1. \A v \in Workers : (Claimant(v)' <=> Claimant(v)) /\ worker'[v].ref = worker[v].ref
      BY <1>0, <2>3 DEF OthersKept, Claimant, ClaimantSteps
    <3>2. QED BY <1>1, <3>1 DEF SaleInv, OneClaimant, ClaimKept, RowsShape
  <2>9. WorkersOK'
    <3> SUFFICES ASSUME NEW v \in Workers PROVE WorkerOK(v)'
      BY DEF WorkersOK
    <3>1. CASE v = w
      BY <1>0, <2>3, <3>1 DEF WorkerOK, DisputeSteps
    <3>2. CASE v # w
      <4>1. worker'[v] = worker[v] /\ WorkerOK(v)
        BY <2>3, <3>2 DEF OthersKept, SaleInv, WorkersOK
      <4>2. ASSUME ~SlowClaims, worker[v].pc = "issue" PROVE OrderTickets(worker[v].ref)' = {}
        <5>1. worker[v].ref # r
          BY <1>0, <3>2, <4>2 DEF SaleInv, OneClaimant, Claimant, ClaimantSteps
        <5>2. worker[v].ref \in Refs /\ OrderTickets(worker[v].ref) = {}
          BY <4>1, <4>2 DEF WorkerOK
        <5>3. PICK q \in Refs : q = worker[v].ref /\ q = worker'[v].ref
          BY <4>1, <5>2
        <5>4. QED BY <2>6, <5>1, <5>2, <5>3
      <4>3. QED BY <4>1, <4>2 DEF WorkerOK
    <3>3. QED BY <3>1, <3>2
  <2>10. QED BY <1>1, <2>3, <2>5, <2>7, <2>8, <2>9, SameEvents, SameDisputes DEF SaleInv, OthersKept
<1>4. QED BY <1>2, <1>3

(* A refund's events are about the payment. *)
LEMMA StripeRefundEvents ==
  ASSUME SaleInv, NEW r \in Refs, NEW key, NEW amt, NEW f, StripeRefund(r, key, amt, f)
  PROVE  EventsKnown'
<1>1. CASE UNCHANGED hooks
  BY <1>1, SameEvents DEF hooks
<1>2. CASE Send({ChargeRefunded(r, AmountRefunded(r) + amt)})
  BY <1>2, SentEvents DEF ChargeRefunded, PaymentEvents
<1>3. QED BY <1>1, <1>2 DEF StripeRefund

(* Every step of fulfilCheckout keeps SaleInv. *)
LEMMA FulfilInv ==
  ASSUME SaleInv, NEW w \in Workers, Fulfil(w)
  PROVE  SaleInv'
<1> USE DEF SaleInv
<1>1. CASE Retrieve(w)
  <2>1. UNCHANGED <<row, stale, tickets, sent, dispute>> /\ worker[w].pc = "retrieve"
    BY <1>1 DEF Retrieve, At, db, stripe, hooks
  <2>2. /\ OthersKept(w) /\ worker'[w].ref = worker[w].ref
        /\ worker'[w].pc \in {"settle", "refund", "recover"}
    BY <1>1, ToSettleMoves, ToRefundMoves, GotoMoves DEF Retrieve
  <2>3. GoesOn(w)
    BY <2>1, <2>2 DEF GoesOn, ClaimantSteps, DisputeSteps
  <2>4. QED BY <2>1, <2>3, HandlerInv, SameTickets, SameRows, SameEvents, SameDisputes
<1>2. CASE Recover(w)
  <2>1. UNCHANGED <<row, stale, tickets, sent, dispute>> /\ worker[w].pc = "recover"
    BY <1>2 DEF Recover, At, db, stripe, hooks
  <2>2. /\ OthersKept(w) /\ worker'[w].ref = worker[w].ref
        /\ worker'[w].pc = IF OrderTickets(worker[w].ref) # {} THEN "record" ELSE "issue"
    BY <1>2, GotoMoves DEF Recover
  <2>3. OrderTickets(worker[w].ref)' = OrderTickets(worker[w].ref)
    BY <2>1, <2>2 DEF OrderTickets
  <2>4. GoesOn(w)
    BY <2>1, <2>2, <2>3 DEF GoesOn, ClaimantSteps, DisputeSteps
  <2>5. QED BY <2>1, <2>4, HandlerInv, SameTickets, SameRows, SameEvents, SameDisputes
<1>3. CASE Release(w) \/ Settle(w) \/ Record(w)
  <2>1. /\ UNCHANGED <<stale, tickets, dispute>> /\ worker[w].pc \in {"release", "settle", "record"}
        /\ \E ok : Finish(w, ok)
    BY <1>3 DEF Release, Settle, Record, At, stripe
  <2>2. OthersKept(w) /\ worker'[w].pc = "idle" /\ sent' = sent
    BY <2>1, FinishMoves
  <2>3. GoesOn(w) /\ Claimant(w)
    BY <2>1, <2>2 DEF GoesOn, Claimant, ClaimantSteps
  <2>4. RowsShape' /\ \A r \in Refs : r # worker[w].ref => row'[r] = row[r]
    BY <1>3, <2>1 DEF Release, Settle, Record, RowsShape
  <2>5. RowsKept
    BY <2>1, <2>2, <2>3, <2>4, ClaimantWrites
  <2>6. QED BY <2>1, <2>2, <2>3, <2>5, HandlerInv, SameTickets, SameEvents, SameDisputes
<1>4. CASE RefundPayment(w)
  <2>1. UNCHANGED <<row, stale, tickets, dispute>> /\ worker[w].pc = "refund"
    BY <1>4 DEF RefundPayment, At, db
  <2>2. worker[w].ref \in Refs
    BY <2>1 DEF WorkersOK, WorkerOK
  <2>3. EventsKnown'
    BY <1>4, <2>2, StripeRefundEvents DEF RefundPayment
  <2>4. OthersKept(w) /\ worker'[w].ref = worker[w].ref /\ worker'[w].pc = "settle"
    BY <1>4, ToSettleMoves DEF RefundPayment
  <2>5. GoesOn(w)
    BY <2>1, <2>4 DEF GoesOn, ClaimantSteps, DisputeSteps
  <2>6. QED BY <2>1, <2>3, <2>5, HandlerInv, SameTickets, SameRows, SameDisputes
<1>5. CASE RefundPaymentRefused(w)
  <2>1. UNCHANGED <<row, stale, tickets, sent, dispute>> /\ worker[w].pc = "refund"
    BY <1>5 DEF RefundPaymentRefused, At, db, stripe, hooks
  <2>2. OthersKept(w) /\ worker'[w].ref = worker[w].ref /\ worker'[w].pc = "settle"
    BY <1>5, ToSettleMoves DEF RefundPaymentRefused
  <2>3. GoesOn(w)
    BY <2>1, <2>2 DEF GoesOn, ClaimantSteps, DisputeSteps
  <2>4. QED BY <2>1, <2>3, HandlerInv, SameTickets, SameRows, SameEvents, SameDisputes
<1>6. QED BY <1>1, <1>2, <1>3, <1>4, <1>5, ClaimInv, IssueInv DEF Fulfil
(* Expiry, cancellation and refund events keep SaleInv. *)
LEMMA CancelInv ==
  ASSUME SaleInv, NEW w \in Workers, Cancel(w)
  PROVE  SaleInv'
<1> USE DEF SaleInv
<1>1. CASE ExpireCheckout(w)
  <2>1. UNCHANGED <<stale, tickets, dispute>> /\ Finish(w, TRUE)
    BY <1>1 DEF ExpireCheckout, stripe
  <2>2. OthersKept(w) /\ worker'[w].pc = "idle" /\ sent' = sent
    BY <2>1, FinishMoves
  <2>3. RowsKept
    BY <1>1, <2>1 DEF ExpireCheckout, RowsKept, RowsShape, Waiting
  <2>4. GoesOn(w)
    BY <2>2 DEF GoesOn
  <2>5. QED BY <2>1, <2>2, <2>3, <2>4, HandlerInv, SameTickets, SameEvents, SameDisputes
<1>2. ASSUME NEW r, NEW amt, ReconcileTickets(r, amt)
      PROVE  TicketsKept
  BY <1>2 DEF ReconcileTickets, TicketsShape, TicketsKept
<1>3. CASE Reconcile(w)
  <2>1. /\ UNCHANGED <<row, stale, sent, dispute>> /\ worker[w].pc = "reconcile"
        /\ \E amt : ReconcileTickets(worker[w].ref, amt)
        /\ \E amt : worker' = [worker EXCEPT ![w].pc = "cancelFind", ![w].amt = amt]
    BY <1>3 DEF Reconcile, At, stripe, hooks
  <2>2. OthersKept(w) /\ worker'[w].ref = worker[w].ref /\ worker'[w].pc = "cancelFind"
    BY <2>1 DEF OthersKept, WorkersShape
  <2>3. GoesOn(w)
    BY <2>1, <2>2 DEF GoesOn, ClaimantSteps, DisputeSteps
  <2>4. QED BY <1>2, <2>1, <2>3, HandlerInv, SameRows, SameEvents, SameDisputes
<1>4. CASE CancelFind(w)
  <2>1. UNCHANGED <<row, stale, tickets, dispute>> /\ worker[w].pc = "cancelFind"
    BY <1>4 DEF CancelFind, At, db, stripe
  <2>2. CASE Finish(w, TRUE)
    <3>1. OthersKept(w) /\ worker'[w].pc = "idle" /\ sent' = sent
      BY <2>2, FinishMoves
    <3>2. GoesOn(w)
      BY <3>1 DEF GoesOn
    <3>3. QED BY <2>1, <3>1, <3>2, HandlerInv, SameTickets, SameRows, SameEvents, SameDisputes
  <2>3. CASE /\ \E key : worker' = [worker EXCEPT ![w].pc = "cancelRefund", ![w].key = key]
             /\ UNCHANGED hooks
    <3>1. OthersKept(w) /\ worker'[w].ref = worker[w].ref /\ worker'[w].pc = "cancelRefund"
      BY <2>3 DEF OthersKept, WorkersShape
    <3>2. GoesOn(w) /\ UNCHANGED sent
      BY <2>1, <2>3, <3>1 DEF GoesOn, ClaimantSteps, DisputeSteps, hooks
    <3>3. QED BY <2>1, <3>2, HandlerInv, SameTickets, SameRows, SameEvents, SameDisputes
  <2>4. CASE /\ worker' = [worker EXCEPT ![w].pc = "cancelWrite", ![w].to = "refunded"]
             /\ UNCHANGED hooks
    <3>1. OthersKept(w) /\ worker'[w].ref = worker[w].ref /\ worker'[w].pc = "cancelWrite"
          /\ worker'[w].to = "refunded"
      BY <2>4 DEF OthersKept, WorkersShape
    <3>2. GoesOn(w) /\ UNCHANGED sent
      BY <2>1, <2>4, <3>1 DEF GoesOn, ClaimantSteps, DisputeSteps, hooks
    <3>3. QED BY <2>1, <3>2, HandlerInv, SameTickets, SameRows, SameEvents, SameDisputes
  <2>5. QED BY <1>4, <2>2, <2>3, <2>4 DEF CancelFind
<1>5. CASE CancelRefund(w)
  <2>1. UNCHANGED <<row, stale, tickets, dispute>> /\ worker[w].pc = "cancelRefund"
    BY <1>5 DEF CancelRefund, At, db
  <2>2. worker[w].ref \in Refs
    BY <2>1 DEF WorkersOK, WorkerOK
  <2>3. PICK f : /\ StripeRefund(worker[w].ref, worker[w].key, worker[w].amt, f)
                 /\ worker' = [worker EXCEPT ![w].pc = "cancelWrite",
                      ![w].to = IF f.status = "succeeded" THEN "refunded" ELSE "refund_pending"]
    BY <1>5 DEF CancelRefund
  <2>4. EventsKnown'
    BY <2>2, <2>3, StripeRefundEvents
  <2>5. OthersKept(w) /\ worker'[w].ref = worker[w].ref /\ worker'[w].pc = "cancelWrite"
        /\ worker'[w].to \in {"refunded", "refund_pending"}
    BY <2>3 DEF OthersKept, WorkersShape
  <2>6. GoesOn(w)
    BY <2>1, <2>5 DEF GoesOn, ClaimantSteps, DisputeSteps
  <2>7. QED BY <2>1, <2>4, <2>6, HandlerInv, SameTickets, SameRows, SameDisputes
<1>6. CASE CancelRefundRefused(w)
  <2>1. UNCHANGED <<row, stale, tickets, dispute>> /\ Finish(w, FALSE)
    BY <1>6 DEF CancelRefundRefused, db, stripe
  <2>2. GoesOn(w) /\ UNCHANGED sent
    BY <2>1, FinishMoves DEF GoesOn
  <2>3. QED BY <2>1, <2>2, HandlerInv, SameTickets, SameRows, SameEvents, SameDisputes
<1>7. CASE CancelWrite(w)
  <2>1. UNCHANGED <<stale, tickets, dispute>> /\ Finish(w, TRUE) /\ worker[w].pc = "cancelWrite"
    BY <1>7 DEF CancelWrite, At, stripe
  <2>2. GoesOn(w) /\ UNCHANGED sent
    BY <2>1, FinishMoves DEF GoesOn
  <2>3. worker[w].ref \in Refs /\ worker[w].to \in {"refunded", "refund_pending"}
    BY <2>1 DEF WorkersOK, WorkerOK
  <2>4. RowsKept
    BY <1>7, <2>1, <2>3 DEF CancelWrite, RowsKept, RowsShape, Waiting
  <2>5. QED BY <2>1, <2>2, <2>4, HandlerInv, SameTickets, SameEvents, SameDisputes
<1>8. CASE RefundRow(w)
  <2>1. UNCHANGED <<stale, tickets, sent, dispute>> /\ worker[w].pc = "refundRow"
        /\ Goto(w, "refundTickets")
    BY <1>8 DEF RefundRow, At, stripe, hooks
  <2>2. GoesOn(w)
    BY <2>1, GotoMoves DEF GoesOn, ClaimantSteps, DisputeSteps
  <2>3. RowsKept
    BY <1>8, <2>1 DEF RefundRow, RowsKept, RowsShape, Waiting
  <2>4. QED BY <2>1, <2>2, <2>3, HandlerInv, SameTickets, SameEvents, SameDisputes
<1>9. CASE RefundTickets(w)
  <2>1. UNCHANGED <<row, stale, dispute>> /\ Finish(w, TRUE)
    BY <1>9 DEF RefundTickets, stripe
  <2>2. GoesOn(w) /\ UNCHANGED sent
    BY <2>1, FinishMoves DEF GoesOn
  <2>3. TicketsKept
    <3>1. CASE \E amt : ReconcileTickets(worker[w].ref, amt)
      BY <1>2, <3>1
    <3>2. CASE tickets' = [t \in TicketIds |->
                 IF /\ t \in OrderTickets(worker[w].ref) /\ tickets[t].refund = worker[w].ev.key
                    /\ tickets[t].status = "refunded"
                   THEN [tickets[t] EXCEPT !.status = "void"] ELSE tickets[t]]
      BY <3>2 DEF TicketsShape, TicketsKept
    <3>3. QED BY <1>9, <3>1, <3>2 DEF RefundTickets
  <2>4. QED BY <2>1, <2>2, <2>3, HandlerInv, SameRows, SameEvents, SameDisputes
<1>10. QED BY <1>1, <1>3, <1>4, <1>5, <1>6, <1>7, <1>8, <1>9 DEF Cancel

(* Failed calls keep SaleInv. *)
LEMMA FaultInv ==
  ASSUME SaleInv, NEW w \in Workers, Fault(w)
  PROVE  SaleInv'
<1> USE DEF SaleInv
<1>1. CASE RetrieveFails(w)
  <2>1. UNCHANGED <<row, stale, tickets, sent, dispute>> /\ worker[w].pc = "retrieve"
        /\ ToSettle(w, "pending", None, FALSE)
    BY <1>1 DEF RetrieveFails, At, db, stripe, hooks
  <2>2. GoesOn(w)
    BY <2>1, ToSettleMoves DEF GoesOn, ClaimantSteps, DisputeSteps
  <2>3. QED BY <2>1, <2>2, HandlerInv, SameTickets, SameRows, SameEvents, SameDisputes
<1>2. CASE IssueThrows(w)
  <2>1. UNCHANGED <<row, stale, tickets, sent, dispute>> /\ worker[w].pc = "issue"
        /\ Goto(w, "release")
    BY <1>2 DEF IssueThrows, At, db, stripe, hooks
  <2>2. GoesOn(w)
    BY <2>1, GotoMoves DEF GoesOn, ClaimantSteps, DisputeSteps
  <2>3. QED BY <2>1, <2>2, HandlerInv, SameTickets, SameRows, SameEvents, SameDisputes
<1>3. CASE RefundFails(w)
  <2>1. UNCHANGED <<row, stale, tickets, dispute>>
    BY <1>3 DEF RefundFails, db, stripe
  <2>2. CASE At(w, "refund") /\ ToSettle(w, "payment_pending", None, FALSE) /\ UNCHANGED hooks
    <3>1. GoesOn(w) /\ UNCHANGED sent
      BY <2>2, ToSettleMoves DEF GoesOn, ClaimantSteps, DisputeSteps, At, hooks
    <3>2. QED BY <2>1, <3>1, HandlerInv, SameTickets, SameRows, SameEvents, SameDisputes
  <2>3. CASE Finish(w, FALSE)
    <3>1. GoesOn(w) /\ UNCHANGED sent
      BY <2>3, FinishMoves DEF GoesOn
    <3>2. QED BY <2>1, <3>1, HandlerInv, SameTickets, SameRows, SameEvents, SameDisputes
  <2>4. QED BY <1>3, <2>2, <2>3 DEF RefundFails
<1>4. QED BY <1>1, <1>2, <1>3, CrashInv DEF Fault

(* Guests' tickets and voided tickets keep SaleInv. *)
LEMMA StaffInv ==
  ASSUME SaleInv, Staff
  PROVE  SaleInv'
<1>1. ASSUME NEW ty \in Types, NEW who \in Guests, IssueDirect(ty, who)
      PROVE  SaleInv'
  <2>1. UNCHANGED <<worker, row, stale, sent, dispute>>
    BY <1>1 DEF IssueDirect, stripe, hooks
  <2>2. PICK ids \in SUBSET Unused : Fresh(ids, 1) /\ Insert(ids, ty, who, None)
    BY <1>1 DEF IssueDirect
  <2>3. /\ NoOversell' /\ TicketsShape'
        /\ \A t \in TicketIds : IF t \in ids THEN tickets'[t].ref = None
                                             ELSE tickets'[t] = tickets[t]
    BY <1>1, <2>2, IssueAddsOnce DEF IssueDirect, SaleInv
  <2>4. \A q \in Refs : OrderTickets(q)' \in SUBSET OrderTickets(q)
    BY <2>3, CheckoutAssumption DEF OrderTickets
  <2>5. ~SlowClaims => OneOrderPerCheckout'
    <3> SUFFICES ASSUME ~SlowClaims, NEW q \in Refs PROVE Cardinality(OrderTickets(q)') <= QtyOf[q]
      BY DEF OneOrderPerCheckout
    <3>1. OrderTickets(q) \in SUBSET TicketIds /\ OrderTickets(q)' \in SUBSET OrderTickets(q)
      BY <2>4 DEF OrderTickets
    <3>2. /\ Cardinality(OrderTickets(q)') <= Cardinality(OrderTickets(q))
          /\ Cardinality(OrderTickets(q)') \in Nat /\ Cardinality(OrderTickets(q)) \in Nat
      BY <3>1, FewerTickets, TicketsFinite
    <3>3. QtyOf[q] \in Nat
      BY CapacityAssumption
    <3>4. QED BY <3>2, <3>3 DEF SaleInv, OneOrderPerCheckout
  <2>6. WorkersShape' /\ RowsShape' /\ WorkersOK' /\ OneClaimant' /\ ClaimKept'
    BY <2>1, <2>4, SameRows, NobodyKeepsClaims
  <2>7. QED BY <2>1, <2>3, <2>5, <2>6, SameEvents, SameDisputes DEF SaleInv
<1>2. ASSUME NEW t \in TicketIds, VoidTicket(t)
      PROVE  SaleInv'
  <2>1. UNCHANGED <<worker, row, stale, sent, dispute>>
    BY <1>2 DEF VoidTicket, stripe, hooks
  <2>2. TicketsKept
    BY <1>2 DEF VoidTicket, SaleInv, TicketsShape, TicketsKept
  <2>3. QED BY <2>1, <2>2, NobodyInv, SameRows, SameEvents, SameDisputes
<1>3. QED BY <1>1, <1>2 DEF Staff

-----------------------------------------------------------------------------
(* The invariant holds at the start. *)
LEMMA SaleInvInit == Init => SaleInv
<1> SUFFICES ASSUME Init PROVE SaleInv
  OBVIOUS
<1>1. /\ WorkersShape /\ RowsShape /\ TicketsShape
      /\ EventsKnown /\ Undisputed /\ WorkersOK /\ OneClaimant /\ ClaimKept
  BY DEF Init, Idle, NoTicket, WorkersShape, RowsShape, TicketsShape, EventsKnown, Undisputed,
         WorkersOK, WorkerOK, OneClaimant, ClaimKept, Claimant, ClaimantSteps, DisputeSteps
<1>2. SoldOfEvent = {} /\ \A ty \in Types : SoldOfType(ty) = {}
  BY DEF Init, NoTicket, SoldOfEvent, SoldOfType
<1>3. \A r \in Refs : OrderTickets(r) = {}
  BY CheckoutAssumption DEF Init, NoTicket, OrderTickets
<1>4. Cardinality({}) = 0
  BY FS_EmptySet
<1>5. Capacity >= 0 /\ (\A ty \in Types : Quantity[ty] >= 0) /\ \A r \in Refs : QtyOf[r] >= 0
  BY CapacityAssumption
<1>6. NoOversell
  BY <1>2, <1>4, <1>5 DEF NoOversell
<1>7. OneOrderPerCheckout
  BY <1>3, <1>4, <1>5 DEF OneOrderPerCheckout
<1>8. QED BY <1>1, <1>6, <1>7 DEF SaleInv

(* Every step keeps the invariant. *)
LEMMA SaleInvNext ==
  ASSUME Disputes = {}
  PROVE  SaleInv /\ [Next]_vars => SaleInv'
<1> SUFFICES ASSUME SaleInv, [Next]_vars PROVE SaleInv'
  OBVIOUS
<1>1. CASE UNCHANGED vars
  <2>1. UNCHANGED <<worker, row, stale, tickets, sent, dispute>>
    BY <1>1 DEF vars
  <2>2. QED BY <2>1, NobodyInv, SameTickets, SameRows, SameEvents, SameDisputes
<1>2. ASSUME NEW w \in Workers PROVE ~Chargeback(w)
  BY DEF Chargeback, DisputeRow, DisputeTickets, RestoreTickets, Reopen, At, SaleInv, WorkersOK,
         WorkerOK, DisputeSteps
<1>3. CASE Next
  BY <1>2, <1>3, BuyerInv, ProviderInv, DeliverInv, FulfilInv, CancelInv, FaultInv, StaffInv
     DEF Next, Handler
<1>4. QED BY <1>1, <1>3

(* The invariant holds always when no payment is disputed. *)
THEOREM SaleInvariant ==
  ASSUME Disputes = {}
  PROVE  Spec => []SaleInv
  BY SaleInvInit, SaleInvNext, PTL DEF Spec

(* "Overselling is not possible": whatever buyers, guests, webhooks,       *)
(* retries, crashes and takeovers of claims do, the valid tickets of a     *)
(* type and of the event stay within quantity and capacity, as long as no  *)
(* dispute is won.                                                         *)
THEOREM NothingOversold ==
  ASSUME Disputes = {}
  PROVE  Spec => []NoOversell
<1>1. SaleInv => NoOversell
  BY DEF SaleInv
<1>2. QED BY <1>1, SaleInvariant, PTL

(* "A redelivered webhook cannot issue a second set of tickets", for any   *)
(* number of handlers, when a claim outlives its handler and no payment is *)
(* disputed.                                                               *)
THEOREM IssuedOnce ==
  ASSUME Disputes = {}, SlowClaims = FALSE
  PROVE  Spec => []OneOrderPerCheckout
<1>1. SaleInv => OneOrderPerCheckout
  BY DEF SaleInv
<1>2. QED BY <1>1, SaleInvariant, PTL
-----------------------------------------------------------------------------
(* Disputes, with one handler at a time: nobody who is about to issue can *)
(* be overtaken by the dispute's own handler.                              *)

Created(r) == Notice("dispute.created", r)
DisputeEvents == {"dispute.created", "dispute.won"}

(* Handlers have an event, too, and a dispute is there for every payment. *)
HandlersShape == WorkersShape /\ \A w \in Workers : "ev" \in DOMAIN worker[w]
DisputesShape == DOMAIN dispute = Refs

(* A dispute that was won stays so. *)
NoticesTrue ==
  \A ev \in sent :
    /\ ev.type \in PaymentEvents \cup DisputeEvents /\ ev.ref \in Refs
    /\ ev.type = "dispute.created" => ev = Created(ev.ref)
    /\ ev.type = "dispute.won" => dispute[ev.ref] = "won"

(* Only the handler of the dispute acknowledges its event, and tickets are *)
(* restored only when the dispute was won.                                 *)
HandlerTrue(w) ==
  worker[w].pc # "idle" =>
    /\ worker[w].ref \in Refs
    /\ \A r \in Refs : worker[w].ev = Created(r) =>
         worker[w].pc \in {"disputeRow", "disputeTickets"} /\ worker[w].ref = r
    /\ worker[w].pc = "restore" => dispute[worker[w].ref] = "won"

(* The event of an open dispute is still due, or it was handled: nobody is *)
(* admitted, and nobody is about to issue.                                 *)
Issuing(r) == \E w \in Workers : worker[w].ref = r /\ worker[w].pc \in {"recover", "issue"}
Stopped(r) == dispute[r] = "open" => Created(r) \in due \/ (ValidOf(r) = {} /\ ~Issuing(r))

DisputeInv ==
  /\ HandlersShape /\ TicketsShape /\ DisputesShape /\ NoticesTrue
  /\ \A w \in Workers : HandlerTrue(w)
  /\ \A r \in Refs : Stopped(r)

(* The step of a handler that goes on or ends. *)
Advances(w) ==
  /\ HandlersShape' /\ \A v \in Workers : v # w => worker'[v] = worker[v]
  /\ \/ worker'[w].pc = "idle"
     \/ /\ worker'[w].ref = worker[w].ref /\ worker'[w].ev = worker[w].ev
        /\ worker'[w].pc # "restore"
        /\ worker[w].pc = "disputeRow" => worker'[w].pc = "disputeTickets"
        /\ worker'[w].pc \in {"recover", "issue"} =>
             worker[w].pc \in {"recover", "issue"} \/ dispute[worker[w].ref] # "open"

(* Only the handler's own event is acknowledged, and nobody is admitted    *)
(* whose payment is disputed.                                              *)
DueKept(w) == due \subseteq due' \/ (due \ {worker[w].ev} \subseteq due' /\ worker[w].pc # "disputeRow")
AdmitsNone ==
  \A r \in Refs : dispute[r] = "open" => Created(r) \in due' \/ ValidOf(r)' \subseteq ValidOf(r)

(* A handler that advances keeps DisputeInv. *)
LEMMA AdvanceInv ==
  ASSUME DisputeInv, NEW w \in Workers, worker[w].pc \notin {"idle", "disputeTickets"},
         Advances(w), DueKept(w), AdmitsNone, TicketsShape', NoticesTrue', UNCHANGED dispute
  PROVE  DisputeInv'
<1>1. HandlerTrue(w) /\ HandlersShape'
  BY DEF DisputeInv, Advances
<1>2. \A r \in Refs : Created(r) \in due => Created(r) \in due'
  BY <1>1 DEF HandlerTrue, DueKept
<1>3. ASSUME NEW v \in Workers PROVE HandlerTrue(v)'
  <2>1. CASE v # w
    <3>1. worker'[v] = worker[v] /\ HandlerTrue(v)
      BY <2>1 DEF Advances, DisputeInv
    <3>2. QED BY <3>1 DEF HandlerTrue, Created, Notice
  <2>2. CASE v = w
    <3>1. CASE worker'[w].pc = "idle"
      BY <2>2, <3>1 DEF HandlerTrue
    <3>2. CASE worker'[w].pc # "idle"
      BY <1>1, <2>2, <3>2 DEF Advances, HandlerTrue, Created, Notice
    <3>3. QED BY <3>1, <3>2
  <2>3. QED BY <2>1, <2>2
<1>4. ASSUME NEW r \in Refs PROVE Stopped(r)'
  <2> SUFFICES ASSUME dispute[r] = "open", Created(r) \notin due'
               PROVE  ValidOf(r)' = {} /\ ~Issuing(r)'
    BY DEF Stopped, Created, Notice
  <2>1. ValidOf(r) = {} /\ ~Issuing(r)
    BY <1>2 DEF DisputeInv, Stopped
  <2>2. ValidOf(r)' = {}
    BY <2>1 DEF AdmitsNone
  <2>3. ASSUME NEW v \in Workers, worker'[v].ref = r, worker'[v].pc \in {"recover", "issue"}
        PROVE  FALSE
    <3>1. CASE v = w
      BY <2>1, <2>3, <3>1 DEF Advances, Issuing
    <3>2. CASE v # w
      BY <2>1, <2>3, <3>2 DEF Advances, Issuing
    <3>3. QED BY <3>1, <3>2
  <2>4. QED BY <2>2, <2>3 DEF Issuing
<1>5. QED BY <1>1, <1>3, <1>4 DEF DisputeInv, DisputesShape

(* A step outside the handlers. *)
LEMMA OutsideInv ==
  ASSUME DisputeInv, UNCHANGED <<worker, dispute>>, due \subseteq due', AdmitsNone,
         TicketsShape', NoticesTrue'
  PROVE  DisputeInv'
<1>1. \A v \in Workers : HandlerTrue(v)'
  BY DEF DisputeInv, HandlerTrue, Created, Notice
<1>2. ASSUME NEW r \in Refs PROVE Stopped(r)'
  <2> SUFFICES ASSUME dispute[r] = "open", Created(r) \notin due'
               PROVE  ValidOf(r)' = {} /\ ~Issuing(r)'
    BY DEF Stopped, Created, Notice
  <2>1. ValidOf(r) = {} /\ ~Issuing(r)
    BY DEF DisputeInv, Stopped
  <2>2. QED BY <2>1 DEF AdmitsNone, Issuing
<1>3. QED BY <1>1, <1>2 DEF DisputeInv, DisputesShape, HandlersShape, WorkersShape

(* Events that are about no dispute. *)
LEMMA SentTrue ==
  ASSUME DisputeInv, NEW evs, Send(evs), UNCHANGED dispute,
         \A ev \in evs : ev.type \in PaymentEvents /\ ev.ref \in Refs
  PROVE  NoticesTrue' /\ due \subseteq due'
  BY DEF DisputeInv, NoticesTrue, Send, PaymentEvents, Created, Notice
(* No event at all. *)
LEMMA NothingSent ==
  ASSUME DisputeInv, UNCHANGED <<sent, dispute>>
  PROVE  NoticesTrue'
  BY DEF DisputeInv, NoticesTrue, Created, Notice

(* Tickets that are kept admit nobody new. *)
LEMMA KeptAdmitsNone ==
  ASSUME TicketsKept
  PROVE  AdmitsNone /\ TicketsShape'
  BY DEF TicketsKept, AdmitsNone, ValidOf, OrderTickets
(* Nor do tickets that are left alone. *)
LEMMA TicketsStay ==
  ASSUME DisputeInv, UNCHANGED tickets
  PROVE  AdmitsNone /\ TicketsShape'
  BY DEF DisputeInv, TicketsShape, AdmitsNone, ValidOf, OrderTickets

(* How the handlers' common steps advance. *)
Moved(w, pc) ==
  /\ HandlersShape' /\ \A v \in Workers : v # w => worker'[v] = worker[v]
  /\ worker'[w].pc = pc /\ worker'[w].ref = worker[w].ref /\ worker'[w].ev = worker[w].ev
(* Goto, ToSettle and ToRefund keep the reference and the event. *)
LEMMA CommonMoves ==
  ASSUME DisputeInv, NEW w \in Workers
  PROVE  /\ \A pc : Goto(w, pc) => Moved(w, pc)
         /\ \A status, key, ok : ToSettle(w, status, key, ok) => Moved(w, "settle")
         /\ \A key, amt : ToRefund(w, key, amt) => Moved(w, "refund")
<1>1. DOMAIN worker = Workers /\ \A v \in Workers : {"pc", "ref", "to", "ev"} \subseteq DOMAIN worker[v]
  BY DEF DisputeInv, HandlersShape, WorkersShape
<1>2. ASSUME NEW pc, Goto(w, pc) PROVE Moved(w, pc)
  BY <1>1, <1>2 DEF Goto, Moved, HandlersShape, WorkersShape
<1>3. ASSUME NEW status, NEW key, NEW ok, ToSettle(w, status, key, ok) PROVE Moved(w, "settle")
  BY <1>1, <1>3 DEF ToSettle, Moved, HandlersShape, WorkersShape
<1>4. ASSUME NEW key, NEW amt, ToRefund(w, key, amt) PROVE Moved(w, "refund")
  BY <1>1, <1>4 DEF ToRefund, Moved, HandlersShape, WorkersShape
<1>5. QED BY <1>2, <1>3, <1>4

(* A handler that goes on. *)
LEMMA MovedInv ==
  ASSUME DisputeInv, NEW w \in Workers, worker[w].pc \notin {"idle", "disputeRow", "disputeTickets"},
         NEW pc, Moved(w, pc), pc # "restore",
         pc \in {"recover", "issue"} => worker[w].pc = "recover" \/ dispute[worker[w].ref] # "open",
         due \subseteq due', AdmitsNone, TicketsShape', NoticesTrue', UNCHANGED dispute
  PROVE  DisputeInv'
<1>1. Advances(w) /\ DueKept(w)
  BY DEF Moved, Advances, DueKept
<1>2. QED BY <1>1, AdvanceInv

(* A handler that ends. *)
LEMMA EndedInv ==
  ASSUME DisputeInv, NEW w \in Workers, worker[w].pc \notin {"idle", "disputeRow", "disputeTickets"},
         NEW ok, Finish(w, ok), AdmitsNone, TicketsShape', UNCHANGED dispute
  PROVE  DisputeInv'
<1>1. Advances(w)
  BY DEF Finish, Advances, DisputeInv, HandlersShape, WorkersShape, Idle
<1>2. DueKept(w) /\ UNCHANGED sent
  BY DEF Finish, DueKept
<1>3. QED BY <1>1, <1>2, NothingSent, AdvanceInv

(* A handler that starts. *)
LEMMA StartsInv ==
  ASSUME DisputeInv, NEW w \in Workers, HandlersShape',
         \A v \in Workers : v # w => worker'[v] = worker[v],
         worker'[w].pc \notin {"recover", "issue"}, HandlerTrue(w)',
         due \subseteq due', UNCHANGED <<tickets, sent, dispute>>
  PROVE  DisputeInv'
<1>1. AdmitsNone /\ TicketsShape' /\ NoticesTrue'
  BY TicketsStay, NothingSent
<1>2. ASSUME NEW v \in Workers PROVE HandlerTrue(v)'
  <2>1. CASE v # w
    <3>1. worker'[v] = worker[v] /\ HandlerTrue(v)
      BY <2>1 DEF DisputeInv
    <3>2. QED BY <3>1 DEF HandlerTrue, Created, Notice
  <2>2. QED BY <2>1
<1>3. ASSUME NEW r \in Refs PROVE Stopped(r)'
  <2> SUFFICES ASSUME dispute[r] = "open", Created(r) \notin due'
               PROVE  ValidOf(r)' = {} /\ ~Issuing(r)'
    BY DEF Stopped, Created, Notice
  <2>1. ValidOf(r) = {} /\ ~Issuing(r)
    BY DEF DisputeInv, Stopped
  <2>2. \A v \in Workers : worker'[v].pc \in {"recover", "issue"} => worker'[v] = worker[v]
    OBVIOUS
  <2>3. QED BY <1>1, <2>1, <2>2 DEF AdmitsNone, Issuing
<1>4. QED BY <1>1, <1>2, <1>3 DEF DisputeInv, DisputesShape

(* The start request, the payment and the buyer's page. *)
LEMMA BuyerStops ==
  ASSUME DisputeInv, NEW r \in Refs, Buyer(r)
  PROVE  DisputeInv'
<1>1. CASE StartCheckout(r) \/ CreateSession(r) \/ CreateFails(r) \/ PersistSession(r)
  <2>1. UNCHANGED <<worker, tickets, sent, due, dispute>>
    BY <1>1 DEF StartCheckout, CreateSession, CreateFails, PersistSession, db, stripe, hooks
  <2>2. QED BY <2>1, TicketsStay, NothingSent, OutsideInv
<1>2. CASE PersistFails(r)
  <2>1. UNCHANGED <<worker, tickets, dispute>>
    BY <1>2 DEF PersistFails
  <2>2. NoticesTrue' /\ due \subseteq due'
    <3>1. CASE Send({Notice("expired", r)})
      BY <2>1, <3>1, SentTrue DEF Notice, PaymentEvents
    <3>2. CASE UNCHANGED hooks
      BY <2>1, <3>2, NothingSent DEF hooks
    <3>3. QED BY <1>2, <3>1, <3>2 DEF PersistFails
  <2>3. QED BY <2>1, <2>2, TicketsStay, OutsideInv
<1>3. CASE Pay(r)
  <2>1. UNCHANGED <<worker, tickets, dispute>> /\ Send({Notice("completed", r)})
    BY <1>3 DEF Pay, db
  <2>2. NoticesTrue' /\ due \subseteq due'
    BY <2>1, SentTrue DEF Notice, PaymentEvents
  <2>3. QED BY <2>1, <2>2, TicketsStay, OutsideInv
<1>4. ASSUME NEW w \in Workers, Nudge(w, r)
      PROVE  DisputeInv'
  <2>1. UNCHANGED <<tickets, sent, due, dispute>>
    BY <1>4 DEF Nudge, db, stripe, hooks
  <2>2. /\ worker[w].pc = "idle" /\ HandlersShape' /\ \A v \in Workers : v # w => worker'[v] = worker[v]
        /\ worker'[w].pc = "claim" /\ worker'[w].ref = r /\ worker'[w].ev = None
    BY <1>4 DEF Nudge, Idle, DisputeInv, HandlersShape, WorkersShape
  <2>3. \A q \in Refs : Created(q) # None
    BY NoneAssumption DEF Created, Notice, Event
  <2>4. HandlerTrue(w)'
    BY <2>2, <2>3 DEF HandlerTrue, Created, Notice
  <2>5. QED BY <2>1, <2>2, <2>4, StartsInv
<1>5. QED BY <1>1, <1>2, <1>3, <1>4 DEF Buyer

(* A dispute that opens has its event due; one that is won stays so. *)
LEMMA DisputeMoves ==
  ASSUME DisputeInv, NEW r \in Refs, OpenDispute(r) \/ WinDispute(r)
  PROVE  DisputeInv'
<1>1. UNCHANGED <<worker, tickets>> /\ due \subseteq due' /\ dispute' = [dispute EXCEPT ![r] = dispute'[r]]
  BY DEF OpenDispute, WinDispute, Send, db, DisputeInv, DisputesShape
<1>2. HandlersShape' /\ TicketsShape' /\ DisputesShape'
  BY <1>1 DEF DisputeInv, HandlersShape, WorkersShape, TicketsShape, DisputesShape
<1>3. \A q \in Refs : dispute[q] = "won" => dispute'[q] = "won"
  BY DEF OpenDispute, WinDispute, DisputeInv, DisputesShape
<1>4. NoticesTrue'
  <2>1. CASE OpenDispute(r)
    BY <1>3, <2>1 DEF OpenDispute, Send, Notice, NoticesTrue, DisputeInv, DisputeEvents, Created
  <2>2. CASE WinDispute(r)
    <3>1. dispute'[r] = "won"
      BY <2>2 DEF WinDispute, DisputeInv, DisputesShape
    <3>2. QED BY <1>3, <2>2, <3>1 DEF WinDispute, Send, Notice, NoticesTrue, DisputeInv, DisputeEvents, Created
  <2>3. QED BY <2>1, <2>2
<1>5. ASSUME NEW v \in Workers PROVE HandlerTrue(v)'
  BY <1>1, <1>3 DEF DisputeInv, HandlerTrue, Created, Notice
<1>6. ASSUME NEW q \in Refs PROVE Stopped(q)'
  <2>1. CASE q = r
    <3>1. CASE OpenDispute(r)
      BY <2>1, <3>1 DEF OpenDispute, Send, Stopped, Created, Notice
    <3>2. CASE WinDispute(r)
      BY <2>1, <3>2 DEF WinDispute, Stopped, DisputeInv, DisputesShape
    <3>3. QED BY <3>1, <3>2
  <2>2. CASE q # r
    <3>1. dispute'[q] = dispute[q] /\ Stopped(q)
      BY <2>2 DEF OpenDispute, WinDispute, DisputeInv, DisputesShape
    <3>2. ValidOf(q)' = ValidOf(q) /\ (Issuing(q)' <=> Issuing(q))
      BY <1>1 DEF ValidOf, OrderTickets, Issuing
    <3>3. QED BY <1>1, <3>1, <3>2 DEF Stopped, Created, Notice
  <2>3. QED BY <2>1, <2>2
<1>7. QED BY <1>2, <1>4, <1>5, <1>6 DEF DisputeInv

(* Stripe, the dashboard and the clock. *)
LEMMA ProviderStops ==
  ASSUME DisputeInv, NEW r \in Refs, Provider(r)
  PROVE  DisputeInv'
<1>1. CASE AsyncPayment(r) \/ DashboardRefund(r) \/ RefundSettles(r)
  <2>1. UNCHANGED <<worker, tickets, dispute>>
    BY <1>1 DEF AsyncPayment, DashboardRefund, RefundSettles, db
  <2>2. NoticesTrue' /\ due \subseteq due'
    <3>1. CASE AsyncPayment(r)
      BY <2>1, <3>1, SentTrue DEF AsyncPayment, Notice, PaymentEvents
    <3>2. CASE DashboardRefund(r)
      BY <2>1, <3>2, SentTrue DEF DashboardRefund, ChargeRefunded, PaymentEvents
    <3>3. CASE RefundSettles(r)
      BY <2>1, <3>3, SentTrue DEF RefundSettles, RefundUpdated, PaymentEvents
    <3>4. QED BY <1>1, <3>1, <3>2, <3>3
  <2>3. QED BY <2>1, <2>2, TicketsStay, OutsideInv
<1>2. CASE Lapse(r)
  <2>1. UNCHANGED <<worker, tickets, dispute>>
    BY <1>2 DEF Lapse
  <2>2. NoticesTrue' /\ due \subseteq due'
    <3>1. CASE Send({Notice("expired", r)})
      BY <2>1, <3>1, SentTrue DEF Notice, PaymentEvents
    <3>2. CASE UNCHANGED hooks
      BY <2>1, <3>2, NothingSent DEF hooks
    <3>3. QED BY <1>2, <3>1, <3>2 DEF Lapse
  <2>3. QED BY <2>1, <2>2, TicketsStay, OutsideInv
<1>3. CASE GrowStale(r)
  <2>1. UNCHANGED <<worker, tickets, sent, due, dispute>>
    BY <1>3 DEF GrowStale, stripe, hooks
  <2>2. QED BY <2>1, TicketsStay, NothingSent, OutsideInv
<1>4. QED BY <1>1, <1>2, <1>3, DisputeMoves DEF Provider

(* An event starts its own handler. *)
LEMMA DeliverStops ==
  ASSUME DisputeInv, NEW w \in Workers, NEW ev \in sent, Deliver(w, ev)
  PROVE  DisputeInv'
<1>1. UNCHANGED <<tickets, sent, dispute>> /\ due \subseteq due'
  BY DEF Deliver, Arrives, db, stripe, hooks
<1>2. /\ ev.type \in PaymentEvents \cup DisputeEvents /\ ev.ref \in Refs
      /\ ev.type = "dispute.created" => ev = Created(ev.ref)
      /\ ev.type = "dispute.won" => dispute[ev.ref] = "won"
  BY DEF DisputeInv, NoticesTrue
<1>3. /\ HandlersShape' /\ \A v \in Workers : v # w => worker'[v] = worker[v]
      /\ worker'[w].pc = FirstStep(ev.type) /\ worker'[w].ref = ev.ref /\ worker'[w].ev = ev
  BY DEF Deliver, Idle, DisputeInv, HandlersShape, WorkersShape
<1>4. /\ FirstStep(ev.type) \notin {"recover", "issue"}
      /\ ev.type = "dispute.created" <=> FirstStep(ev.type) = "disputeRow"
      /\ ev.type = "dispute.won" <=> FirstStep(ev.type) = "restore"
  BY <1>2 DEF FirstStep, PaymentEvents, DisputeEvents
<1>5. \A r \in Refs : ev = Created(r) => ev.type = "dispute.created" /\ ev.ref = r
  BY DEF Created, Notice
<1>6. HandlerTrue(w)'
  BY <1>1, <1>2, <1>3, <1>4, <1>5 DEF HandlerTrue, Created, Notice
<1>7. QED BY <1>1, <1>3, <1>4, <1>6, StartsInv

(* A handler that dies leaves its event due. *)
LEMMA CrashStops ==
  ASSUME DisputeInv, NEW w \in Workers, Crash(w)
  PROVE  DisputeInv'
<1>1. UNCHANGED <<tickets, sent, due, dispute>>
  BY DEF Crash, db, stripe, hooks
<1>2. /\ HandlersShape' /\ \A v \in Workers : v # w => worker'[v] = worker[v]
      /\ worker'[w].pc = "idle"
  BY DEF Crash, Idle, DisputeInv, HandlersShape, WorkersShape
<1>3. HandlerTrue(w)'
  BY <1>2 DEF HandlerTrue
<1>4. QED BY <1>1, <1>2, <1>3, StartsInv

(* Refunds, disputes and voids admit nobody. *)
LEMMA ReconcileAdmitsNone ==
  ASSUME DisputeInv, NEW r, NEW amt, ReconcileTickets(r, amt)
  PROVE  AdmitsNone /\ TicketsShape'
<1>1. TicketsKept
  BY DEF ReconcileTickets, DisputeInv, TicketsShape, TicketsKept
<1>2. QED BY <1>1, KeptAdmitsNone

(* Stripe makes a refund, or knows it, or refuses. *)
LEMMA RefundSent ==
  ASSUME DisputeInv, UNCHANGED dispute, NEW r \in Refs, NEW key, NEW amt, NEW f,
         StripeRefund(r, key, amt, f)
  PROVE  NoticesTrue' /\ due \subseteq due'
<1>1. CASE UNCHANGED hooks
  BY <1>1, NothingSent DEF hooks
<1>2. CASE Send({ChargeRefunded(r, AmountRefunded(r) + amt)})
  BY <1>2, SentTrue DEF ChargeRefunded, PaymentEvents
<1>3. QED BY <1>1, <1>2 DEF StripeRefund

(* Nobody is about to issue for a payment whose dispute was handled. *)
LEMMA IssueStops ==
  ASSUME DisputeInv, NEW w \in Workers, Issue(w)
  PROVE  DisputeInv'
<1> PICK r \in Refs : r = worker[w].ref
  BY DEF Issue, At, DisputeInv, HandlerTrue
<1>0. worker[w].pc = "issue" /\ UNCHANGED <<sent, due, dispute>>
  BY DEF Issue, At, stripe, hooks
<1>1. AdmitsNone /\ TicketsShape'
  <2>1. CASE UNCHANGED tickets
    BY <2>1, TicketsStay
  <2>2. ASSUME NEW ids \in SUBSET Unused, Insert(ids, TypeOf[r], BuyerOf[r], r)
        PROVE  AdmitsNone /\ TicketsShape'
    <3>1. TicketsShape'
      BY <2>2 DEF Insert, DisputeInv, TicketsShape
    <3>2. ASSUME NEW q \in Refs, dispute[q] = "open", Created(q) \notin due
          PROVE  ValidOf(q)' \subseteq ValidOf(q)
      <4>1. q # r
        BY <1>0, <3>2 DEF DisputeInv, Stopped, Issuing
      <4>2. QED BY <2>2, <4>1 DEF Insert, ValidOf, OrderTickets
    <3>3. QED BY <1>0, <3>1, <3>2 DEF AdmitsNone, Created, Notice
  <2>3. QED BY <2>1, <2>2 DEF Issue
<1>2. NoticesTrue'
  BY <1>0, NothingSent
<1>3. Moved(w, "record") \/ Moved(w, "refund")
  BY CommonMoves DEF Issue
<1>4. QED BY <1>0, <1>1, <1>2, <1>3, MovedInv

(* fulfilCheckout goes on to issue only when no dispute is open. *)
LEMMA FulfilStops ==
  ASSUME DisputeInv, NEW w \in Workers, Fulfil(w)
  PROVE  DisputeInv'
<1>1. CASE Claim(w)
  <2>1. UNCHANGED <<tickets, dispute>> /\ worker[w].pc = "claim"
    BY <1>1 DEF Claim, At, stripe
  <2>2. CASE Goto(w, "retrieve") /\ UNCHANGED hooks
    <3>1. Moved(w, "retrieve") /\ UNCHANGED <<sent, due>>
      BY <2>2, CommonMoves DEF hooks
    <3>2. QED BY <2>1, <3>1, TicketsStay, NothingSent, MovedInv
  <2>3. ASSUME NEW ok, Finish(w, ok) PROVE DisputeInv'
    BY <2>1, <2>3, TicketsStay, EndedInv
  <2>4. QED BY <1>1, <2>2, <2>3 DEF Claim
<1>2. CASE Retrieve(w)
  <2>1. UNCHANGED <<tickets, sent, due, dispute>> /\ worker[w].pc = "retrieve"
    BY <1>2 DEF Retrieve, At, db, stripe, hooks
  <2>2. Moved(w, "settle") \/ Moved(w, "refund") \/ (Moved(w, "recover") /\ dispute[worker[w].ref] # "open")
    BY <1>2, CommonMoves DEF Retrieve, IsDisputed
  <2>3. QED BY <2>1, <2>2, TicketsStay, NothingSent, MovedInv
<1>3. CASE Recover(w)
  <2>1. UNCHANGED <<tickets, sent, due, dispute>> /\ worker[w].pc = "recover"
    BY <1>3 DEF Recover, At, db, stripe, hooks
  <2>2. Moved(w, "record") \/ Moved(w, "issue")
    BY <1>3, CommonMoves DEF Recover
  <2>3. QED BY <2>1, <2>2, TicketsStay, NothingSent, MovedInv
<1>4. CASE Release(w) \/ Settle(w) \/ Record(w)
  <2>1. /\ UNCHANGED <<tickets, dispute>> /\ worker[w].pc \in {"release", "settle", "record"}
        /\ \E ok : Finish(w, ok)
    BY <1>4 DEF Release, Settle, Record, At, stripe
  <2>2. QED BY <2>1, TicketsStay, EndedInv
<1>5. CASE RefundPayment(w)
  <2>1. UNCHANGED <<tickets, dispute>> /\ worker[w].pc = "refund"
    BY <1>5 DEF RefundPayment, At, db
  <2>2. worker[w].ref \in Refs
    BY <2>1 DEF DisputeInv, HandlerTrue
  <2>3. NoticesTrue' /\ due \subseteq due' /\ Moved(w, "settle")
    BY <1>5, <2>1, <2>2, RefundSent, CommonMoves DEF RefundPayment
  <2>4. QED BY <2>1, <2>3, TicketsStay, MovedInv
<1>6. CASE RefundPaymentRefused(w)
  <2>1. UNCHANGED <<tickets, sent, due, dispute>> /\ worker[w].pc = "refund" /\ Moved(w, "settle")
    BY <1>6, CommonMoves DEF RefundPaymentRefused, At, db, stripe, hooks
  <2>2. QED BY <2>1, TicketsStay, NothingSent, MovedInv
<1>7. QED BY <1>1, <1>2, <1>3, <1>4, <1>5, <1>6, IssueStops DEF Fulfil

(* Expiry, cancellation and refund events. *)
LEMMA CancelStops ==
  ASSUME DisputeInv, NEW w \in Workers, Cancel(w)
  PROVE  DisputeInv'
<1>0. DOMAIN worker = Workers /\ \A v \in Workers : {"pc", "ref", "to", "ev"} \subseteq DOMAIN worker[v]
  BY DEF DisputeInv, HandlersShape, WorkersShape
<1>1. CASE ExpireCheckout(w) \/ CancelRefundRefused(w) \/ CancelWrite(w)
  <2>1. /\ UNCHANGED <<tickets, dispute>> /\ worker[w].pc \in {"expire", "cancelRefund", "cancelWrite"}
        /\ \E ok : Finish(w, ok)
    BY <1>1 DEF ExpireCheckout, CancelRefundRefused, CancelWrite, At, db, stripe
  <2>2. QED BY <2>1, TicketsStay, EndedInv
<1>2. CASE Reconcile(w)
  <2>1. /\ UNCHANGED <<sent, due, dispute>> /\ worker[w].pc = "reconcile"
        /\ \E amt : ReconcileTickets(worker[w].ref, amt)
        /\ \E amt : worker' = [worker EXCEPT ![w].pc = "cancelFind", ![w].amt = amt]
    BY <1>2 DEF Reconcile, At, stripe, hooks
  <2>2. Moved(w, "cancelFind")
    BY <1>0, <2>1 DEF Moved, HandlersShape, WorkersShape
  <2>3. QED BY <2>1, <2>2, ReconcileAdmitsNone, NothingSent, MovedInv
<1>3. CASE CancelFind(w)
  <2>1. UNCHANGED <<tickets, dispute>> /\ worker[w].pc = "cancelFind"
    BY <1>3 DEF CancelFind, At, db, stripe
  <2>2. CASE Finish(w, TRUE)
    BY <2>1, <2>2, TicketsStay, EndedInv
  <2>3. CASE /\ \/ \E key : worker' = [worker EXCEPT ![w].pc = "cancelRefund", ![w].key = key]
                \/ worker' = [worker EXCEPT ![w].pc = "cancelWrite", ![w].to = "refunded"]
             /\ UNCHANGED hooks
    <3>1. (Moved(w, "cancelRefund") \/ Moved(w, "cancelWrite")) /\ UNCHANGED <<sent, due>>
      BY <1>0, <2>3 DEF Moved, HandlersShape, WorkersShape, hooks
    <3>2. QED BY <2>1, <3>1, TicketsStay, NothingSent, MovedInv
  <2>4. QED BY <1>3, <2>2, <2>3 DEF CancelFind
<1>4. CASE CancelRefund(w)
  <2>1. UNCHANGED <<tickets, dispute>> /\ worker[w].pc = "cancelRefund"
    BY <1>4 DEF CancelRefund, At, db
  <2>2. worker[w].ref \in Refs
    BY <2>1 DEF DisputeInv, HandlerTrue
  <2>3. PICK f : /\ StripeRefund(worker[w].ref, worker[w].key, worker[w].amt, f)
                 /\ worker' = [worker EXCEPT ![w].pc = "cancelWrite",
                      ![w].to = IF f.status = "succeeded" THEN "refunded" ELSE "refund_pending"]
    BY <1>4 DEF CancelRefund
  <2>4. NoticesTrue' /\ due \subseteq due'
    BY <2>1, <2>2, <2>3, RefundSent
  <2>5. Moved(w, "cancelWrite")
    BY <1>0, <2>3 DEF Moved, HandlersShape, WorkersShape
  <2>6. QED BY <2>1, <2>4, <2>5, TicketsStay, MovedInv
<1>5. CASE RefundRow(w)
  <2>1. UNCHANGED <<tickets, sent, due, dispute>> /\ worker[w].pc = "refundRow" /\ Moved(w, "refundTickets")
    BY <1>5, CommonMoves DEF RefundRow, At, stripe, hooks
  <2>2. QED BY <2>1, TicketsStay, NothingSent, MovedInv
<1>6. CASE RefundTickets(w)
  <2>1. UNCHANGED dispute /\ Finish(w, TRUE) /\ worker[w].pc = "refundTickets"
    BY <1>6 DEF RefundTickets, At, stripe
  <2>2. AdmitsNone /\ TicketsShape'
    <3>1. CASE \E amt : ReconcileTickets(worker[w].ref, amt)
      BY <3>1, ReconcileAdmitsNone
    <3>2. CASE tickets' = [t \in TicketIds |->
                 IF /\ t \in OrderTickets(worker[w].ref) /\ tickets[t].refund = worker[w].ev.key
                    /\ tickets[t].status = "refunded"
                   THEN [tickets[t] EXCEPT !.status = "void"] ELSE tickets[t]]
      <4>1. TicketsKept
        BY <3>2 DEF DisputeInv, TicketsShape, TicketsKept
      <4>2. QED BY <4>1, KeptAdmitsNone
    <3>3. QED BY <1>6, <3>1, <3>2 DEF RefundTickets
  <2>3. QED BY <2>1, <2>2, EndedInv
<1>7. QED BY <1>1, <1>2, <1>3, <1>4, <1>5, <1>6 DEF Cancel

(* Failed calls. *)
LEMMA FaultStops ==
  ASSUME DisputeInv, NEW w \in Workers, Fault(w)
  PROVE  DisputeInv'
<1>1. CASE RetrieveFails(w) \/ IssueThrows(w)
  <2>1. UNCHANGED <<tickets, sent, due, dispute>> /\ worker[w].pc \in {"retrieve", "issue"}
    BY <1>1 DEF RetrieveFails, IssueThrows, At, db, stripe, hooks
  <2>2. Moved(w, "settle") \/ Moved(w, "release")
    BY <1>1, CommonMoves DEF RetrieveFails, IssueThrows
  <2>3. QED BY <2>1, <2>2, TicketsStay, NothingSent, MovedInv
<1>2. CASE RefundFails(w)
  <2>1. UNCHANGED <<tickets, dispute>> /\ worker[w].pc \in {"refund", "cancelRefund"}
    BY <1>2 DEF RefundFails, At, db, stripe
  <2>2. CASE ToSettle(w, "payment_pending", None, FALSE) /\ UNCHANGED hooks
    <3>1. Moved(w, "settle") /\ UNCHANGED <<sent, due>>
      BY <2>2, CommonMoves DEF hooks
    <3>2. QED BY <2>1, <3>1, TicketsStay, NothingSent, MovedInv
  <2>3. CASE Finish(w, FALSE)
    BY <2>1, <2>3, TicketsStay, EndedInv
  <2>4. QED BY <1>2, <2>2, <2>3 DEF RefundFails
<1>3. QED BY <1>1, <1>2, CrashStops DEF Fault

(* The handler of the dispute voids every ticket before its event is       *)
(* acknowledged; without another handler nobody is left to issue one.      *)
LEMMA ChargebackStops ==
  ASSUME \A v, w \in Workers : v = w,
         DisputeInv, NEW w \in Workers, Chargeback(w)
  PROVE  DisputeInv'
<1>1. CASE DisputeRow(w)
  <2>1. UNCHANGED <<tickets, sent, due, dispute>> /\ worker[w].pc = "disputeRow" /\ Moved(w, "disputeTickets")
    BY <1>1, CommonMoves DEF DisputeRow, At, stripe, hooks
  <2>2. Advances(w) /\ DueKept(w)
    BY <2>1 DEF Moved, Advances, DueKept
  <2>3. QED BY <2>1, <2>2, TicketsStay, NothingSent, AdvanceInv
<1>2. CASE DisputeTickets(w)
  <2> PICK q \in Refs : q = worker[w].ref
    BY <1>2 DEF DisputeTickets, At, DisputeInv, HandlerTrue
  <2>1. UNCHANGED <<sent, dispute>> /\ worker[w].pc = "disputeTickets" /\ Finish(w, TRUE)
    BY <1>2 DEF DisputeTickets, At, stripe, Finish
  <2>2. \A r \in Refs : worker[w].ev = Created(r) => r = q
    BY <2>1 DEF DisputeInv, HandlerTrue
  <2>3. HandlersShape' /\ worker'[w].pc = "idle" /\ due' = due \ {worker[w].ev}
    BY <2>1 DEF Finish, DisputeInv, HandlersShape, WorkersShape, Idle
  <2>4. TicketsKept
    BY <1>2 DEF DisputeTickets, DisputeInv, TicketsShape, TicketsKept
  <2>5. ValidOf(q)' = {}
    BY <1>2 DEF DisputeTickets, DisputeInv, TicketsShape, ValidOf, OrderTickets
  <2>6. \A v \in Workers : v = w
    OBVIOUS
  <2>7. \A v \in Workers : HandlerTrue(v)'
    BY <2>3, <2>6 DEF HandlerTrue
  <2>8. ASSUME NEW r \in Refs PROVE Stopped(r)'
    <3> SUFFICES ASSUME dispute[r] = "open", Created(r) \notin due'
                 PROVE  ValidOf(r)' = {} /\ ~Issuing(r)'
      BY <2>1 DEF Stopped, Created, Notice
    <3>1. ~Issuing(r)'
      BY <2>3, <2>6 DEF Issuing
    <3>2. CASE r = q
      BY <2>5, <3>1, <3>2
    <3>3. CASE r # q
      <4>1. Created(r) \notin due
        BY <2>2, <2>3, <3>3
      <4>2. ValidOf(r) = {}
        BY <4>1 DEF DisputeInv, Stopped
      <4>3. QED BY <2>4, <3>1, <4>2 DEF TicketsKept, ValidOf, OrderTickets
    <3>4. QED BY <3>2, <3>3
  <2>9. QED BY <2>1, <2>3, <2>4, <2>7, <2>8, NothingSent DEF DisputeInv, DisputesShape, TicketsKept
<1>3. CASE RestoreTickets(w)
  <2>1. UNCHANGED <<sent, due, dispute>> /\ worker[w].pc = "restore" /\ Moved(w, "reopen")
    BY <1>3, CommonMoves DEF RestoreTickets, At, stripe, hooks
  <2>2. dispute[worker[w].ref] = "won"
    BY <2>1 DEF DisputeInv, HandlerTrue
  <2>3. TicketsShape'
    BY <1>3 DEF RestoreTickets, DisputeInv, TicketsShape
  <2>4. AdmitsNone
    <3> SUFFICES ASSUME NEW r \in Refs, dispute[r] = "open"
                 PROVE  ValidOf(r)' \subseteq ValidOf(r)
      BY DEF AdmitsNone, Created, Notice
    <3>1. r # worker[w].ref
      BY <2>2
    <3>2. QED BY <1>3, <3>1 DEF RestoreTickets, DisputeInv, TicketsShape, ValidOf, OrderTickets
  <2>5. QED BY <2>1, <2>3, <2>4, NothingSent, MovedInv
<1>4. CASE Reopen(w)
  <2>1. UNCHANGED <<tickets, dispute>> /\ worker[w].pc = "reopen"
    BY <1>4 DEF Reopen, At, stripe
  <2>2. CASE Goto(w, "claim") /\ UNCHANGED hooks
    <3>1. Moved(w, "claim") /\ UNCHANGED <<sent, due>>
      BY <2>2, CommonMoves DEF hooks
    <3>2. QED BY <2>1, <3>1, TicketsStay, NothingSent, MovedInv
  <2>3. CASE Finish(w, TRUE)
    BY <2>1, <2>3, TicketsStay, EndedInv
  <2>4. QED BY <1>4, <2>2, <2>3 DEF Reopen
<1>5. QED BY <1>1, <1>2, <1>3, <1>4 DEF Chargeback

(* Guests' tickets belong to no payment, and a voided ticket admits nobody. *)
LEMMA StaffStops ==
  ASSUME DisputeInv, Staff
  PROVE  DisputeInv'
<1>1. UNCHANGED <<worker, sent, due, dispute>>
  BY DEF Staff, IssueDirect, VoidTicket, stripe, hooks
<1>2. AdmitsNone /\ TicketsShape'
  <2>1. ASSUME NEW ids \in SUBSET Unused, NEW ty, NEW who, Insert(ids, ty, who, None)
        PROVE  AdmitsNone /\ TicketsShape'
    <3>1. TicketsShape'
      BY <2>1 DEF Insert, DisputeInv, TicketsShape
    <3>2. \A q \in Refs : ValidOf(q)' \subseteq ValidOf(q)
      BY <2>1, CheckoutAssumption DEF Insert, ValidOf, OrderTickets
    <3>3. QED BY <3>1, <3>2 DEF AdmitsNone
  <2>2. ASSUME NEW t \in TicketIds, VoidTicket(t) PROVE AdmitsNone /\ TicketsShape'
    <3>1. TicketsKept
      BY <2>2 DEF VoidTicket, DisputeInv, TicketsShape, TicketsKept
    <3>2. QED BY <3>1, KeptAdmitsNone
  <2>3. QED BY <2>1, <2>2 DEF Staff, IssueDirect
<1>3. QED BY <1>1, <1>2, NothingSent, OutsideInv

(* No dispute is there at the start. *)
LEMMA DisputeInvInit == Init => DisputeInv
  BY DEF Init, Idle, NoTicket, DisputeInv, HandlersShape, WorkersShape, TicketsShape, DisputesShape,
         NoticesTrue, HandlerTrue, Stopped

(* Every step keeps the invariant. *)
LEMMA DisputeInvNext ==
  ASSUME \A v, w \in Workers : v = w
  PROVE  DisputeInv /\ [Next]_vars => DisputeInv'
<1> SUFFICES ASSUME DisputeInv, [Next]_vars PROVE DisputeInv'
  OBVIOUS
<1>1. CASE UNCHANGED vars
  <2>1. UNCHANGED <<worker, tickets, sent, due, dispute>>
    BY <1>1 DEF vars
  <2>2. QED BY <2>1, TicketsStay, NothingSent, OutsideInv
<1>2. CASE Next
  BY <1>2, BuyerStops, ProviderStops, DeliverStops, FulfilStops, CancelStops, ChargebackStops,
     FaultStops, StaffStops DEF Next, Handler
<1>3. QED BY <1>1, <1>2

(* An open dispute stops every admission it pays for, however often its    *)
(* event comes, in whatever order with the payment's other events, and     *)
(* wherever its handler stopped before: once the events of the payment are *)
(* handled, none of its tickets is valid.                                  *)
THEOREM DisputeStopsAdmission ==
  ASSUME \A v, w \in Workers : v = w
  PROVE  Spec => []DisputedAdmitsNobody
<1>1. DisputeInv => DisputedAdmitsNobody
  BY DEF DisputeInv, Stopped, DisputedAdmitsNobody, Quiet, Created, Notice
<1>2. QED BY <1>1, DisputeInvInit, DisputeInvNext, PTL DEF Spec

-----------------------------------------------------------------------------
(* Sums of refunds: the tickets' worth they return, one unit each. *)

(* Some refunds return a number of tickets' worth. *)
LEMMA UnitsFinite ==
  ASSUME NEW S, IsFiniteSet(S)
  PROVE  IsFiniteSet(Units(S)) /\ Cardinality(Units(S)) \in Nat
<1>1. IsFiniteSet(1..MaxQty)
  BY CapacityAssumption, FS_Interval
<1>2. IsFiniteSet(S \X (1..MaxQty))
  BY <1>1, FS_Product
<1>3. Units(S) \in SUBSET (S \X (1..MaxQty))
  BY DEF Units
<1>4. IsFiniteSet(Units(S))
  BY <1>2, <1>3, FS_Subset
<1>5. QED BY <1>4, FS_CardinalityType

(* Fewer refunds return no more. *)
LEMMA UnitsOfPart ==
  ASSUME NEW S, IsFiniteSet(S), NEW T \in SUBSET S
  PROVE  Cardinality(Units(T)) <= Cardinality(Units(S))
<1>1. Units(T) \in SUBSET Units(S)
  BY DEF Units
<1>2. QED BY <1>1, UnitsFinite, FS_Subset

(* One refund returns its amount. *)
LEMMA UnitsOfOne ==
  ASSUME NEW f \in Refund
  PROVE  IsFiniteSet(Units({f})) /\ Cardinality(Units({f})) = f.amt
<1>0. MaxQty \in Nat /\ f.amt \in 1..MaxQty
  BY CapacityAssumption DEF Refund
<1> DEFINE b == [i \in 1..f.amt |-> <<f, i>>]
<1>1. \A i \in 1..f.amt : <<f, i>> \in Units({f})
  BY <1>0 DEF Units
<1>2. b \in [1..f.amt -> Units({f})]
  BY <1>1
<1>3. ASSUME NEW i \in 1..f.amt, NEW j \in 1..f.amt, b[i] = b[j]
      PROVE  i = j
  BY <1>3
<1>4. ASSUME NEW u \in Units({f})
      PROVE  \E i \in 1..f.amt : b[i] = u
  <2>1. u \in {f} \X (1..MaxQty) /\ u[2] <= u[1].amt
    BY DEF Units
  <2>2. PICK i \in 1..MaxQty : u = <<f, i>>
    BY <2>1
  <2>3. i \in 1..f.amt
    BY <2>1, <2>2, <1>0
  <2> QED BY <2>2, <2>3
<1>5. b \in Bijection(1..f.amt, Units({f}))
  BY <1>2, <1>3, <1>4 DEF Bijection, Injection, Surjection, IsInjective
<1>6. ExistsBijection(1..f.amt, Units({f}))
  BY <1>5 DEF ExistsBijection
<1>7. IsFiniteSet(1..f.amt) /\ Cardinality(1..f.amt) = f.amt
  BY <1>0, FS_Interval
<1>8. QED BY <1>6, <1>7, FS_Bijection

(* One more refund returns its amount more, at most. *)
LEMMA UnitsAdd ==
  ASSUME NEW S, IsFiniteSet(S), NEW f \in Refund
  PROVE  /\ Cardinality(Units(S \cup {f})) <= Cardinality(Units(S)) + f.amt
         /\ f \notin S => Cardinality(Units(S \cup {f})) = Cardinality(Units(S)) + f.amt
<1>0. f.amt \in Nat
  BY CapacityAssumption DEF Refund
<1>1. Units(S \cup {f}) = Units(S) \cup Units({f})
  BY DEF Units
<1>2. /\ IsFiniteSet(Units(S)) /\ Cardinality(Units(S)) \in Nat
      /\ IsFiniteSet(Units({f})) /\ Cardinality(Units({f})) = f.amt
  BY UnitsFinite, UnitsOfOne
<1>3. Cardinality(Units(S \cup {f}))
        = Cardinality(Units(S)) + f.amt - Cardinality(Units(S) \cap Units({f}))
  BY <1>1, <1>2, FS_Union
<1>4. Cardinality(Units(S) \cap Units({f})) \in Nat
  BY <1>2, FS_Intersection, FS_CardinalityType
<1>5. ASSUME f \notin S PROVE Cardinality(Units(S) \cap Units({f})) = 0
  <2>1. Units(S) \cap Units({f}) = {}
    BY <1>5 DEF Units
  <2> QED BY <2>1, FS_EmptySet
<1>6. QED BY <1>0, <1>2, <1>3, <1>4, <1>5

(* Of some tickets one is the last. *)
LEMMA LastTicket ==
  ASSUME NEW S \in SUBSET TicketIds, S # {}
  PROVE  \E t \in S : \A u \in S : u <= t
<1>0. MaxTickets \in Nat
  BY CapacityAssumption
<1> DEFINE T == {n \in Nat : \E t \in S : t + n = MaxTickets}
<1>1. T \subseteq Nat
  OBVIOUS
<1>2. T # {}
  <2>1. PICK t \in S : TRUE
    OBVIOUS
  <2>2. t \in 1..MaxTickets
    BY DEF TicketIds
  <2>3. MaxTickets - t \in Nat /\ t + (MaxTickets - t) = MaxTickets
    BY <2>2, <1>0
  <2> QED BY <2>1, <2>3
<1> HIDE DEF T
<1>3. \E n \in T : \A m \in T : ~(<<m, n>> \in OpToRel(<, Nat))
  BY <1>1, <1>2, NatLessThanWellFounded, WFMin
<1>4. PICK n \in T : \A m \in T : ~(m < n)
  BY <1>3, <1>1 DEF OpToRel
<1>5. PICK t \in S : t + n = MaxTickets /\ n \in Nat
  BY <1>4 DEF T
<1>6. ASSUME NEW u \in S PROVE u <= t
  <2>1. u \in 1..MaxTickets /\ t \in 1..MaxTickets
    BY DEF TicketIds
  <2>2. MaxTickets - u \in Nat /\ u + (MaxTickets - u) = MaxTickets
    BY <2>1, <1>0
  <2>3. MaxTickets - u \in T
    BY <2>2 DEF T
  <2>4. ~(MaxTickets - u < n)
    BY <2>3, <1>4
  <2> QED BY <2>1, <2>2, <2>4, <1>5, <1>0
<1> QED BY <1>6

(* If a ticket has no more than n tickets of its order up to it, and so do *)
(* the others of a set, the set has no more than n.                        *)
LEMMA CoveredAreFew ==
  ASSUME NEW S \in SUBSET TicketIds, NEW O \in SUBSET TicketIds, S \subseteq O, NEW n \in Nat,
         \A t \in S : Cardinality({u \in O : u <= t}) <= n
  PROVE  Cardinality(S) <= n
<1>1. CASE S = {}
  BY <1>1, FS_EmptySet
<1>2. CASE S # {}
  <2>1. PICK t \in S : \A u \in S : u <= t
    BY <1>2, LastTicket
  <2>2. S \in SUBSET {u \in O : u <= t}
    BY <2>1
  <2>3. IsFiniteSet(TicketIds)
    BY FS_Interval, CapacityAssumption DEF TicketIds
  <2>4. IsFiniteSet({u \in O : u <= t})
    BY <2>3, FS_Subset
  <2>5. /\ Cardinality(S) <= Cardinality({u \in O : u <= t}) /\ Cardinality(S) \in Nat
        /\ Cardinality({u \in O : u <= t}) \in Nat
    BY <2>2, <2>4, FS_Subset, FS_CardinalityType
  <2> QED BY <2>5
<1> QED BY <1>1, <1>2

-----------------------------------------------------------------------------
(* The types, and the money a payment has returned. *)

LedgerRow == [status : RowStatus, refund : RefundKey \cup {None}]
TicketRow == [status : TicketStatus, type : Types \cup {None}, holder : Persons \cup {None},
              ref : Refs \cup {None}, refund : RefundKey \cup {None}]
HandlerState == [pc : Steps, ref : Refs \cup {None}, ev : Event \cup {None}, amt : 0..MaxQty,
                 to : RowStatus, key : RefundKey \cup {None}, ok : BOOLEAN]

DbTyped ==
  /\ row \in [Refs -> LedgerRow]
  /\ lapsed \in [Refs -> BOOLEAN] /\ stale \in [Refs -> BOOLEAN]
  /\ tickets \in [TicketIds -> TicketRow]

(* No payment returns more than it brought in. *)
MoneyTyped ==
  /\ session \in [Refs -> SessionStatus]
  /\ dispute \in [Refs -> {"none", "open", "won"}]
  /\ refunds \in [Refs -> SUBSET Refund]
  /\ \A r \in Refs : IsFiniteSet(refunds[r]) /\ AmountRefunded(r) <= QtyOf[r]

EventsTyped == sent \subseteq Event /\ due \subseteq sent

(* What a handler carries suits the step it is at. *)
Sound(s, events) ==
  /\ s.pc # "idle" => s.ref \in Refs
  /\ s.ev # None => s.ev \in events /\ s.ev.ref = s.ref
  /\ s.pc = "reconcile" => s.ev # None /\ s.ev.type = "charge.refunded"
  /\ s.pc \in {"refundRow", "refundTickets"} => s.ev # None /\ s.ev.type = "refund.updated"
  /\ s.pc \in {"refund", "cancelRefund"} =>
       s.key \in RefundKey /\ s.key.kind \in {"oversold", "pre-fulfil"}

HandlersTyped ==
  /\ worker \in [Workers -> HandlerState]
  /\ \A w \in Workers : Sound(worker[w], sent)

TypeInv ==
  /\ DbTyped /\ MoneyTyped /\ EventsTyped /\ HandlersTyped
  /\ faults \in 0..MaxFaults

(* What a step leaves alone keeps its types. *)
LEMMA SameDb == ASSUME DbTyped, UNCHANGED db PROVE DbTyped'
  BY DEF DbTyped, db

(* Nothing happens at Stripe. *)
LEMMA SameMoney == ASSUME MoneyTyped, UNCHANGED stripe PROVE MoneyTyped'
  BY DEF MoneyTyped, stripe, AmountRefunded, Live

(* No event is made or acknowledged. *)
LEMMA SameHooks == ASSUME EventsTyped, UNCHANGED hooks PROVE EventsTyped' /\ sent \subseteq sent'
  BY DEF EventsTyped, hooks

(* Nobody's handler moves. *)
LEMMA SameHandlers ==
  ASSUME HandlersTyped, UNCHANGED worker, sent \subseteq sent' PROVE HandlersTyped'
  BY DEF HandlersTyped, Sound

(* Faults are counted up to their bound. *)
LEMMA FaultsTyped ==
  ASSUME faults \in 0..MaxFaults, faults' = faults \/ (faults < MaxFaults /\ faults' = faults + 1)
  PROVE  faults' \in 0..MaxFaults
  BY CheckoutAssumption

(* New events are sent. *)
LEMMA SentTyped ==
  ASSUME EventsTyped, NEW evs \in SUBSET Event, Send(evs)
  PROVE  EventsTyped' /\ sent \subseteq sent' /\ sent' = sent \cup evs
  BY DEF EventsTyped, Send

(* The events of a payment. *)
LEMMA NoticeIsEvent ==
  ASSUME NEW r \in Refs,
         NEW type \in {"completed", "async_succeeded", "expired", "dispute.created", "dispute.won"}
  PROVE  Notice(type, r) \in Event
  BY DEF Notice, Event

(* One handler goes on with a sound state. *)
LEMMA OneHandler ==
  ASSUME HandlersTyped, NEW w \in Workers, NEW s \in HandlerState,
         worker' = [worker EXCEPT ![w] = s], sent \subseteq sent', Sound(s, sent')
  PROVE  HandlersTyped'
<1>1. worker' \in [Workers -> HandlerState]
  BY DEF HandlersTyped
<1>2. ASSUME NEW v \in Workers PROVE Sound(worker'[v], sent')
  <2>1. CASE v = w
    BY <2>1 DEF HandlersTyped
  <2>2. CASE v # w
    <3>1. worker'[v] = worker[v] /\ Sound(worker[v], sent)
      BY <2>2 DEF HandlersTyped
    <3> QED BY <3>1 DEF Sound
  <2> QED BY <2>1, <2>2
<1> QED BY <1>1, <1>2 DEF HandlersTyped

(* An idle handler. *)
LEMMA IdleIsSound == Idle \in HandlerState /\ \A events : Sound(Idle, events)
<1>1. Idle \in HandlerState
  BY CapacityAssumption DEF Idle, HandlerState, Steps, RowStatus
<1>2. \A events : Sound(Idle, events)
  BY DEF Idle, Sound
<1> QED BY <1>1, <1>2

(* A handler goes to its next step. *)
LEMMA GotoTyped ==
  ASSUME HandlersTyped, NEW w \in Workers, NEW pc \in Steps, Goto(w, pc), sent \subseteq sent',
         worker[w].pc # "idle",
         \/ pc \in {"claim", "retrieve", "recover", "issue", "record", "release", "disputeTickets",
                    "reopen"}
         \/ (pc = "refundTickets" /\ worker[w].pc = "refundRow")
  PROVE  HandlersTyped'
<1> DEFINE s == [worker[w] EXCEPT !.pc = pc]
<1>1. worker[w] \in HandlerState /\ Sound(worker[w], sent)
  BY DEF HandlersTyped
<1>2. s \in HandlerState /\ s.pc = pc /\ s.ref = worker[w].ref /\ s.ev = worker[w].ev
  BY <1>1 DEF HandlerState
<1>3. worker' = [worker EXCEPT ![w] = s]
  BY DEF Goto, HandlersTyped
<1> HIDE DEF s
<1>4. Sound(s, sent')
  BY <1>1, <1>2 DEF Sound
<1> QED BY <1>2, <1>3, <1>4, OneHandler

(* A handler goes to its last write. *)
LEMMA ToSettleTyped ==
  ASSUME HandlersTyped, NEW w \in Workers, NEW status \in RowStatus,
         NEW key \in RefundKey \cup {None}, NEW ok \in BOOLEAN,
         ToSettle(w, status, key, ok), sent \subseteq sent', worker[w].pc # "idle"
  PROVE  HandlersTyped'
<1> DEFINE s == [worker[w] EXCEPT !.pc = "settle", !.to = status, !.key = key, !.ok = ok]
<1>1. worker[w] \in HandlerState /\ Sound(worker[w], sent)
  BY DEF HandlersTyped
<1>2. s \in HandlerState /\ s.pc = "settle" /\ s.ref = worker[w].ref /\ s.ev = worker[w].ev
  BY <1>1 DEF HandlerState, Steps
<1>3. worker' = [worker EXCEPT ![w] = s]
  BY DEF ToSettle, HandlersTyped
<1> HIDE DEF s
<1>4. Sound(s, sent')
  BY <1>1, <1>2 DEF Sound
<1> QED BY <1>2, <1>3, <1>4, OneHandler

(* A handler goes to the refund of its payment. *)
LEMMA ToRefundTyped ==
  ASSUME HandlersTyped, NEW w \in Workers, NEW amt \in 0..MaxQty, NEW key \in RefundKey,
         key.kind \in {"oversold", "pre-fulfil"},
         ToRefund(w, key, amt), sent \subseteq sent', worker[w].pc # "idle"
  PROVE  HandlersTyped'
<1> DEFINE s == [worker[w] EXCEPT !.pc = "refund", !.key = key, !.amt = amt]
<1>1. worker[w] \in HandlerState /\ Sound(worker[w], sent)
  BY DEF HandlersTyped
<1>2. s \in HandlerState /\ s.pc = "refund" /\ s.ref = worker[w].ref /\ s.ev = worker[w].ev
      /\ s.key = key
  BY <1>1 DEF HandlerState, Steps
<1>3. worker' = [worker EXCEPT ![w] = s]
  BY DEF ToRefund, HandlersTyped
<1> HIDE DEF s
<1>4. Sound(s, sent')
  BY <1>1, <1>2 DEF Sound
<1> QED BY <1>2, <1>3, <1>4, OneHandler

(* A handler ends, or its process does. *)
LEMMA FinishTyped ==
  ASSUME HandlersTyped, EventsTyped, NEW w \in Workers, NEW ok, Finish(w, ok)
  PROVE  HandlersTyped' /\ EventsTyped' /\ sent' = sent
<1>1. worker' = [worker EXCEPT ![w] = Idle] /\ sent' = sent
  BY DEF Finish
<1>2. HandlersTyped'
  BY <1>1, IdleIsSound, OneHandler
<1>3. EventsTyped'
  BY DEF Finish, EventsTyped
<1> QED BY <1>1, <1>2, <1>3

(* A write to one row. *)
LEMMA RowWritten ==
  ASSUME DbTyped, NEW r \in Refs, NEW s \in RowStatus
  PROVE  /\ [row EXCEPT ![r].status = s] \in [Refs -> LedgerRow]
         /\ row[r] \in LedgerRow /\ row[r].status \in RowStatus
         /\ row[r].refund \in RefundKey \cup {None}
  BY DEF DbTyped, LedgerRow

(* The rows and the tickets, one by one. *)
LEMMA DbParts ==
  ASSUME row' \in [Refs -> LedgerRow], lapsed' \in [Refs -> BOOLEAN], stale' \in [Refs -> BOOLEAN],
         tickets' \in [TicketIds -> TicketRow]
  PROVE  DbTyped'
  BY DEF DbTyped

(* The amount a payment has returned and what is left of it. *)
LEMMA AmountsTyped ==
  ASSUME MoneyTyped, NEW r \in Refs
  PROVE  /\ AmountRefunded(r) \in 0..MaxQty /\ AmountRefunded(r) <= QtyOf[r]
         /\ QtyOf[r] \in 1..MaxQty /\ Balance(r) \in 0..QtyOf[r] /\ MaxQty \in Nat
         /\ Balance(r) = QtyOf[r] - AmountRefunded(r)
         /\ IsFiniteSet(refunds[r]) /\ IsFiniteSet(Live(r))
<1>1. IsFiniteSet(refunds[r]) /\ AmountRefunded(r) <= QtyOf[r] /\ Live(r) \in SUBSET refunds[r]
  BY DEF MoneyTyped, Live
<1>2. IsFiniteSet(Live(r))
  BY <1>1, FS_Subset
<1>3. AmountRefunded(r) \in Nat
  BY <1>2, UnitsFinite DEF AmountRefunded
<1>4. QtyOf[r] \in 1..MaxQty /\ MaxQty \in Nat
  BY CapacityAssumption
<1> QED BY <1>1, <1>2, <1>3, <1>4 DEF Balance

(* A session or a dispute moves and no money does. *)
LEMMA PaymentMoves ==
  ASSUME MoneyTyped, session' \in [Refs -> SessionStatus],
         dispute' \in [Refs -> {"none", "open", "won"}], UNCHANGED refunds
  PROVE  MoneyTyped'
  BY DEF MoneyTyped, AmountRefunded, Live

(* A session moves. *)
LEMMA SessionMoves ==
  ASSUME MoneyTyped, NEW r \in Refs, NEW s \in SessionStatus,
         session' = [session EXCEPT ![r] = s], UNCHANGED <<refunds, dispute>>
  PROVE  MoneyTyped'
<1>1. session' \in [Refs -> SessionStatus] /\ dispute' \in [Refs -> {"none", "open", "won"}]
  BY DEF MoneyTyped
<1> QED BY <1>1, PaymentMoves

(* A refund adds its amount, or less when it was there before. *)
LEMMA RefundRaises ==
  ASSUME MoneyTyped, NEW r \in Refs, NEW f \in Refund,
         refunds' = [refunds EXCEPT ![r] = @ \cup {f}]
  PROVE  /\ \A q \in Refs : IsFiniteSet(refunds'[q]) /\ AmountRefunded(q)' \in Nat
         /\ \A q \in Refs : q # r => AmountRefunded(q)' = AmountRefunded(q)
         /\ AmountRefunded(r)' <= AmountRefunded(r) + f.amt
<1>0. f.amt \in Nat
  BY CapacityAssumption DEF Refund
<1>1. refunds'[r] = refunds[r] \cup {f}
  BY DEF MoneyTyped
<1>2. IsFiniteSet(refunds'[r])
  <2>1. IsFiniteSet(refunds[r])
    BY AmountsTyped
  <2>2. IsFiniteSet(refunds[r] \cup {f})
    BY <2>1, FS_AddElement
  <2> QED BY <1>1, <2>2
<1>3. Live(r)' \in SUBSET (Live(r) \cup {f})
  BY <1>1 DEF Live
<1>4. IsFiniteSet(Live(r)) /\ IsFiniteSet(Live(r) \cup {f}) /\ IsFiniteSet(Live(r)')
  BY <1>3, AmountsTyped, FS_AddElement, FS_Subset
<1>5. Cardinality(Units(Live(r)')) <= Cardinality(Units(Live(r) \cup {f}))
  BY <1>3, <1>4, UnitsOfPart
<1>6. Cardinality(Units(Live(r) \cup {f})) <= Cardinality(Units(Live(r))) + f.amt
  BY <1>4, UnitsAdd
<1>7. /\ Cardinality(Units(Live(r)')) \in Nat /\ Cardinality(Units(Live(r))) \in Nat
      /\ Cardinality(Units(Live(r) \cup {f})) \in Nat
  BY <1>4, UnitsFinite
<1>8. Units(Live(r))' = Units(Live(r)')
  BY DEF Units
<1>9. AmountRefunded(r)' <= AmountRefunded(r) + f.amt /\ AmountRefunded(r)' \in Nat
  BY <1>5, <1>6, <1>7, <1>8, <1>0 DEF AmountRefunded
<1>10. ASSUME NEW q \in Refs, q # r
       PROVE  /\ IsFiniteSet(refunds'[q]) /\ AmountRefunded(q)' \in Nat
              /\ AmountRefunded(q)' = AmountRefunded(q)
  <2>1. refunds'[q] = refunds[q]
    BY <1>10 DEF MoneyTyped
  <2>2. AmountRefunded(q)' = AmountRefunded(q)
    BY <2>1 DEF AmountRefunded, Live, Units
  <2> QED BY <2>1, <2>2, AmountsTyped
<1> QED BY <1>2, <1>9, <1>10

(* A refund within the balance. *)
LEMMA RefundAdds ==
  ASSUME MoneyTyped, NEW r \in Refs, NEW f \in Refund, f.amt <= Balance(r),
         refunds' = [refunds EXCEPT ![r] = @ \cup {f}], UNCHANGED <<session, dispute>>
  PROVE  MoneyTyped'
<1>1. refunds' \in [Refs -> SUBSET Refund]
  BY DEF MoneyTyped
<1>2. ASSUME NEW q \in Refs
      PROVE  IsFiniteSet(refunds'[q]) /\ AmountRefunded(q)' <= QtyOf[q]
  <2>1. CASE q = r
    <3>1. f.amt \in Nat
      BY CapacityAssumption DEF Refund
    <3>2. /\ IsFiniteSet(refunds'[r]) /\ AmountRefunded(r)' \in Nat
          /\ AmountRefunded(r)' <= AmountRefunded(r) + f.amt
      BY RefundRaises
    <3> QED BY <2>1, <3>1, <3>2, AmountsTyped
  <2>2. CASE q # r
    <3>1. IsFiniteSet(refunds'[q]) /\ AmountRefunded(q)' = AmountRefunded(q)
      BY <2>2, RefundRaises
    <3> QED BY <3>1 DEF MoneyTyped
  <2> QED BY <2>1, <2>2
<1> QED BY <1>1, <1>2 DEF MoneyTyped

(* A pending refund settles: its money stays returned, or comes back. *)
LEMMA SettlingLowers ==
  ASSUME MoneyTyped, NEW r \in Refs, NEW f \in refunds[r], NEW s \in {"succeeded", "failed"},
         f.status = "pending",
         refunds' = [refunds EXCEPT ![r] = (@ \ {f}) \cup {[f EXCEPT !.status = s]}]
  PROVE  /\ refunds' \in [Refs -> SUBSET Refund]
         /\ \A q \in Refs : IsFiniteSet(refunds'[q]) /\ AmountRefunded(q)' \in Nat
         /\ \A q \in Refs : AmountRefunded(q)' <= AmountRefunded(q)
         /\ \A g \in refunds'[r] : \E h \in refunds[r] : g.key = h.key
<1> DEFINE g == [f EXCEPT !.status = s]
<1>1. f \in Refund /\ g \in Refund /\ g.amt = f.amt /\ f.amt \in Nat /\ g.key = f.key
  BY CapacityAssumption DEF Refund, MoneyTyped
<1> HIDE DEF g
<1>2. refunds' \in [Refs -> SUBSET Refund]
  BY <1>1 DEF MoneyTyped, g
<1>3. refunds'[r] = (refunds[r] \ {f}) \cup {g}
  BY DEF MoneyTyped, g
<1>4. IsFiniteSet(refunds'[r])
  <2>1. refunds[r] \ {f} \in SUBSET refunds[r] /\ IsFiniteSet(refunds[r])
    BY AmountsTyped
  <2>2. IsFiniteSet(refunds[r] \ {f})
    BY <2>1, FS_Subset
  <2>3. IsFiniteSet((refunds[r] \ {f}) \cup {g})
    BY <2>2, FS_AddElement
  <2> QED BY <1>3, <2>3
<1>5. AmountRefunded(r)' <= AmountRefunded(r) /\ AmountRefunded(r)' \in Nat
  <2> DEFINE S == Live(r) \ {f}
  <2>1. f \in Live(r) /\ f \notin S /\ S \cup {f} = Live(r)
    BY DEF Live
  <2>2. Live(r)' \in SUBSET (S \cup {g})
    BY <1>3 DEF Live
  <2>3. S \in SUBSET Live(r) /\ IsFiniteSet(Live(r))
    BY AmountsTyped
  <2> HIDE DEF S
  <2>4. IsFiniteSet(S) /\ IsFiniteSet(S \cup {g}) /\ IsFiniteSet(Live(r)')
    BY <2>2, <2>3, FS_Subset, FS_AddElement
  <2>5. Cardinality(Units(Live(r))) = Cardinality(Units(S)) + f.amt
    <3>1. Cardinality(Units(S \cup {f})) = Cardinality(Units(S)) + f.amt
      BY <2>1, <2>4, <1>1, UnitsAdd
    <3> QED BY <3>1, <2>1
  <2>6. Cardinality(Units(S \cup {g})) <= Cardinality(Units(S)) + f.amt
    BY <2>4, <1>1, UnitsAdd
  <2>7. Cardinality(Units(Live(r)')) <= Cardinality(Units(S \cup {g}))
    BY <2>2, <2>4, UnitsOfPart
  <2>8. /\ Cardinality(Units(Live(r)')) \in Nat /\ Cardinality(Units(S)) \in Nat
        /\ Cardinality(Units(S \cup {g})) \in Nat
    BY <2>4, UnitsFinite
  <2>9. Units(Live(r))' = Units(Live(r)')
    BY DEF Units
  <2> QED BY <2>5, <2>6, <2>7, <2>8, <2>9, <1>1 DEF AmountRefunded
<1>6. ASSUME NEW q \in Refs, q # r
      PROVE  /\ IsFiniteSet(refunds'[q]) /\ AmountRefunded(q)' \in Nat
             /\ AmountRefunded(q)' <= AmountRefunded(q)
  <2>1. refunds'[q] = refunds[q]
    BY <1>6 DEF MoneyTyped
  <2>2. AmountRefunded(q)' = AmountRefunded(q)
    BY <2>1 DEF AmountRefunded, Live, Units
  <2> QED BY <2>1, <2>2, AmountsTyped
<1>7. \A h \in refunds'[r] : \E e \in refunds[r] : h.key = e.key
  BY <1>1, <1>3
<1> QED BY <1>2, <1>4, <1>5, <1>6, <1>7

(* The types of a payment whose refund settles. *)
LEMMA SettlingAdds ==
  ASSUME MoneyTyped, NEW r \in Refs, NEW f \in refunds[r], NEW s \in {"succeeded", "failed"},
         f.status = "pending",
         refunds' = [refunds EXCEPT ![r] = (@ \ {f}) \cup {[f EXCEPT !.status = s]}],
         UNCHANGED <<session, dispute>>
  PROVE  MoneyTyped'
<1>1. /\ refunds' \in [Refs -> SUBSET Refund]
      /\ \A q \in Refs : IsFiniteSet(refunds'[q]) /\ AmountRefunded(q)' \in Nat
      /\ \A q \in Refs : AmountRefunded(q)' <= AmountRefunded(q)
  BY SettlingLowers
<1>2. \A q \in Refs : AmountRefunded(q)' <= QtyOf[q]
  BY <1>1, AmountsTyped
<1> QED BY <1>1, <1>2 DEF MoneyTyped

(* A running total that is within a payment. *)
LEMMA ChargeIsEvent ==
  ASSUME NEW r \in Refs, NEW amt \in 0..MaxQty
  PROVE  ChargeRefunded(r, amt) \in Event
  BY DEF ChargeRefunded, Event

(* A buyer's request. *)
LEMMA BuyerTyped == ASSUME TypeInv, NEW r \in Refs, Buyer(r) PROVE TypeInv'
<1> USE DEF TypeInv
<1>0. /\ row \in [Refs -> LedgerRow] /\ lapsed \in [Refs -> BOOLEAN]
      /\ stale \in [Refs -> BOOLEAN] /\ tickets \in [TicketIds -> TicketRow]
  BY DEF DbTyped
<1>1. CASE StartCheckout(r)
  <2>1. row' = [row EXCEPT ![r].status = "creating"] /\ "creating" \in RowStatus
    BY <1>1 DEF StartCheckout, RowStatus
  <2>2. row' \in [Refs -> LedgerRow]
    BY <2>1, RowWritten
  <2>3. DbTyped'
    BY <1>0, <1>1, <2>2, DbParts DEF StartCheckout
  <2>4. UNCHANGED stripe /\ UNCHANGED hooks /\ UNCHANGED worker /\ UNCHANGED faults
    BY <1>1 DEF StartCheckout
  <2> QED BY <2>3, <2>4, SameMoney, SameHooks, SameHandlers
<1>2. CASE CreateSession(r)
  <2>1. UNCHANGED db /\ UNCHANGED hooks /\ UNCHANGED worker /\ UNCHANGED faults
    BY <1>2 DEF CreateSession
  <2>2. "created" \in SessionStatus
    BY DEF SessionStatus
  <2>3. MoneyTyped'
    BY <1>2, <2>2, SessionMoves DEF CreateSession
  <2> QED BY <2>1, <2>3, SameDb, SameHooks, SameHandlers
<1>3. CASE CreateFails(r)
  <2>1. row' = [row EXCEPT ![r].status = "failed"] /\ "failed" \in RowStatus
    BY <1>3 DEF CreateFails, RowStatus
  <2>2. row' \in [Refs -> LedgerRow]
    BY <2>1, RowWritten
  <2>3. DbTyped'
    BY <1>0, <1>3, <2>2, DbParts DEF CreateFails
  <2>4. /\ UNCHANGED stripe /\ UNCHANGED hooks /\ UNCHANGED worker
        /\ faults < MaxFaults /\ faults' = faults + 1
    BY <1>3 DEF CreateFails
  <2> QED BY <2>3, <2>4, SameMoney, SameHooks, SameHandlers, FaultsTyped
<1>4. CASE PersistSession(r)
  <2>1. row' = [row EXCEPT ![r].status = "pending"] /\ "pending" \in RowStatus
    BY <1>4 DEF PersistSession, RowStatus
  <2>2. row' \in [Refs -> LedgerRow]
    BY <2>1, RowWritten
  <2>3. DbTyped'
    BY <1>0, <1>4, <2>2, DbParts DEF PersistSession
  <2>4. UNCHANGED hooks /\ UNCHANGED worker /\ UNCHANGED faults
    BY <1>4 DEF PersistSession
  <2>5. "open" \in SessionStatus
    BY DEF SessionStatus
  <2>6. MoneyTyped'
    BY <1>4, <2>5, SessionMoves DEF PersistSession
  <2> QED BY <2>3, <2>4, <2>6, SameHooks, SameHandlers
<1>5. CASE PersistFails(r)
  <2> DEFINE s == IF row[r].status = "creating" THEN "failed" ELSE row[r].status
  <2>1. s \in RowStatus
    BY <1>0 DEF RowStatus, LedgerRow
  <2>2. row' = [row EXCEPT ![r].status = s]
    BY <1>5, <1>0 DEF PersistFails
  <2> HIDE DEF s
  <2>3. row' \in [Refs -> LedgerRow]
    BY <2>1, <2>2, RowWritten
  <2>4. DbTyped'
    BY <1>0, <1>5, <2>3, DbParts DEF PersistFails
  <2>5. UNCHANGED worker /\ faults < MaxFaults /\ faults' = faults + 1
    BY <1>5 DEF PersistFails
  <2>6. MoneyTyped' /\ EventsTyped' /\ sent \subseteq sent'
    <3>1. CASE session' = [session EXCEPT ![r] = "expired"] /\ Send({Notice("expired", r)})
      <4>1. "expired" \in SessionStatus /\ {Notice("expired", r)} \in SUBSET Event
        BY NoticeIsEvent DEF SessionStatus
      <4>2. UNCHANGED <<refunds, dispute>>
        BY <1>5 DEF PersistFails
      <4>3. MoneyTyped'
        BY <3>1, <4>1, <4>2, SessionMoves
      <4>4. EventsTyped' /\ sent \subseteq sent'
        BY <3>1, <4>1, SentTyped
      <4> QED BY <4>3, <4>4
    <3>2. CASE UNCHANGED <<session, hooks>>
      <4>1. UNCHANGED stripe /\ UNCHANGED hooks
        BY <3>2, <1>5 DEF PersistFails, stripe
      <4> QED BY <4>1, SameMoney, SameHooks
    <3> QED BY <1>5, <3>1, <3>2 DEF PersistFails
  <2> QED BY <2>4, <2>5, <2>6, SameHandlers, FaultsTyped
<1>6. CASE Pay(r)
  <2>1. UNCHANGED db /\ UNCHANGED worker /\ UNCHANGED faults /\ UNCHANGED <<refunds, dispute>>
    BY <1>6 DEF Pay
  <2>2. PICK s \in PayOutcomes : session' = [session EXCEPT ![r] = s]
    BY <1>6 DEF Pay
  <2>3. s \in SessionStatus /\ {Notice("completed", r)} \in SUBSET Event
    BY CheckoutAssumption, NoticeIsEvent DEF SessionStatus
  <2>4. MoneyTyped'
    BY <2>1, <2>2, <2>3, SessionMoves
  <2>5. EventsTyped' /\ sent \subseteq sent'
    BY <1>6, <2>3, SentTyped DEF Pay
  <2> QED BY <2>1, <2>4, <2>5, SameDb, SameHandlers
<1>7. ASSUME NEW w \in Workers, Nudge(w, r) PROVE TypeInv'
  <2>1. UNCHANGED db /\ UNCHANGED stripe /\ UNCHANGED hooks /\ UNCHANGED faults
    BY <1>7 DEF Nudge
  <2> DEFINE s == [Idle EXCEPT !.pc = "claim", !.ref = r]
  <2>2. s \in HandlerState /\ s.pc = "claim" /\ s.ref = r /\ s.ev = None
    <3>1. "claim" \in Steps /\ r \in Refs \cup {None}
      BY DEF Steps
    <3>2. s \in HandlerState
      BY <3>1, IdleIsSound DEF HandlerState
    <3> QED BY <3>2 DEF Idle
  <2>3. worker' = [worker EXCEPT ![w] = s]
    BY <1>7 DEF Nudge
  <2> HIDE DEF s
  <2>4. Sound(s, sent')
    BY <2>2 DEF Sound
  <2>5. sent \subseteq sent'
    BY <2>1, SameHooks
  <2>6. HandlersTyped'
    BY <2>2, <2>3, <2>4, <2>5, OneHandler
  <2> QED BY <2>1, <2>6, SameDb, SameMoney, SameHooks
<1> QED BY <1>1, <1>2, <1>3, <1>4, <1>5, <1>6, <1>7 DEF Buyer

(* Stripe, the bank, or time. *)
LEMMA ProviderTyped == ASSUME TypeInv, NEW r \in Refs, Provider(r) PROVE TypeInv'
<1> USE DEF TypeInv
<1>0. /\ row \in [Refs -> LedgerRow] /\ lapsed \in [Refs -> BOOLEAN]
      /\ stale \in [Refs -> BOOLEAN] /\ tickets \in [TicketIds -> TicketRow]
  BY DEF DbTyped
<1>1. CASE AsyncPayment(r)
  <2>1. UNCHANGED db /\ UNCHANGED worker /\ UNCHANGED faults /\ UNCHANGED <<refunds, dispute>>
    BY <1>1 DEF AsyncPayment
  <2>2. \E s \in {"paid", "failed"}, n \in {"async_succeeded", "expired"} :
          session' = [session EXCEPT ![r] = s] /\ Send({Notice(n, r)})
    BY <1>1 DEF AsyncPayment
  <2>3. PICK s \in {"paid", "failed"}, n \in {"async_succeeded", "expired"} :
          session' = [session EXCEPT ![r] = s] /\ Send({Notice(n, r)})
    BY <2>2
  <2>4. s \in SessionStatus /\ {Notice(n, r)} \in SUBSET Event
    BY NoticeIsEvent DEF SessionStatus
  <2>5. MoneyTyped'
    BY <2>1, <2>3, <2>4, SessionMoves
  <2>6. EventsTyped' /\ sent \subseteq sent'
    BY <2>3, <2>4, SentTyped
  <2> QED BY <2>1, <2>5, <2>6, SameDb, SameHandlers
<1>2. CASE Lapse(r)
  <2>1. lapsed' \in [Refs -> BOOLEAN] /\ UNCHANGED <<row, stale, tickets>>
    BY <1>2, <1>0 DEF Lapse
  <2>2. DbTyped'
    BY <2>1, <1>0, DbParts
  <2>3. UNCHANGED worker /\ UNCHANGED faults /\ UNCHANGED <<refunds, dispute>>
    BY <1>2 DEF Lapse
  <2>4. MoneyTyped' /\ EventsTyped' /\ sent \subseteq sent'
    <3>1. CASE session[r] = "open"
      <4>1. "expired" \in SessionStatus /\ {Notice("expired", r)} \in SUBSET Event
        BY NoticeIsEvent DEF SessionStatus
      <4>2. session' = [session EXCEPT ![r] = "expired"] /\ Send({Notice("expired", r)})
        BY <1>2, <3>1 DEF Lapse
      <4>3. MoneyTyped'
        BY <4>1, <4>2, <2>3, SessionMoves
      <4>4. EventsTyped' /\ sent \subseteq sent'
        BY <4>1, <4>2, SentTyped
      <4> QED BY <4>3, <4>4
    <3>2. CASE session[r] # "open"
      <4>1. UNCHANGED stripe /\ UNCHANGED hooks
        BY <3>2, <1>2 DEF Lapse, stripe
      <4> QED BY <4>1, SameMoney, SameHooks
    <3> QED BY <3>1, <3>2
  <2> QED BY <2>2, <2>3, <2>4, SameHandlers
<1>3. CASE GrowStale(r)
  <2>1. stale' \in [Refs -> BOOLEAN] /\ UNCHANGED <<row, lapsed, tickets>>
    BY <1>3, <1>0 DEF GrowStale
  <2>2. DbTyped'
    BY <2>1, <1>0, DbParts
  <2>3. UNCHANGED stripe /\ UNCHANGED hooks /\ UNCHANGED worker /\ UNCHANGED faults
    BY <1>3 DEF GrowStale
  <2> QED BY <2>2, <2>3, SameMoney, SameHooks, SameHandlers
<1>4. CASE DashboardRefund(r)
  <2>1. UNCHANGED db /\ UNCHANGED worker /\ UNCHANGED faults /\ UNCHANGED <<session, dispute>>
    BY <1>4 DEF DashboardRefund
  <2>2. PICK amt \in 1..Balance(r), s \in RefundStarts :
          /\ refunds' = [refunds EXCEPT ![r] =
               @ \cup {[key |-> Key("dashboard", AmountRefunded(r)), amt |-> amt, status |-> s]}]
          /\ Send({ChargeRefunded(r, AmountRefunded(r) + amt)})
    BY <1>4 DEF DashboardRefund
  <2> DEFINE f == [key |-> Key("dashboard", AmountRefunded(r)), amt |-> amt, status |-> s]
  <2>3. Key("dashboard", AmountRefunded(r)) \in RefundKey
    BY AmountsTyped DEF Key, RefundKey
  <2>4. amt \in 1..MaxQty /\ amt <= Balance(r) /\ AmountRefunded(r) + amt \in 0..MaxQty
    BY AmountsTyped
  <2>5. f \in Refund /\ f.amt <= Balance(r)
    BY <2>3, <2>4, CheckoutAssumption DEF Refund
  <2>6. refunds' = [refunds EXCEPT ![r] = @ \cup {f}]
    BY <2>2
  <2> HIDE DEF f
  <2>7. MoneyTyped'
    BY <2>1, <2>5, <2>6, RefundAdds
  <2>8. {ChargeRefunded(r, AmountRefunded(r) + amt)} \in SUBSET Event
    BY <2>4, ChargeIsEvent
  <2>9. EventsTyped' /\ sent \subseteq sent'
    BY <2>2, <2>8, SentTyped
  <2> QED BY <2>1, <2>7, <2>9, SameDb, SameHandlers
<1>5. CASE RefundSettles(r)
  <2>1. UNCHANGED db /\ UNCHANGED worker /\ UNCHANGED faults /\ UNCHANGED <<session, dispute>>
    BY <1>5 DEF RefundSettles
  <2>2. PICK f \in refunds[r], s \in {"succeeded", "failed"} :
          /\ f.status = "pending"
          /\ refunds' = [refunds EXCEPT ![r] = (@ \ {f}) \cup {[f EXCEPT !.status = s]}]
          /\ Send({RefundUpdated(r, f, s)})
    BY <1>5 DEF RefundSettles
  <2>3. MoneyTyped'
    BY <2>1, <2>2, SettlingAdds
  <2>4. f.key \in RefundKey
    BY DEF MoneyTyped, Refund
  <2>5. {RefundUpdated(r, f, s)} \in SUBSET Event
    BY <2>4 DEF RefundUpdated, Event
  <2>6. EventsTyped' /\ sent \subseteq sent'
    BY <2>2, <2>5, SentTyped
  <2> QED BY <2>1, <2>3, <2>6, SameDb, SameHandlers
<1>6. CASE OpenDispute(r) \/ WinDispute(r)
  <2>1. UNCHANGED db /\ UNCHANGED worker /\ UNCHANGED faults /\ UNCHANGED <<session, refunds>>
    BY <1>6 DEF OpenDispute, WinDispute
  <2>2. PICK s \in {"open", "won"}, n \in {"dispute.created", "dispute.won"} :
          dispute' = [dispute EXCEPT ![r] = s] /\ Send({Notice(n, r)})
    BY <1>6 DEF OpenDispute, WinDispute
  <2>3. dispute' \in [Refs -> {"none", "open", "won"}] /\ session' \in [Refs -> SessionStatus]
    BY <2>1, <2>2 DEF MoneyTyped
  <2>4. MoneyTyped'
    BY <2>1, <2>3, PaymentMoves
  <2>5. {Notice(n, r)} \in SUBSET Event
    BY NoticeIsEvent
  <2>6. EventsTyped' /\ sent \subseteq sent'
    BY <2>2, <2>5, SentTyped
  <2> QED BY <2>1, <2>4, <2>6, SameDb, SameHandlers
<1> QED BY <1>1, <1>2, <1>3, <1>4, <1>5, <1>6 DEF Provider

(* An event is delivered. *)
LEMMA DeliverTyped ==
  ASSUME TypeInv, NEW w \in Workers, NEW ev \in sent, Deliver(w, ev)
  PROVE  TypeInv'
<1> USE DEF TypeInv
<1>1. UNCHANGED db /\ UNCHANGED stripe
  BY DEF Deliver
<1>2. EventsTyped' /\ sent' = sent /\ faults' \in 0..MaxFaults
  <2>1. CASE ev \in due /\ UNCHANGED <<hooks, faults>>
    BY <2>1 DEF hooks, EventsTyped
  <2>2. CASE /\ ev \in sent \ due /\ faults < MaxFaults /\ faults' = faults + 1
             /\ due' = due \cup {ev} /\ UNCHANGED sent
    BY <2>2, FaultsTyped DEF EventsTyped
  <2> QED BY <2>1, <2>2 DEF Deliver, Arrives
<1>3. ev \in Event
  BY DEF EventsTyped
<1>4. /\ ev.ref \in Refs
      /\ ev.type \in {"completed", "async_succeeded", "expired", "charge.refunded",
                      "refund.updated", "dispute.created", "dispute.won"}
  BY <1>3 DEF Event
<1> DEFINE pc == FirstStep(ev.type)
           s == [Idle EXCEPT !.pc = pc, !.ref = ev.ref, !.ev = ev]
<1>5. /\ pc \in {"claim", "expire", "reconcile", "refundRow", "disputeRow", "restore"}
      /\ pc = "reconcile" => ev.type = "charge.refunded"
      /\ pc = "refundRow" => ev.type = "refund.updated"
  BY <1>4 DEF FirstStep
<1> HIDE DEF pc
<1>6. s \in HandlerState /\ s.pc = pc /\ s.ref = ev.ref /\ s.ev = ev
  <2>1. pc \in Steps /\ ev.ref \in Refs \cup {None} /\ ev \in Event \cup {None}
    BY <1>3, <1>4, <1>5 DEF Steps
  <2>2. s \in HandlerState
    BY <2>1, IdleIsSound DEF HandlerState
  <2> QED BY <2>2 DEF Idle
<1>7. worker' = [worker EXCEPT ![w] = s]
  BY DEF Deliver, pc
<1> HIDE DEF s
<1>8. Sound(s, sent')
  BY <1>2, <1>3, <1>4, <1>5, <1>6, NoneAssumption DEF Sound
<1>9. HandlersTyped'
  BY <1>2, <1>6, <1>7, <1>8, OneHandler
<1> QED BY <1>1, <1>2, <1>9, SameDb, SameMoney

(* Tickets are issued. *)
LEMMA InsertTyped ==
  ASSUME DbTyped, NEW ids, NEW ty \in Types, NEW who \in Persons, NEW ref \in Refs \cup {None},
         Insert(ids, ty, who, ref)
  PROVE  tickets' \in [TicketIds -> TicketRow]
<1>1. [status |-> "valid", type |-> ty, holder |-> who, ref |-> ref, refund |-> None] \in TicketRow
  BY DEF TicketRow, TicketStatus
<1> QED BY <1>1 DEF Insert, DbTyped

(* The refund recorded under a key, or a new one. *)
LEMMA StripeRefundTyped ==
  ASSUME TypeInv, NEW r \in Refs, NEW key \in RefundKey, NEW amt, NEW f \in Refund,
         StripeRefund(r, key, amt, f), UNCHANGED <<session, dispute>>
  PROVE  MoneyTyped' /\ EventsTyped' /\ sent \subseteq sent' /\ f.key = key
<1> USE DEF TypeInv
<1>1. CASE f \in refunds[r] /\ f.key = key /\ UNCHANGED <<refunds, hooks>>
  <2>1. UNCHANGED stripe /\ UNCHANGED hooks
    BY <1>1 DEF stripe
  <2> QED BY <1>1, <2>1, SameMoney, SameHooks
<1>2. CASE /\ Chargeable(r, key, amt)
           /\ f \in [key : {key}, amt : {amt}, status : RefundStarts]
           /\ refunds' = [refunds EXCEPT ![r] = @ \cup {f}]
           /\ Send({ChargeRefunded(r, AmountRefunded(r) + amt)})
  <2>1. amt \in 1..Balance(r) /\ f.amt = amt /\ f.key = key
    BY <1>2 DEF Chargeable
  <2>2. f.amt <= Balance(r) /\ AmountRefunded(r) + amt \in 0..MaxQty
    BY <2>1, AmountsTyped
  <2>3. MoneyTyped'
    BY <1>2, <2>2, RefundAdds
  <2>4. {ChargeRefunded(r, AmountRefunded(r) + amt)} \in SUBSET Event
    BY <2>2, ChargeIsEvent
  <2>5. EventsTyped' /\ sent \subseteq sent'
    BY <1>2, <2>4, SentTyped
  <2> QED BY <2>1, <2>3, <2>5
<1> QED BY <1>1, <1>2 DEF StripeRefund

(* fulfilCheckout keeps the types: its refund is within the balance. *)
LEMMA FulfilTyped == ASSUME TypeInv, NEW w \in Workers, Fulfil(w) PROVE TypeInv'
<1> USE DEF TypeInv
<1> DEFINE r == worker[w].ref
<1>0. /\ row \in [Refs -> LedgerRow] /\ lapsed \in [Refs -> BOOLEAN]
      /\ stale \in [Refs -> BOOLEAN] /\ tickets \in [TicketIds -> TicketRow]
  BY DEF DbTyped
<1>00. worker[w] \in HandlerState /\ Sound(worker[w], sent)
  BY DEF HandlersTyped
<1>01. worker[w].pc # "idle" /\ r \in Refs
  <2>1. worker[w].pc # "idle"
    BY DEF Fulfil, Claim, Retrieve, Recover, Issue, Release, RefundPayment, RefundPaymentRefused,
           Settle, Record, At
  <2> QED BY <2>1, <1>00 DEF Sound
<1>02. /\ {"claim", "retrieve", "recover", "issue", "record", "release"} \subseteq Steps
       /\ {"pending", "payment_pending", "payment_mismatch", "disputed", "refunded",
           "refund_pending", "fulfilling", "fulfilled"} \subseteq RowStatus
       /\ None \in RefundKey \cup {None} /\ TRUE \in BOOLEAN /\ FALSE \in BOOLEAN
  BY DEF Steps, RowStatus
<1>1. CASE Claim(w)
  <2>1. UNCHANGED stripe /\ UNCHANGED faults /\ UNCHANGED <<lapsed, tickets>>
    BY <1>1 DEF Claim
  <2>2. CASE Claimable(r)
    <3>1. /\ row' = [row EXCEPT ![r].status = "fulfilling"]
          /\ stale' = [stale EXCEPT ![r] = FALSE]
          /\ Goto(w, "retrieve") /\ UNCHANGED hooks
      BY <1>1, <2>2 DEF Claim
    <3>2. row' \in [Refs -> LedgerRow] /\ stale' \in [Refs -> BOOLEAN]
      BY <3>1, <1>0, <1>01, <1>02, RowWritten
    <3>3. DbTyped'
      BY <3>2, <2>1, <1>0, DbParts
    <3>4. EventsTyped' /\ sent \subseteq sent'
      BY <3>1, SameHooks
    <3>5. HandlersTyped'
      BY <3>1, <3>4, <1>01, <1>02, GotoTyped
    <3> QED BY <2>1, <3>3, <3>4, <3>5, SameMoney
  <2>3. CASE ~Claimable(r)
    <3>1. UNCHANGED <<row, stale>> /\ \E ok : Finish(w, ok)
      BY <1>1, <2>3 DEF Claim
    <3>2. UNCHANGED db
      BY <3>1, <2>1 DEF db
    <3>3. HandlersTyped' /\ EventsTyped'
      BY <3>1, FinishTyped
    <3> QED BY <2>1, <3>2, <3>3, SameDb, SameMoney
  <2> QED BY <2>2, <2>3
<1>2. CASE Retrieve(w)
  <2>1. UNCHANGED db /\ UNCHANGED stripe /\ UNCHANGED hooks /\ UNCHANGED faults
    BY <1>2 DEF Retrieve
  <2>2. sent \subseteq sent'
    BY <2>1, SameHooks
  <2>3. HandlersTyped'
    <3>1. CASE \E s \in {"pending", "payment_pending", "payment_mismatch", "disputed", "refunded"},
                  ok \in BOOLEAN : ToSettle(w, s, None, ok)
      <4>1. PICK s \in {"pending", "payment_pending", "payment_mismatch", "disputed", "refunded"},
                 ok \in BOOLEAN : ToSettle(w, s, None, ok)
        BY <3>1
      <4>2. s \in RowStatus
        BY <1>02
      <4> QED BY <4>1, <4>2, <1>01, <1>02, <2>2, ToSettleTyped
    <3>2. CASE Balance(r) # 0 /\ ToRefund(w, Key("pre-fulfil", Balance(r)), Balance(r))
      <4>1. Balance(r) \in 0..MaxQty
        BY <1>01, AmountsTyped
      <4>2. Key("pre-fulfil", Balance(r)) \in RefundKey
            /\ Key("pre-fulfil", Balance(r)).kind = "pre-fulfil"
        BY <4>1 DEF Key, RefundKey
      <4> QED BY <4>1, <4>2, <3>2, <1>01, <2>2, ToRefundTyped
    <3>3. CASE Goto(w, "recover")
      BY <3>3, <1>01, <1>02, <2>2, GotoTyped
    <3> QED BY <1>2, <3>1, <3>2, <3>3 DEF Retrieve
  <2> QED BY <2>1, <2>3, SameDb, SameMoney, SameHooks
<1>3. CASE Recover(w)
  <2>1. UNCHANGED db /\ UNCHANGED stripe /\ UNCHANGED hooks /\ UNCHANGED faults
    BY <1>3 DEF Recover
  <2>2. sent \subseteq sent'
    BY <2>1, SameHooks
  <2>3. PICK pc \in {"record", "issue"} : Goto(w, pc)
    BY <1>3 DEF Recover
  <2>4. HandlersTyped'
    BY <2>2, <2>3, <1>01, <1>02, GotoTyped
  <2> QED BY <2>1, <2>4, SameDb, SameMoney, SameHooks
<1>4. CASE Issue(w)
  <2>1. UNCHANGED stripe /\ UNCHANGED hooks /\ UNCHANGED faults /\ UNCHANGED <<row, lapsed, stale>>
    BY <1>4 DEF Issue
  <2>2. sent \subseteq sent'
    BY <2>1, SameHooks
  <2>3. HandlersTyped' /\ tickets' \in [TicketIds -> TicketRow]
    <3>1. CASE Available(TypeOf[r], BuyerOf[r], QtyOf[r], r)
      <4>1. Goto(w, "record") /\ \E ids \in SUBSET Unused : Insert(ids, TypeOf[r], BuyerOf[r], r)
        BY <1>4, <3>1 DEF Issue
      <4>2. TypeOf[r] \in Types /\ BuyerOf[r] \in Persons /\ r \in Refs \cup {None}
        BY <1>01, CapacityAssumption
      <4>3. tickets' \in [TicketIds -> TicketRow]
        BY <4>1, <4>2, InsertTyped
      <4> QED BY <4>1, <4>3, <1>01, <1>02, <2>2, GotoTyped
    <3>2. CASE ~Available(TypeOf[r], BuyerOf[r], QtyOf[r], r)
      <4>1. ToRefund(w, Key("oversold", 0), 0) /\ UNCHANGED tickets
        BY <1>4, <3>2 DEF Issue
      <4>2. /\ Key("oversold", 0) \in RefundKey /\ Key("oversold", 0).kind = "oversold"
            /\ 0 \in 0..MaxQty
        BY CapacityAssumption DEF Key, RefundKey
      <4> QED BY <4>1, <4>2, <1>0, <1>01, <2>2, ToRefundTyped
    <3> QED BY <3>1, <3>2
  <2>4. DbTyped'
    BY <2>1, <2>3, <1>0, DbParts
  <2> QED BY <2>1, <2>3, <2>4, SameMoney, SameHooks
<1>5. CASE Release(w)
  <2>1. UNCHANGED stripe /\ UNCHANGED faults /\ UNCHANGED <<lapsed, stale, tickets>>
    BY <1>5 DEF Release
  <2>2. row' = row \/ row' = [row EXCEPT ![r].status = "payment_pending"]
    BY <1>5 DEF Release
  <2>3. row' \in [Refs -> LedgerRow]
    BY <2>2, <1>0, <1>01, <1>02, RowWritten
  <2>4. HandlersTyped' /\ EventsTyped'
    BY <1>5, FinishTyped DEF Release
  <2> QED BY <2>1, <2>3, <2>4, <1>0, DbParts, SameMoney
<1>6. CASE RefundPayment(w)
  <2>1. UNCHANGED db /\ UNCHANGED <<session, dispute>> /\ UNCHANGED faults
    BY <1>6 DEF RefundPayment
  <2>2. PICK f \in Refund :
          /\ StripeRefund(r, worker[w].key, RefundAmount(w), f)
          /\ ToSettle(w, CASE f.status = "succeeded" -> "refunded"
                           [] f.status = "pending" -> "refund_pending"
                           [] f.status = "failed" -> "payment_pending",
                      f.key, f.status # "failed")
    BY <1>6 DEF RefundPayment
  <2> DEFINE s == CASE f.status = "succeeded" -> "refunded"
                    [] f.status = "pending" -> "refund_pending"
                    [] f.status = "failed" -> "payment_pending"
             ok == f.status # "failed"
  <2>3. s \in RowStatus
    BY <1>02 DEF Refund
  <2>4. ok \in BOOLEAN /\ f.key \in RefundKey \cup {None}
    BY DEF Refund
  <2>5. ToSettle(w, s, f.key, ok)
    BY <2>2
  <2> HIDE DEF s, ok
  <2>6. worker[w].key \in RefundKey
    BY <1>00, <1>6 DEF Sound, RefundPayment, At
  <2>7. MoneyTyped' /\ EventsTyped' /\ sent \subseteq sent'
    BY <2>1, <2>2, <2>6, <1>01, StripeRefundTyped
  <2>8. HandlersTyped'
    BY <2>3, <2>4, <2>5, <2>7, <1>01, ToSettleTyped
  <2> QED BY <2>1, <2>7, <2>8, SameDb
<1>7. CASE RefundPaymentRefused(w)
  <2>1. UNCHANGED db /\ UNCHANGED stripe /\ UNCHANGED hooks /\ UNCHANGED faults
        /\ ToSettle(w, "payment_pending", None, FALSE)
    BY <1>7 DEF RefundPaymentRefused
  <2>2. sent \subseteq sent'
    BY <2>1, SameHooks
  <2>3. HandlersTyped'
    BY <2>1, <2>2, <1>01, <1>02, ToSettleTyped
  <2> QED BY <2>1, <2>3, SameDb, SameMoney, SameHooks
<1>8. CASE Settle(w)
  <2>1. UNCHANGED stripe /\ UNCHANGED faults /\ UNCHANGED <<lapsed, stale, tickets>>
    BY <1>8 DEF Settle
  <2>2. row' \in [Refs -> LedgerRow]
    <3>1. worker[w].to \in RowStatus /\ worker[w].key \in RefundKey \cup {None}
      BY <1>00 DEF HandlerState
    <3> DEFINE k == IF worker[w].key # None /\ worker[w].ok THEN worker[w].key ELSE row[r].refund
    <3>2. k \in RefundKey \cup {None}
      BY <3>1, <1>0, <1>01 DEF LedgerRow
    <3>3. row' = [row EXCEPT ![r] = [@ EXCEPT !.status = worker[w].to, !.refund = k]]
      BY <1>8, <1>0, <1>01 DEF Settle
    <3> HIDE DEF k
    <3> QED BY <3>1, <3>2, <3>3, <1>0, <1>01 DEF LedgerRow
  <2>3. HandlersTyped' /\ EventsTyped'
    BY <1>8, FinishTyped DEF Settle
  <2> QED BY <2>1, <2>2, <2>3, <1>0, DbParts, SameMoney
<1>9. CASE Record(w)
  <2>1. UNCHANGED stripe /\ UNCHANGED faults /\ UNCHANGED <<lapsed, stale, tickets>>
        /\ row' = [row EXCEPT ![r].status = "fulfilled"]
    BY <1>9 DEF Record
  <2>2. row' \in [Refs -> LedgerRow]
    BY <2>1, <1>0, <1>01, <1>02, RowWritten
  <2>3. HandlersTyped' /\ EventsTyped'
    BY <1>9, FinishTyped DEF Record
  <2> QED BY <2>1, <2>2, <2>3, <1>0, DbParts, SameMoney
<1> QED BY <1>1, <1>2, <1>3, <1>4, <1>5, <1>6, <1>7, <1>8, <1>9 DEF Fulfil

(* The cancellation has only its write to do. *)
LEMMA CancelWriteNext ==
  ASSUME HandlersTyped, NEW w \in Workers, NEW to \in RowStatus,
         worker' = [worker EXCEPT ![w].pc = "cancelWrite", ![w].to = to], sent \subseteq sent',
         worker[w].pc # "idle"
  PROVE  HandlersTyped'
<1> DEFINE s == [worker[w] EXCEPT !.pc = "cancelWrite", !.to = to]
<1>1. worker[w] \in HandlerState /\ Sound(worker[w], sent)
  BY DEF HandlersTyped
<1>2. s \in HandlerState /\ s.pc = "cancelWrite" /\ s.ref = worker[w].ref /\ s.ev = worker[w].ev
  BY <1>1 DEF HandlerState, Steps
<1>3. worker' = [worker EXCEPT ![w] = s]
  BY DEF HandlersTyped
<1> HIDE DEF s
<1>4. Sound(s, sent')
  BY <1>1, <1>2 DEF Sound
<1> QED BY <1>2, <1>3, <1>4, OneHandler

(* A ticket changes its status and names the refund. *)
LEMMA TicketMarked ==
  ASSUME NEW t \in TicketRow, NEW s \in TicketStatus, NEW key \in RefundKey \cup {None}
  PROVE  [t EXCEPT !.status = s] \in TicketRow /\ [t EXCEPT !.status = s, !.refund = key] \in TicketRow
  BY DEF TicketRow

(* The tickets a returned amount covers are marked. *)
LEMMA ReconcileTyped ==
  ASSUME DbTyped, NEW r, NEW amt, ReconcileTickets(r, amt)
  PROVE  tickets' \in [TicketIds -> TicketRow]
<1>1. PICK key \in RefundKey : tickets' = [t \in TicketIds |->
         IF t \in Covered(r, amt) /\ tickets[t].status # "refunded"
           THEN [tickets[t] EXCEPT !.status = "refunded", !.refund = key]
           ELSE tickets[t]]
  BY DEF ReconcileTickets
<1>2. "refunded" \in TicketStatus /\ key \in RefundKey \cup {None}
  BY DEF TicketStatus
<1>3. \A t \in TicketIds : /\ tickets[t] \in TicketRow
                           /\ [tickets[t] EXCEPT !.status = "refunded", !.refund = key] \in TicketRow
  BY <1>2, TicketMarked DEF DbTyped
<1> QED BY <1>1, <1>3

(* The total a reconciliation applies is a number. *)
LEMMA TotalTyped ==
  ASSUME MoneyTyped, NEW r \in Refs, NEW amt \in 0..MaxQty
  PROVE  RefundTotal(r, amt) \in Nat
<1>1. SucceededRefunds(r) \in SUBSET refunds[r] /\ IsFiniteSet(refunds[r])
  BY AmountsTyped DEF SucceededRefunds
<1>2. Cardinality(Units(SucceededRefunds(r))) \in Nat
  BY <1>1, FS_Subset, UnitsFinite
<1> QED BY <1>2, CapacityAssumption DEF RefundTotal, Larger

(* The handlers of returned money, and the expiry of a checkout. *)
LEMMA CancelTyped == ASSUME TypeInv, NEW w \in Workers, Cancel(w) PROVE TypeInv'
<1> USE DEF TypeInv
<1> DEFINE r == worker[w].ref
<1>0. /\ row \in [Refs -> LedgerRow] /\ lapsed \in [Refs -> BOOLEAN]
      /\ stale \in [Refs -> BOOLEAN] /\ tickets \in [TicketIds -> TicketRow]
  BY DEF DbTyped
<1>00. worker[w] \in HandlerState /\ Sound(worker[w], sent)
  BY DEF HandlersTyped
<1>01. worker[w].pc # "idle" /\ r \in Refs
  <2>1. worker[w].pc # "idle"
    BY DEF Cancel, ExpireCheckout, Reconcile, CancelFind, CancelRefund, CancelRefundRefused,
           CancelWrite, RefundRow, RefundTickets, At
  <2> QED BY <2>1, <1>00 DEF Sound
<1>02. /\ {"cancelFind", "cancelRefund", "cancelWrite", "refundTickets"} \subseteq Steps
       /\ {"expired", "refunded", "refund_pending", "refund_failed"} \subseteq RowStatus
       /\ worker[w].to \in RowStatus /\ worker[w].key \in RefundKey \cup {None}
       /\ worker[w].amt \in 0..MaxQty
  BY <1>00 DEF Steps, RowStatus, HandlerState
<1>1. CASE ExpireCheckout(w)
  <2>1. UNCHANGED stripe /\ UNCHANGED faults /\ UNCHANGED <<lapsed, stale, tickets>>
    BY <1>1 DEF ExpireCheckout
  <2>2. row' = row \/ row' = [row EXCEPT ![r].status = "expired"]
    BY <1>1 DEF ExpireCheckout
  <2>3. row' \in [Refs -> LedgerRow]
    BY <2>2, <1>0, <1>01, <1>02, RowWritten
  <2>4. HandlersTyped' /\ EventsTyped'
    BY <1>1, FinishTyped DEF ExpireCheckout
  <2> QED BY <2>1, <2>3, <2>4, <1>0, DbParts, SameMoney
<1>2. CASE Reconcile(w)
  <2> DEFINE total == RefundTotal(r, worker[w].ev.amt)
             left == Larger(QtyOf[r], total) - total
             s == [worker[w] EXCEPT !.pc = "cancelFind", !.amt = left]
  <2>1. UNCHANGED stripe /\ UNCHANGED hooks /\ UNCHANGED faults /\ UNCHANGED <<row, lapsed, stale>>
        /\ ReconcileTickets(r, total)
    BY <1>2 DEF Reconcile
  <2>2. DbTyped'
    BY <2>1, <1>0, ReconcileTyped, DbParts
  <2>3. worker[w].ev.amt \in 0..MaxQty
    <3>1. worker[w].ev \in Event /\ worker[w].ev.type = "charge.refunded"
      BY <1>00, <1>2 DEF Sound, Reconcile, At, EventsTyped
    <3> QED BY <3>1 DEF Event
  <2>4. total \in Nat
    BY <2>3, <1>01, TotalTyped
  <2> HIDE DEF total
  <2>5. left \in 0..MaxQty
    BY <2>4, <1>01, CapacityAssumption DEF Larger
  <2>6. worker' = [worker EXCEPT ![w] = s]
    BY <1>2 DEF Reconcile, HandlersTyped, total
  <2> HIDE DEF left
  <2>7. s \in HandlerState /\ s.pc = "cancelFind" /\ s.ref = r /\ s.ev = worker[w].ev
    BY <1>00, <1>02, <2>5 DEF HandlerState
  <2> HIDE DEF s
  <2>8. sent \subseteq sent'
    BY <2>1, SameHooks
  <2>9. Sound(s, sent')
    BY <2>7, <2>8, <1>00, <1>01 DEF Sound
  <2>10. HandlersTyped'
    BY <2>6, <2>7, <2>8, <2>9, OneHandler
  <2> QED BY <2>1, <2>2, <2>10, SameMoney, SameHooks
<1>3. CASE CancelFind(w)
  <2>1. UNCHANGED db /\ UNCHANGED stripe /\ UNCHANGED faults
    BY <1>3 DEF CancelFind
  <2>2. CASE Finish(w, TRUE)
    BY <2>1, <2>2, FinishTyped, SameDb, SameMoney
  <2>3. CASE /\ worker' = [worker EXCEPT ![w].pc = "cancelRefund",
                                         ![w].key = Key("pre-fulfil", worker[w].amt)]
             /\ UNCHANGED hooks
    <3> DEFINE key == Key("pre-fulfil", worker[w].amt)
               s == [worker[w] EXCEPT !.pc = "cancelRefund", !.key = key]
    <3>1. key \in RefundKey /\ key.kind = "pre-fulfil"
      BY <1>02 DEF Key, RefundKey
    <3>2. worker' = [worker EXCEPT ![w] = s]
      BY <2>3 DEF HandlersTyped
    <3> HIDE DEF key
    <3>3. s \in HandlerState /\ s.pc = "cancelRefund" /\ s.ref = r /\ s.ev = worker[w].ev
          /\ s.key = key
      BY <1>00, <1>02, <3>1 DEF HandlerState
    <3> HIDE DEF s
    <3>4. sent \subseteq sent'
      BY <2>3, SameHooks
    <3>5. Sound(s, sent')
      BY <3>1, <3>3, <3>4, <1>00, <1>01 DEF Sound
    <3>6. HandlersTyped'
      BY <3>2, <3>3, <3>4, <3>5, OneHandler
    <3> QED BY <2>1, <2>3, <3>6, SameDb, SameMoney, SameHooks
  <2>4. CASE /\ worker' = [worker EXCEPT ![w].pc = "cancelWrite", ![w].to = "refunded"]
             /\ UNCHANGED hooks
    <3>1. sent \subseteq sent'
      BY <2>4, SameHooks
    <3>2. HandlersTyped'
      BY <2>4, <3>1, <1>01, <1>02, CancelWriteNext
    <3> QED BY <2>1, <2>4, <3>2, SameDb, SameMoney, SameHooks
  <2> QED BY <1>3, <2>2, <2>3, <2>4 DEF CancelFind
<1>4. CASE CancelRefund(w)
  <2>1. UNCHANGED db /\ UNCHANGED <<session, dispute>> /\ UNCHANGED faults
    BY <1>4 DEF CancelRefund
  <2>2. PICK f \in Refund :
          /\ StripeRefund(r, worker[w].key, worker[w].amt, f)
          /\ worker' = [worker EXCEPT ![w].pc = "cancelWrite",
               ![w].to = IF f.status = "succeeded" THEN "refunded" ELSE "refund_pending"]
    BY <1>4 DEF CancelRefund
  <2> DEFINE to == IF f.status = "succeeded" THEN "refunded" ELSE "refund_pending"
  <2>3. to \in RowStatus
    BY <1>02
  <2>4. worker' = [worker EXCEPT ![w].pc = "cancelWrite", ![w].to = to]
    BY <2>2
  <2> HIDE DEF to
  <2>5. worker[w].key \in RefundKey
    BY <1>00, <1>4 DEF Sound, CancelRefund, At
  <2>6. MoneyTyped' /\ EventsTyped' /\ sent \subseteq sent'
    BY <2>1, <2>2, <2>5, <1>01, StripeRefundTyped
  <2>7. HandlersTyped'
    BY <2>3, <2>4, <2>6, <1>01, CancelWriteNext
  <2> QED BY <2>1, <2>6, <2>7, SameDb
<1>5. CASE CancelRefundRefused(w)
  <2>1. UNCHANGED db /\ UNCHANGED stripe /\ UNCHANGED faults /\ Finish(w, FALSE)
    BY <1>5 DEF CancelRefundRefused
  <2> QED BY <2>1, FinishTyped, SameDb, SameMoney
<1>6. CASE CancelWrite(w)
  <2>1. UNCHANGED stripe /\ UNCHANGED faults /\ UNCHANGED <<lapsed, stale, tickets>>
    BY <1>6 DEF CancelWrite
  <2>2. row' \in [Refs -> LedgerRow]
    <3>1. CASE row[r].status = "fulfilled"
      BY <1>6, <3>1, <1>0 DEF CancelWrite
    <3>2. CASE row[r].status # "fulfilled"
      <4> DEFINE k == IF worker[w].key # None THEN worker[w].key ELSE row[r].refund
      <4>1. k \in RefundKey \cup {None}
        BY <1>0, <1>01, <1>02 DEF LedgerRow
      <4>2. row' = [row EXCEPT ![r] = [@ EXCEPT !.status = worker[w].to, !.refund = k]]
        BY <1>6, <3>2, <1>0, <1>01 DEF CancelWrite
      <4> HIDE DEF k
      <4> QED BY <4>1, <4>2, <1>0, <1>01, <1>02 DEF LedgerRow
    <3> QED BY <3>1, <3>2
  <2>3. HandlersTyped' /\ EventsTyped'
    BY <1>6, FinishTyped DEF CancelWrite
  <2> QED BY <2>1, <2>2, <2>3, <1>0, DbParts, SameMoney
<1>7. CASE RefundRow(w)
  <2>1. UNCHANGED stripe /\ UNCHANGED hooks /\ UNCHANGED faults /\ UNCHANGED <<lapsed, stale, tickets>>
        /\ Goto(w, "refundTickets") /\ worker[w].pc = "refundRow"
    BY <1>7 DEF RefundRow, At
  <2>2. row' \in [Refs -> LedgerRow]
    <3> DEFINE st == IF worker[w].ev.status = "succeeded" THEN "refunded" ELSE "refund_failed"
    <3>1. row' = row \/ row' = [row EXCEPT ![r].status = st]
      BY <1>7 DEF RefundRow
    <3>2. st \in RowStatus
      BY <1>02
    <3> HIDE DEF st
    <3> QED BY <3>1, <3>2, <1>0, <1>01, RowWritten
  <2>3. sent \subseteq sent'
    BY <2>1, SameHooks
  <2>4. HandlersTyped'
    BY <2>1, <2>3, <1>01, <1>02, GotoTyped
  <2> QED BY <2>1, <2>2, <2>4, <1>0, DbParts, SameMoney, SameHooks
<1>8. CASE RefundTickets(w)
  <2>1. UNCHANGED stripe /\ UNCHANGED faults /\ UNCHANGED <<row, lapsed, stale>>
    BY <1>8 DEF RefundTickets
  <2>2. tickets' \in [TicketIds -> TicketRow]
    <3>1. CASE ReconcileTickets(r, RefundTotal(r, 0))
      BY <3>1, ReconcileTyped
    <3>2. CASE tickets' = [t \in TicketIds |->
                 IF /\ t \in OrderTickets(r) /\ tickets[t].refund = worker[w].ev.key
                    /\ tickets[t].status = "refunded"
                   THEN [tickets[t] EXCEPT !.status = "void"] ELSE tickets[t]]
      <4>1. "void" \in TicketStatus /\ None \in RefundKey \cup {None}
        BY DEF TicketStatus
      <4>2. \A t \in TicketIds : [tickets[t] EXCEPT !.status = "void"] \in TicketRow
        BY <4>1, <1>0, TicketMarked
      <4> QED BY <3>2, <4>2, <1>0
    <3> QED BY <1>8, <3>1, <3>2 DEF RefundTickets
  <2>3. HandlersTyped' /\ EventsTyped'
    BY <1>8, FinishTyped DEF RefundTickets
  <2> QED BY <2>1, <2>2, <2>3, <1>0, DbParts, SameMoney
<1> QED BY <1>1, <1>2, <1>3, <1>4, <1>5, <1>6, <1>7, <1>8 DEF Cancel

(* The handlers of disputes. *)
LEMMA ChargebackTyped == ASSUME TypeInv, NEW w \in Workers, Chargeback(w) PROVE TypeInv'
<1> USE DEF TypeInv
<1> DEFINE r == worker[w].ref
<1>0. /\ row \in [Refs -> LedgerRow] /\ lapsed \in [Refs -> BOOLEAN]
      /\ stale \in [Refs -> BOOLEAN] /\ tickets \in [TicketIds -> TicketRow]
  BY DEF DbTyped
<1>01. worker[w].pc # "idle" /\ r \in Refs
  <2>1. worker[w].pc # "idle"
    BY DEF Chargeback, DisputeRow, DisputeTickets, RestoreTickets, Reopen, At
  <2> QED BY <2>1 DEF HandlersTyped, Sound
<1>02. /\ {"claim", "disputeTickets", "reopen"} \subseteq Steps
       /\ {"void", "valid"} \subseteq TicketStatus
       /\ DisputeRef \in RefundKey \cup {None} /\ None \in RefundKey \cup {None}
       /\ [status |-> "disputed", refund |-> DisputeRef] \in LedgerRow
       /\ [status |-> "pending", refund |-> None] \in LedgerRow
  <2>1. DisputeRef \in RefundKey
    BY CapacityAssumption DEF DisputeRef, Key, RefundKey
  <2> QED BY <2>1 DEF Steps, TicketStatus, LedgerRow, RowStatus
<1>1. CASE DisputeRow(w)
  <2>1. UNCHANGED stripe /\ UNCHANGED hooks /\ UNCHANGED faults /\ UNCHANGED <<lapsed, stale, tickets>>
        /\ Goto(w, "disputeTickets")
    BY <1>1 DEF DisputeRow
  <2>2. row' = row \/ row' = [row EXCEPT ![r] = [status |-> "disputed", refund |-> DisputeRef]]
    BY <1>1 DEF DisputeRow
  <2>3. row' \in [Refs -> LedgerRow]
    BY <2>2, <1>0, <1>02
  <2>4. sent \subseteq sent'
    BY <2>1, SameHooks
  <2>5. HandlersTyped'
    BY <2>1, <2>4, <1>01, <1>02, GotoTyped
  <2> QED BY <2>1, <2>3, <2>5, <1>0, DbParts, SameMoney, SameHooks
<1>2. CASE DisputeTickets(w)
  <2>1. UNCHANGED stripe /\ UNCHANGED faults /\ UNCHANGED <<row, lapsed, stale>>
    BY <1>2 DEF DisputeTickets
  <2>2. \A t \in TicketIds :
          [tickets[t] EXCEPT !.status = "void", !.refund = DisputeRef] \in TicketRow
    BY <1>0, <1>02, TicketMarked
  <2>3. tickets' \in [TicketIds -> TicketRow]
    BY <1>2, <2>2, <1>0 DEF DisputeTickets
  <2>4. HandlersTyped' /\ EventsTyped'
    BY <1>2, FinishTyped DEF DisputeTickets
  <2> QED BY <2>1, <2>3, <2>4, <1>0, DbParts, SameMoney
<1>3. CASE RestoreTickets(w)
  <2>1. UNCHANGED stripe /\ UNCHANGED hooks /\ UNCHANGED faults /\ UNCHANGED <<row, lapsed, stale>>
        /\ Goto(w, "reopen")
    BY <1>3 DEF RestoreTickets
  <2>2. \A t \in TicketIds : [tickets[t] EXCEPT !.status = "valid", !.refund = None] \in TicketRow
    BY <1>0, <1>02, TicketMarked
  <2>3. tickets' \in [TicketIds -> TicketRow]
    BY <1>3, <2>2, <1>0 DEF RestoreTickets
  <2>4. sent \subseteq sent'
    BY <2>1, SameHooks
  <2>5. HandlersTyped'
    BY <2>1, <2>4, <1>01, <1>02, GotoTyped
  <2> QED BY <2>1, <2>3, <2>5, <1>0, DbParts, SameMoney, SameHooks
<1>4. CASE Reopen(w)
  <2>1. UNCHANGED stripe /\ UNCHANGED faults /\ UNCHANGED <<lapsed, stale, tickets>>
    BY <1>4 DEF Reopen
  <2>2. CASE /\ row' = [row EXCEPT ![r] = [status |-> "pending", refund |-> None]]
             /\ Goto(w, "claim") /\ UNCHANGED hooks
    <3>1. row' \in [Refs -> LedgerRow]
      BY <2>2, <1>0, <1>02
    <3>2. sent \subseteq sent'
      BY <2>2, SameHooks
    <3>3. HandlersTyped'
      BY <2>2, <3>2, <1>01, <1>02, GotoTyped
    <3> QED BY <2>1, <2>2, <3>1, <3>3, <1>0, DbParts, SameMoney, SameHooks
  <2>3. CASE Finish(w, TRUE) /\ UNCHANGED row
    <3>1. UNCHANGED db
      BY <2>1, <2>3 DEF db
    <3> QED BY <2>1, <2>3, <3>1, FinishTyped, SameDb, SameMoney
  <2> QED BY <1>4, <2>2, <2>3 DEF Reopen
<1> QED BY <1>1, <1>2, <1>3, <1>4 DEF Chargeback

(* A handler stops, or a call of it fails. *)
LEMMA FaultTyped == ASSUME TypeInv, NEW w \in Workers, Fault(w) PROVE TypeInv'
<1> USE DEF TypeInv
<1>01. worker[w].pc # "idle"
  BY DEF Fault, Crash, RetrieveFails, IssueThrows, RefundFails, At
<1>02. /\ "release" \in Steps /\ {"pending", "payment_pending"} \subseteq RowStatus
       /\ None \in RefundKey \cup {None} /\ FALSE \in BOOLEAN
  BY DEF Steps, RowStatus
<1>03. UNCHANGED db /\ UNCHANGED stripe /\ faults < MaxFaults /\ faults' = faults + 1
  BY DEF Fault, Crash, RetrieveFails, IssueThrows, RefundFails
<1>1. HandlersTyped' /\ EventsTyped'
  <2>1. CASE Crash(w)
    <3>1. UNCHANGED hooks /\ worker' = [worker EXCEPT ![w] = Idle]
      BY <2>1 DEF Crash
    <3>2. EventsTyped' /\ sent \subseteq sent'
      BY <3>1, SameHooks
    <3> QED BY <3>1, <3>2, IdleIsSound, OneHandler
  <2>2. CASE UNCHANGED hooks /\ \E s \in {"pending", "payment_pending"} : ToSettle(w, s, None, FALSE)
    <3>1. EventsTyped' /\ sent \subseteq sent'
      BY <2>2, SameHooks
    <3>2. PICK s \in {"pending", "payment_pending"} : ToSettle(w, s, None, FALSE)
      BY <2>2
    <3>3. s \in RowStatus
      BY <1>02
    <3> QED BY <3>1, <3>2, <3>3, <1>01, <1>02, ToSettleTyped
  <2>3. CASE UNCHANGED hooks /\ Goto(w, "release")
    <3>1. EventsTyped' /\ sent \subseteq sent'
      BY <2>3, SameHooks
    <3> QED BY <2>3, <3>1, <1>01, <1>02, GotoTyped
  <2>4. CASE Finish(w, FALSE)
    BY <2>4, FinishTyped
  <2> QED BY <2>1, <2>2, <2>3, <2>4 DEF Fault, RetrieveFails, IssueThrows, RefundFails
<1> QED BY <1>03, <1>1, SameDb, SameMoney, FaultsTyped

(* A ticket is given away, or voided by staff. *)
LEMMA StaffTyped == ASSUME TypeInv, Staff PROVE TypeInv'
<1> USE DEF TypeInv
<1>0. /\ row \in [Refs -> LedgerRow] /\ lapsed \in [Refs -> BOOLEAN]
      /\ stale \in [Refs -> BOOLEAN] /\ tickets \in [TicketIds -> TicketRow]
  BY DEF DbTyped
<1>1. /\ UNCHANGED stripe /\ UNCHANGED hooks /\ UNCHANGED worker /\ UNCHANGED faults
      /\ UNCHANGED <<row, lapsed, stale>>
  BY DEF Staff, IssueDirect, VoidTicket
<1>2. tickets' \in [TicketIds -> TicketRow]
  <2>1. ASSUME NEW ty \in Types, NEW who \in Guests, IssueDirect(ty, who)
        PROVE  tickets' \in [TicketIds -> TicketRow]
    <3>1. who \in Persons /\ None \in Refs \cup {None}
      BY CheckoutAssumption
    <3> QED BY <2>1, <3>1, InsertTyped DEF IssueDirect
  <2>2. ASSUME NEW t \in TicketIds, VoidTicket(t)
        PROVE  tickets' \in [TicketIds -> TicketRow]
    <3>1. "void" \in TicketStatus /\ None \in RefundKey \cup {None}
      BY DEF TicketStatus
    <3>2. [tickets[t] EXCEPT !.status = "void"] \in TicketRow
      BY <3>1, <1>0, TicketMarked
    <3> QED BY <2>2, <3>2, <1>0 DEF VoidTicket
  <2> QED BY <2>1, <2>2 DEF Staff
<1> QED BY <1>0, <1>1, <1>2, DbParts, SameMoney, SameHooks, SameHandlers

(* Before the first request nothing exists. *)
LEMMA TypeInvInit == Init => TypeInv
<1> SUFFICES ASSUME Init PROVE TypeInv
  OBVIOUS
<1> USE DEF Init
<1>1. DbTyped
  BY DEF DbTyped, LedgerRow, RowStatus, TicketRow, TicketStatus, NoTicket
<1>2. MoneyTyped
  <2>1. ASSUME NEW r \in Refs PROVE IsFiniteSet(refunds[r]) /\ AmountRefunded(r) <= QtyOf[r]
    <3>1. refunds[r] = {} /\ Units(Live(r)) = {}
      BY DEF Live, Units
    <3>2. AmountRefunded(r) = 0
      BY <3>1, FS_EmptySet DEF AmountRefunded
    <3> QED BY <3>1, <3>2, FS_EmptySet, CapacityAssumption
  <2> QED BY <2>1 DEF MoneyTyped, SessionStatus
<1>3. EventsTyped
  BY DEF EventsTyped
<1>4. HandlersTyped
  BY IdleIsSound DEF HandlersTyped
<1> QED BY <1>1, <1>2, <1>3, <1>4, CheckoutAssumption DEF TypeInv

(* Every step of the system keeps the types. *)
LEMMA TypeInvNext == TypeInv /\ [Next]_vars => TypeInv'
<1> SUFFICES ASSUME TypeInv, [Next]_vars PROVE TypeInv'
  OBVIOUS
<1>1. CASE \E r \in Refs : Buyer(r) \/ Provider(r)
  BY <1>1, BuyerTyped, ProviderTyped
<1>2. CASE \E ev \in sent, w \in Workers : Deliver(w, ev)
  BY <1>2, DeliverTyped
<1>3. CASE \E w \in Workers : Handler(w) \/ Fault(w)
  BY <1>3, FulfilTyped, CancelTyped, ChargebackTyped, FaultTyped DEF Handler
<1>4. CASE Staff
  BY <1>4, StaffTyped
<1>5. CASE UNCHANGED vars
  <2>1. UNCHANGED db /\ UNCHANGED stripe /\ UNCHANGED hooks /\ UNCHANGED worker /\ UNCHANGED faults
    BY <1>5 DEF vars, db, stripe, hooks
  <2> QED BY <2>1, SameDb, SameMoney, SameHooks, SameHandlers DEF TypeInv
<1> QED BY <1>1, <1>2, <1>3, <1>4, <1>5 DEF Next

(* No payment returns more than it brought in, and every handler is at a   *)
(* step its event leads to.                                                *)
THEOREM TypeInvariant == Spec => []TypeInv
<1>1. Init => TypeInv
  BY TypeInvInit
<1>2. TypeInv /\ [Next]_vars => TypeInv'
  BY TypeInvNext
<1> QED BY <1>1, <1>2, PTL DEF Spec

(* Every row, session, event and handler keeps to the values the code      *)
(* knows.                                                                  *)
THEOREM CheckoutIsTyped == Spec => []TypeOK
<1>1. TypeInv => TypeOK
  BY DEF TypeInv, TypeOK, DbTyped, MoneyTyped, EventsTyped, HandlersTyped, LedgerRow, TicketRow,
         HandlerState
<1> QED BY <1>1, TypeInvariant, PTL

-----------------------------------------------------------------------------
(* Refunds that succeed at once. *)

(* The books of the payments: every refund succeeded, no two refunds made  *)
(* in the dashboard have the same key, and no event tells of more than was *)
(* returned.                                                               *)
AllSucceeded == \A r \in Refs : \A f \in refunds[r] : f.status = "succeeded"
DashboardKeys ==
  \A r \in Refs : \A f \in refunds[r] :
    f.key.kind = "dashboard" => f.key.amt < AmountRefunded(r)
TotalsTrue == \A ev \in sent : ev.type = "charge.refunded" => ev.amt <= AmountRefunded(ev.ref)
PaymentBooks == AllSucceeded /\ DashboardKeys /\ TotalsTrue

(* The books of the tickets: rows are inserted in their order, a row that  *)
(* is not inserted belongs to nobody, and the refunded tickets of an order *)
(* are among the first, as many as the money returned pays for.            *)
IssuedInOrder ==
  \A t, u \in TicketIds : tickets[t].status = "none" /\ tickets[u].status # "none" => u < t
Unissued == \A t \in TicketIds : tickets[t].status = "none" => tickets[t].ref \notin Refs
RefundedInTurn ==
  \A r \in Refs : \A t \in OrderTickets(r) :
    tickets[t].status = "refunded" => t \in Covered(r, AmountRefunded(r))
TicketBooks == IssuedInOrder /\ Unissued /\ RefundedInTurn

BooksInv == TypeInv /\ PaymentBooks /\ TicketBooks

(* Money never comes back from a succeeded refund. *)
AmountsGrow ==
  \A r \in Refs : AmountRefunded(r)' \in Nat /\ AmountRefunded(r) <= AmountRefunded(r)'

(* Steps that issue nothing and mark as refunded only what was paid for.   *)
OnlyPaidForMarked ==
  \A t \in TicketIds :
    /\ tickets'[t].ref = tickets[t].ref
    /\ tickets'[t].status = "none" <=> tickets[t].status = "none"
    /\ tickets'[t].status = "refunded" =>
         \/ tickets[t].status = "refunded"
         \/ \A r \in Refs : t \in OrderTickets(r) => t \in Covered(r, AmountRefunded(r))

(* The tickets before a ticket of the same order are counted. *)
LEMMA BeforeCounted ==
  ASSUME NEW r, NEW t
  PROVE  Cardinality({u \in OrderTickets(r) : u <= t}) \in Nat
<1>1. {u \in OrderTickets(r) : u <= t} \in SUBSET TicketIds
  BY DEF OrderTickets
<1> QED BY <1>1, TicketsFinite

(* Nothing is refunded. *)
LEMMA NoMoneyMoves ==
  ASSUME PaymentBooks, EventsTyped, UNCHANGED refunds,
         \A ev \in sent' : ev \in sent \/ ev.type # "charge.refunded"
  PROVE  PaymentBooks' /\ \A r : AmountRefunded(r)' = AmountRefunded(r)
<1>1. \A r : AmountRefunded(r)' = AmountRefunded(r)
  BY DEF AmountRefunded, Live, Units
<1>2. AllSucceeded' /\ DashboardKeys'
  BY <1>1 DEF PaymentBooks, AllSucceeded, DashboardKeys
<1>3. TotalsTrue'
  BY <1>1 DEF PaymentBooks, TotalsTrue
<1> QED BY <1>1, <1>2, <1>3 DEF PaymentBooks

(* A notice does not tell of an amount. *)
LEMMA NoticeTellsNoAmount ==
  ASSUME NEW r, NEW n \in {"completed", "async_succeeded", "expired", "dispute.created",
                           "dispute.won"}, Send({Notice(n, r)})
  PROVE  \A ev \in sent' : ev \in sent \/ ev.type # "charge.refunded"
  BY DEF Send, Notice

(* A refund that was not there before returns its amount. *)
LEMMA NewRefundGrows ==
  ASSUME BooksInv, NEW r \in Refs, NEW f \in Refund, f \notin refunds[r],
         f.status = "succeeded", f.key.kind = "dashboard" => f.key.amt = AmountRefunded(r),
         refunds' = [refunds EXCEPT ![r] = @ \cup {f}],
         Send({ChargeRefunded(r, AmountRefunded(r) + f.amt)})
  PROVE  PaymentBooks' /\ AmountsGrow
<1> USE DEF BooksInv, TypeInv
<1>0. f.amt \in Nat /\ f.amt > 0
  BY CapacityAssumption DEF Refund
<1>1. AmountRefunded(r)' = AmountRefunded(r) + f.amt
  <2>1. refunds'[r] = refunds[r] \cup {f}
    BY DEF MoneyTyped
  <2>2. Live(r)' = Live(r) \cup {f} /\ f \notin Live(r)
    BY <2>1 DEF Live
  <2>3. IsFiniteSet(Live(r))
    BY AmountsTyped
  <2>4. Cardinality(Units(Live(r) \cup {f})) = Cardinality(Units(Live(r))) + f.amt
    BY <2>2, <2>3, UnitsAdd
  <2>5. Units(Live(r))' = Units(Live(r) \cup {f})
    BY <2>2 DEF Units
  <2> QED BY <2>4, <2>5 DEF AmountRefunded
<1>2. \A q \in Refs : q # r => refunds'[q] = refunds[q] /\ AmountRefunded(q)' = AmountRefunded(q)
  BY DEF MoneyTyped, AmountRefunded, Live, Units
<1>3. \A q \in Refs : AmountRefunded(q) \in Nat
  BY AmountsTyped
<1>4. AmountsGrow
  BY <1>0, <1>1, <1>2, <1>3 DEF AmountsGrow
<1>5. AllSucceeded'
  BY <1>2 DEF AllSucceeded, PaymentBooks, MoneyTyped
<1>6. DashboardKeys'
  <2> SUFFICES ASSUME NEW q \in Refs, NEW g \in refunds'[q], g.key.kind = "dashboard"
               PROVE  g.key.amt < AmountRefunded(q)'
    BY DEF DashboardKeys
  <2>1. CASE g \in refunds[q]
    <3>1. g.key.amt < AmountRefunded(q) /\ AmountRefunded(q) <= AmountRefunded(q)'
      BY <2>1, <1>4 DEF PaymentBooks, DashboardKeys, AmountsGrow
    <3>2. AmountRefunded(q) \in Nat /\ AmountRefunded(q)' \in Nat
      BY <1>0, <1>1, <1>2, <1>3
    <3>3. g.key.amt \in Nat
      BY <2>1, CapacityAssumption DEF MoneyTyped, Refund, RefundKey
    <3> QED BY <3>1, <3>2, <3>3
  <2>2. CASE g \notin refunds[q]
    <3>1. q = r /\ g = f
      BY <2>2, <1>2 DEF MoneyTyped
    <3> QED BY <3>1, <1>0, <1>1, <1>3
  <2> QED BY <2>1, <2>2
<1>7. TotalsTrue'
  <2> SUFFICES ASSUME NEW ev \in sent', ev.type = "charge.refunded"
               PROVE  ev.amt <= AmountRefunded(ev.ref)'
    BY DEF TotalsTrue
  <2>1. CASE ev \in sent
    <3>1. ev \in Event
      BY <2>1 DEF EventsTyped
    <3>2. ev.ref \in Refs /\ ev.amt \in 0..MaxQty
      BY <3>1 DEF Event
    <3>3. ev.amt <= AmountRefunded(ev.ref) /\ AmountRefunded(ev.ref) <= AmountRefunded(ev.ref)'
      BY <2>1, <3>2, <1>4 DEF PaymentBooks, TotalsTrue, AmountsGrow
    <3>4. AmountRefunded(ev.ref) \in Nat /\ AmountRefunded(ev.ref)' \in Nat
      BY <3>2, <1>0, <1>1, <1>2, <1>3
    <3> QED BY <3>2, <3>3, <3>4, CapacityAssumption
  <2>2. CASE ev \notin sent
    <3>1. ev = ChargeRefunded(r, AmountRefunded(r) + f.amt)
      BY <2>2 DEF Send
    <3>2. ev.ref = r /\ ev.amt = AmountRefunded(r) + f.amt
      BY <3>1 DEF ChargeRefunded
    <3> QED BY <3>2, <1>0, <1>1, <1>3
  <2> QED BY <2>1, <2>2
<1> QED BY <1>4, <1>5, <1>6, <1>7 DEF PaymentBooks

(* refundPayment keeps the books, whether the refund is new or not. *)
LEMMA StripeRefundBooked ==
  ASSUME BooksInv, RefundStarts \subseteq {"succeeded"}, NEW r \in Refs, NEW key \in RefundKey,
         key.kind # "dashboard", NEW amt, NEW f \in Refund, StripeRefund(r, key, amt, f)
  PROVE  PaymentBooks' /\ AmountsGrow
<1> USE DEF BooksInv, TypeInv
<1>1. CASE f \in refunds[r] /\ f.key = key /\ UNCHANGED <<refunds, hooks>>
  <2>1. UNCHANGED refunds /\ sent' = sent
    BY <1>1 DEF hooks
  <2>2. PaymentBooks' /\ \A q : AmountRefunded(q)' = AmountRefunded(q)
    BY <2>1, NoMoneyMoves
  <2>3. \A q \in Refs : AmountRefunded(q) \in Nat
    BY AmountsTyped
  <2> QED BY <2>2, <2>3 DEF AmountsGrow
<1>2. CASE /\ Chargeable(r, key, amt)
           /\ f \in [key : {key}, amt : {amt}, status : RefundStarts]
           /\ refunds' = [refunds EXCEPT ![r] = @ \cup {f}]
           /\ Send({ChargeRefunded(r, AmountRefunded(r) + amt)})
  <2>1. f.key = key /\ f.amt = amt /\ f.status = "succeeded"
    BY <1>2
  <2>2. f \notin refunds[r]
    BY <1>2, <2>1 DEF Chargeable, Known
  <2> QED BY <1>2, <2>1, <2>2, NewRefundGrows
<1> QED BY <1>1, <1>2 DEF StripeRefund

(* What was paid for stays paid for. *)
LEMMA TicketsBooked ==
  ASSUME BooksInv, OnlyPaidForMarked, AmountsGrow
  PROVE  TicketBooks'
<1> USE DEF BooksInv, TypeInv
<1>1. IssuedInOrder' /\ Unissued'
  BY DEF TicketBooks, IssuedInOrder, Unissued, OnlyPaidForMarked
<1>2. \A r : OrderTickets(r)' = OrderTickets(r)
  BY DEF OrderTickets, OnlyPaidForMarked
<1>3. ASSUME NEW r \in Refs, NEW t \in OrderTickets(r)', tickets'[t].status = "refunded"
      PROVE  (t \in Covered(r, AmountRefunded(r)))'
  <2>1. t \in OrderTickets(r) /\ t \in TicketIds
    BY <1>2 DEF OrderTickets
  <2>2. t \in Covered(r, AmountRefunded(r))
    BY <1>3, <2>1 DEF OnlyPaidForMarked, TicketBooks, RefundedInTurn
  <2>3. /\ AmountRefunded(r) \in Nat /\ AmountRefunded(r)' \in Nat
        /\ AmountRefunded(r) <= AmountRefunded(r)'
    BY AmountsTyped DEF AmountsGrow
  <2>5. Cardinality({u \in OrderTickets(r) : u <= t}) <= AmountRefunded(r)'
    BY <2>2, <2>3, BeforeCounted DEF Covered
  <2> QED BY <2>1, <2>5, <1>2 DEF Covered
<1> QED BY <1>1, <1>3 DEF TicketBooks, RefundedInTurn

(* New tickets come after every ticket there is. *)
LEMMA InsertBooked ==
  ASSUME BooksInv, NEW ids \in SUBSET Unused, NEW qty, NEW ty, NEW who, NEW ref \in Refs \cup {None},
         Fresh(ids, qty), Insert(ids, ty, who, ref), UNCHANGED refunds
  PROVE  TicketBooks'
<1> USE DEF BooksInv, TypeInv
<1>1. /\ ids \subseteq TicketIds /\ \A t \in ids : tickets[t].status = "none"
      /\ \A t \in TicketIds \ ids : tickets'[t] = tickets[t]
      /\ \A t \in ids : tickets'[t].status = "valid" /\ tickets'[t].ref = ref
  BY DEF Insert, Unused
<1>2. \A t \in ids, u \in TicketIds \ ids : tickets[u].status = "none" => t < u
  BY DEF Fresh, Unused
<1>3. IssuedInOrder'
  <2> SUFFICES ASSUME NEW t \in TicketIds, NEW u \in TicketIds, tickets'[t].status = "none",
                      tickets'[u].status # "none"
               PROVE  u < t
    BY DEF IssuedInOrder
  <2>1. t \notin ids /\ tickets[t].status = "none"
    BY <1>1
  <2>2. CASE u \in ids
    BY <2>1, <2>2, <1>2
  <2>3. CASE u \notin ids
    BY <2>1, <2>3, <1>1 DEF TicketBooks, IssuedInOrder
  <2> QED BY <2>2, <2>3
<1>4. Unissued'
  BY <1>1 DEF TicketBooks, Unissued
<1>5. ASSUME NEW r \in Refs, NEW t \in OrderTickets(r)', tickets'[t].status = "refunded"
      PROVE  (t \in Covered(r, AmountRefunded(r)))'
  <2>1. t \in TicketIds /\ t \notin ids /\ t \in OrderTickets(r) /\ tickets[t].status = "refunded"
    BY <1>1, <1>5 DEF OrderTickets
  <2>2. t \in Covered(r, AmountRefunded(r))
    BY <2>1 DEF TicketBooks, RefundedInTurn
  <2>3. \A u \in ids : ~(u <= t)
    <3> TAKE u \in ids
    <3>1. t < u
      BY <2>1, <1>1 DEF TicketBooks, IssuedInOrder
    <3>2. u \in Nat /\ t \in Nat
      BY <1>1, <2>1, CapacityAssumption DEF TicketIds
    <3> QED BY <3>1, <3>2
  <2>4. ASSUME NEW u \in TicketIds, u <= t
        PROVE  u \in OrderTickets(r)' <=> u \in OrderTickets(r)
    <3>1. tickets'[u] = tickets[u]
      BY <2>4, <2>3, <1>1
    <3> QED BY <3>1 DEF OrderTickets
  <2>5. {u \in OrderTickets(r)' : u <= t} = {u \in OrderTickets(r) : u <= t}
    BY <2>4 DEF OrderTickets
  <2>6. AmountRefunded(r)' = AmountRefunded(r)
    BY DEF AmountRefunded, Live, Units
  <2> QED BY <1>5, <2>2, <2>5, <2>6 DEF Covered
<1> QED BY <1>3, <1>4, <1>5 DEF TicketBooks, RefundedInTurn

(* No money moves and no ticket is marked. *)
LEMMA NothingBooked ==
  ASSUME BooksInv, UNCHANGED <<tickets, refunds>>,
         \A ev \in sent' : ev \in sent \/ ev.type # "charge.refunded"
  PROVE  PaymentBooks' /\ TicketBooks'
<1>1. PaymentBooks' /\ \A r : AmountRefunded(r)' = AmountRefunded(r)
  BY NoMoneyMoves DEF BooksInv, TypeInv
<1>2. AmountsGrow
  BY <1>1, AmountsTyped DEF AmountsGrow, BooksInv, TypeInv
<1>3. OnlyPaidForMarked
  BY DEF OnlyPaidForMarked
<1> QED BY <1>1, <1>2, <1>3, TicketsBooked

(* Tickets are marked and no money moves. *)
LEMMA MarkedBooked ==
  ASSUME BooksInv, OnlyPaidForMarked, UNCHANGED refunds, sent' = sent
  PROVE  PaymentBooks' /\ TicketBooks'
<1>1. PaymentBooks' /\ \A r : AmountRefunded(r)' = AmountRefunded(r)
  BY NoMoneyMoves DEF BooksInv, TypeInv
<1>2. AmountsGrow
  BY <1>1, AmountsTyped DEF AmountsGrow, BooksInv, TypeInv
<1> QED BY <1>1, <1>2, TicketsBooked

(* Money moves and no ticket is marked. *)
LEMMA MoneyBooked ==
  ASSUME BooksInv, UNCHANGED tickets, PaymentBooks', AmountsGrow
  PROVE  PaymentBooks' /\ TicketBooks'
<1>1. OnlyPaidForMarked
  BY DEF OnlyPaidForMarked
<1> QED BY <1>1, TicketsBooked

(* A reconciliation marks the tickets of one order up to the total.        *)
LEMMA ReconcileBooked ==
  ASSUME BooksInv, NEW r \in Refs, NEW amt \in 0..MaxQty, amt <= AmountRefunded(r),
         ReconcileTickets(r, RefundTotal(r, amt))
  PROVE  OnlyPaidForMarked
<1> USE DEF BooksInv, TypeInv
<1> DEFINE total == RefundTotal(r, amt)
<1>1. SucceededRefunds(r) = Live(r)
  BY DEF SucceededRefunds, Live, PaymentBooks, AllSucceeded
<1>2. total = AmountRefunded(r)
  <2>1. Cardinality(Units(SucceededRefunds(r))) = AmountRefunded(r)
    BY <1>1 DEF AmountRefunded
  <2>2. AmountRefunded(r) \in Nat /\ amt \in Nat
    BY AmountsTyped
  <2> QED BY <2>1, <2>2 DEF RefundTotal, Larger
<1>3. PICK key \in RefundKey : tickets' = [t \in TicketIds |->
         IF t \in Covered(r, total) /\ tickets[t].status # "refunded"
           THEN [tickets[t] EXCEPT !.status = "refunded", !.refund = key]
           ELSE tickets[t]]
  BY DEF ReconcileTickets
<1> HIDE DEF total
<1> SUFFICES ASSUME NEW t \in TicketIds
             PROVE  /\ tickets'[t].ref = tickets[t].ref
                    /\ tickets'[t].status = "none" <=> tickets[t].status = "none"
                    /\ tickets'[t].status = "refunded" =>
                         \/ tickets[t].status = "refunded"
                         \/ \A q \in Refs : t \in OrderTickets(q) => t \in Covered(q, AmountRefunded(q))
  BY DEF OnlyPaidForMarked
<1>4. CASE t \in Covered(r, total) /\ tickets[t].status # "refunded"
  <2>1. tickets[t].ref = r /\ tickets[t].status # "none"
    BY <1>4 DEF Covered, OrderTickets, TicketBooks, Unissued
  <2>2. tickets[t] \in TicketRow
    BY DEF DbTyped
  <2>3. tickets'[t].status = "refunded" /\ tickets'[t].ref = tickets[t].ref
    BY <1>3, <1>4, <2>2 DEF TicketRow
  <2>4. \A q \in Refs : t \in OrderTickets(q) => t \in Covered(q, AmountRefunded(q))
    BY <1>2, <1>4, <2>1 DEF OrderTickets
  <2> QED BY <2>1, <2>3, <2>4
<1>5. CASE ~(t \in Covered(r, total) /\ tickets[t].status # "refunded")
  BY <1>3, <1>5
<1> QED BY <1>4, <1>5

(* Buyers, Stripe and time: only a refund in the dashboard moves money. *)
LEMMA OutsideBooked ==
  ASSUME BooksInv, RefundStarts \subseteq {"succeeded"}, NEW r \in Refs, Buyer(r) \/ Provider(r)
  PROVE  PaymentBooks' /\ TicketBooks'
<1> USE DEF BooksInv, TypeInv
<1>1. CASE DashboardRefund(r)
  <2>1. UNCHANGED tickets
    BY <1>1 DEF DashboardRefund, db
  <2>2. PICK amt \in 1..Balance(r), s \in RefundStarts :
          /\ refunds' = [refunds EXCEPT ![r] =
               @ \cup {[key |-> Key("dashboard", AmountRefunded(r)), amt |-> amt, status |-> s]}]
          /\ Send({ChargeRefunded(r, AmountRefunded(r) + amt)})
    BY <1>1 DEF DashboardRefund
  <2> DEFINE f == [key |-> Key("dashboard", AmountRefunded(r)), amt |-> amt, status |-> s]
  <2>3. Key("dashboard", AmountRefunded(r)) \in RefundKey /\ amt \in 1..MaxQty
    BY AmountsTyped DEF Key, RefundKey
  <2>4. f \in Refund /\ f.amt = amt /\ f.status = "succeeded"
    BY <2>3 DEF Refund
  <2>5. f.key.kind = "dashboard" /\ f.key.amt = AmountRefunded(r) /\ AmountRefunded(r) \in Nat
    BY AmountsTyped DEF Key
  <2>6. refunds' = [refunds EXCEPT ![r] = @ \cup {f}]
    BY <2>2
  <2> HIDE DEF f
  <2>7. f \notin refunds[r]
    BY <2>5 DEF PaymentBooks, DashboardKeys
  <2>8. PaymentBooks' /\ AmountsGrow
    BY <2>2, <2>4, <2>5, <2>6, <2>7, NewRefundGrows
  <2> QED BY <2>1, <2>8, MoneyBooked
<1>2. CASE RefundSettles(r)
  BY <1>2 DEF RefundSettles, PaymentBooks, AllSucceeded
<1>3. CASE UNCHANGED <<tickets, refunds>> /\ (UNCHANGED hooks \/
             \E n \in {"completed", "async_succeeded", "expired", "dispute.created", "dispute.won"} :
               Send({Notice(n, r)}))
  <2>1. \A ev \in sent' : ev \in sent \/ ev.type # "charge.refunded"
    BY <1>3, NoticeTellsNoAmount DEF hooks
  <2> QED BY <1>3, <2>1, NothingBooked
<1>4. CASE \/ StartCheckout(r) \/ CreateSession(r) \/ CreateFails(r) \/ PersistSession(r)
           \/ PersistFails(r) \/ Pay(r) \/ (\E w \in Workers : Nudge(w, r))
  <2>1. UNCHANGED <<tickets, refunds>>
    BY <1>4 DEF StartCheckout, CreateSession, CreateFails, PersistSession, PersistFails, Pay, Nudge,
                db, stripe
  <2>2. UNCHANGED hooks \/
          \E n \in {"completed", "async_succeeded", "expired", "dispute.created", "dispute.won"} :
            Send({Notice(n, r)})
    BY <1>4 DEF StartCheckout, CreateSession, CreateFails, PersistSession, PersistFails, Pay, Nudge
  <2> QED BY <2>1, <2>2, <1>3
<1>5. CASE AsyncPayment(r) \/ Lapse(r) \/ GrowStale(r) \/ OpenDispute(r) \/ WinDispute(r)
  <2>1. UNCHANGED <<tickets, refunds>>
    BY <1>5 DEF AsyncPayment, Lapse, GrowStale, OpenDispute, WinDispute, db, stripe
  <2>2. UNCHANGED hooks \/
          \E n \in {"completed", "async_succeeded", "expired", "dispute.created", "dispute.won"} :
            Send({Notice(n, r)})
    BY <1>5 DEF AsyncPayment, Lapse, GrowStale, OpenDispute, WinDispute
  <2> QED BY <2>1, <2>2, <1>3
<1> QED BY <1>1, <1>2, <1>4, <1>5 DEF Buyer, Provider

(* fulfilCheckout issues in order, and refunds what it cannot issue. *)
LEMMA FulfilBooked ==
  ASSUME BooksInv, RefundStarts \subseteq {"succeeded"}, NEW w \in Workers, Fulfil(w)
  PROVE  PaymentBooks' /\ TicketBooks'
<1> USE DEF BooksInv, TypeInv
<1> DEFINE r == worker[w].ref
<1>1. CASE Issue(w)
  <2>1. UNCHANGED refunds /\ sent' = sent
    BY <1>1 DEF Issue, stripe, hooks
  <2>2. PaymentBooks'
    BY <2>1, NoMoneyMoves
  <2>3. r \in Refs \cup {None}
    BY DEF HandlersTyped, HandlerState
  <2>4. CASE UNCHANGED tickets
    BY <2>1, <2>4, NothingBooked
  <2>5. CASE \E ids \in SUBSET Unused :
               Fresh(ids, QtyOf[r]) /\ Insert(ids, TypeOf[r], BuyerOf[r], r)
    <3>1. TicketBooks'
      BY <2>1, <2>3, <2>5, InsertBooked
    <3> QED BY <2>2, <3>1
  <2> QED BY <1>1, <2>4, <2>5 DEF Issue
<1>2. CASE RefundPayment(w)
  <2>1. UNCHANGED tickets
    BY <1>2 DEF RefundPayment, db
  <2>2. PICK f \in Refund : StripeRefund(r, worker[w].key, RefundAmount(w), f)
    BY <1>2 DEF RefundPayment
  <2>3. r \in Refs /\ worker[w].key \in RefundKey /\ worker[w].key.kind # "dashboard"
    BY <1>2 DEF RefundPayment, At, HandlersTyped, Sound
  <2>4. PaymentBooks' /\ AmountsGrow
    BY <2>2, <2>3, StripeRefundBooked
  <2> QED BY <2>1, <2>4, MoneyBooked
<1>3. CASE \/ Claim(w) \/ Retrieve(w) \/ Recover(w) \/ Release(w) \/ RefundPaymentRefused(w)
           \/ Settle(w) \/ Record(w)
  <2>1. UNCHANGED <<tickets, refunds>>
    BY <1>3 DEF Claim, Retrieve, Recover, Release, RefundPaymentRefused, Settle, Record, db, stripe
  <2>2. sent' = sent
    BY <1>3 DEF Claim, Retrieve, Recover, Release, RefundPaymentRefused, Settle, Record, hooks, Finish
  <2> QED BY <2>1, <2>2, NothingBooked
<1> QED BY <1>1, <1>2, <1>3 DEF Fulfil

(* charge.refunded and refund.updated: an event, even an old one, marks no *)
(* more than the money returned by now pays for.                           *)
LEMMA CancelBooked ==
  ASSUME BooksInv, RefundStarts \subseteq {"succeeded"}, NEW w \in Workers, Cancel(w)
  PROVE  PaymentBooks' /\ TicketBooks'
<1> USE DEF BooksInv, TypeInv
<1> DEFINE r == worker[w].ref
<1>0. Sound(worker[w], sent)
  BY DEF HandlersTyped
<1>1. CASE Reconcile(w)
  <2>1. UNCHANGED refunds /\ sent' = sent
        /\ ReconcileTickets(r, RefundTotal(r, worker[w].ev.amt))
    BY <1>1 DEF Reconcile, stripe, hooks
  <2>2. /\ r \in Refs /\ worker[w].ev \in sent /\ worker[w].ev.ref = r
        /\ worker[w].ev.type = "charge.refunded"
    BY <1>0, <1>1 DEF Reconcile, At, Sound
  <2>3. worker[w].ev \in Event
    BY <2>2 DEF EventsTyped
  <2>4. worker[w].ev.amt \in 0..MaxQty
    BY <2>2, <2>3 DEF Event
  <2>5. worker[w].ev.amt <= AmountRefunded(r)
    BY <2>2 DEF PaymentBooks, TotalsTrue
  <2>6. OnlyPaidForMarked
    BY <2>1, <2>2, <2>4, <2>5, ReconcileBooked
  <2> QED BY <2>1, <2>6, MarkedBooked
<1>2. CASE RefundTickets(w)
  <2>1. UNCHANGED refunds /\ sent' = sent
    BY <1>2 DEF RefundTickets, stripe, Finish
  <2>2. CASE ReconcileTickets(r, RefundTotal(r, 0))
    <3>1. r \in Refs
      BY <1>0, <1>2 DEF RefundTickets, At, Sound
    <3>2. 0 \in 0..MaxQty /\ 0 <= AmountRefunded(r)
      BY <3>1, AmountsTyped
    <3>3. OnlyPaidForMarked
      BY <2>2, <3>1, <3>2, ReconcileBooked
    <3> QED BY <2>1, <3>3, MarkedBooked
  <2>3. CASE tickets' = [t \in TicketIds |->
               IF /\ t \in OrderTickets(r) /\ tickets[t].refund = worker[w].ev.key
                  /\ tickets[t].status = "refunded"
                 THEN [tickets[t] EXCEPT !.status = "void"] ELSE tickets[t]]
    <3>1. \A t \in TicketIds : tickets[t] \in TicketRow
      BY DEF DbTyped
    <3>2. OnlyPaidForMarked
      BY <2>3, <3>1 DEF OnlyPaidForMarked, TicketRow
    <3> QED BY <2>1, <3>2, MarkedBooked
  <2> QED BY <1>2, <2>2, <2>3 DEF RefundTickets
<1>3. CASE CancelRefund(w)
  <2>1. UNCHANGED tickets
    BY <1>3 DEF CancelRefund, db
  <2>2. PICK f \in Refund : StripeRefund(r, worker[w].key, worker[w].amt, f)
    BY <1>3 DEF CancelRefund
  <2>3. r \in Refs /\ worker[w].key \in RefundKey /\ worker[w].key.kind # "dashboard"
    BY <1>0, <1>3 DEF CancelRefund, At, Sound
  <2>4. PaymentBooks' /\ AmountsGrow
    BY <2>2, <2>3, StripeRefundBooked
  <2> QED BY <2>1, <2>4, MoneyBooked
<1>4. CASE \/ ExpireCheckout(w) \/ CancelFind(w) \/ CancelRefundRefused(w) \/ CancelWrite(w)
           \/ RefundRow(w)
  <2>1. UNCHANGED <<tickets, refunds>>
    BY <1>4 DEF ExpireCheckout, CancelFind, CancelRefundRefused, CancelWrite, RefundRow, db, stripe
  <2>2. sent' = sent
    BY <1>4 DEF ExpireCheckout, CancelFind, CancelRefundRefused, CancelWrite, RefundRow, hooks, Finish
  <2> QED BY <2>1, <2>2, NothingBooked
<1> QED BY <1>1, <1>2, <1>3, <1>4 DEF Cancel

(* Disputes void tickets and restore them; they refund none. *)
LEMMA ChargebackBooked ==
  ASSUME BooksInv, NEW w \in Workers, Chargeback(w)
  PROVE  PaymentBooks' /\ TicketBooks'
<1> USE DEF BooksInv, TypeInv
<1>1. UNCHANGED refunds /\ sent' = sent
  BY DEF Chargeback, DisputeRow, DisputeTickets, RestoreTickets, Reopen, stripe, hooks, Finish
<1>2. \A t \in TicketIds : tickets[t] \in TicketRow
  BY DEF DbTyped
<1>3. OnlyPaidForMarked
  <2>1. CASE DisputeTickets(w)
    BY <2>1, <1>2 DEF DisputeTickets, OnlyPaidForMarked, TicketRow
  <2>2. CASE RestoreTickets(w)
    BY <2>2, <1>2 DEF RestoreTickets, OnlyPaidForMarked, TicketRow
  <2>3. CASE DisputeRow(w) \/ Reopen(w)
    BY <2>3 DEF DisputeRow, Reopen, OnlyPaidForMarked
  <2> QED BY <2>1, <2>2, <2>3 DEF Chargeback
<1> QED BY <1>1, <1>3, MarkedBooked

(* An event that comes, and a handler that fails, mark nothing. *)
LEMMA DeliveryBooked ==
  ASSUME BooksInv, NEW w \in Workers, Fault(w) \/ \E ev \in sent : Deliver(w, ev)
  PROVE  PaymentBooks' /\ TicketBooks'
<1>1. UNCHANGED <<tickets, refunds>> /\ sent' = sent
  <2>1. CASE Fault(w)
    BY <2>1 DEF Fault, Crash, RetrieveFails, IssueThrows, RefundFails, db, stripe, hooks, Finish
  <2>2. CASE \E ev \in sent : Deliver(w, ev)
    BY <2>2 DEF Deliver, Arrives, db, stripe, hooks
  <2> QED BY <2>1, <2>2
<1> QED BY <1>1, NothingBooked

(* Staff give tickets away and void them. *)
LEMMA StaffBooked == ASSUME BooksInv, Staff PROVE PaymentBooks' /\ TicketBooks'
<1> USE DEF BooksInv, TypeInv
<1>1. UNCHANGED refunds /\ sent' = sent
  BY DEF Staff, IssueDirect, VoidTicket, stripe, hooks
<1>2. ASSUME NEW ty \in Types, NEW who \in Guests, IssueDirect(ty, who)
      PROVE  PaymentBooks' /\ TicketBooks'
  <2>1. PICK ids \in SUBSET Unused : Fresh(ids, 1) /\ Insert(ids, ty, who, None)
    BY <1>2 DEF IssueDirect
  <2>2. None \in Refs \cup {None}
    OBVIOUS
  <2>3. TicketBooks'
    BY <1>1, <2>1, <2>2, InsertBooked
  <2> QED BY <1>1, <2>3, NoMoneyMoves
<1>3. ASSUME NEW t \in TicketIds, VoidTicket(t)
      PROVE  PaymentBooks' /\ TicketBooks'
  <2>1. \A u \in TicketIds : tickets[u] \in TicketRow
    BY DEF DbTyped
  <2>2. tickets' = [tickets EXCEPT ![t].status = "void"] /\ tickets[t].status # "none"
    BY <1>3 DEF VoidTicket
  <2>3. OnlyPaidForMarked
    BY <2>1, <2>2 DEF OnlyPaidForMarked, TicketRow, DbTyped
  <2> QED BY <1>1, <2>3, MarkedBooked
<1> QED BY <1>2, <1>3 DEF Staff

(* The books hold from the first request on. *)
LEMMA BooksInvInit == Init => BooksInv
<1> SUFFICES ASSUME Init PROVE BooksInv
  OBVIOUS
<1>1. PaymentBooks
  BY DEF Init, PaymentBooks, AllSucceeded, DashboardKeys, TotalsTrue
<1>2. TicketBooks
  <2>1. \A t \in TicketIds : tickets[t].status = "none" /\ tickets[t].ref \notin Refs
    BY CheckoutAssumption DEF Init, NoTicket
  <2> QED BY <2>1 DEF TicketBooks, IssuedInOrder, Unissued, RefundedInTurn, OrderTickets
<1> QED BY <1>1, <1>2, TypeInvInit DEF BooksInv

(* Every step keeps them. *)
LEMMA BooksInvNext ==
  ASSUME RefundStarts \subseteq {"succeeded"}, BooksInv, [Next]_vars PROVE BooksInv'
<1>1. TypeInv'
  BY TypeInvNext DEF BooksInv
<1>2. PaymentBooks' /\ TicketBooks'
  <2>1. CASE \E r \in Refs : Buyer(r) \/ Provider(r)
    BY <2>1, OutsideBooked
  <2>2. CASE \E ev \in sent, w \in Workers : Deliver(w, ev)
    BY <2>2, DeliveryBooked
  <2>3. CASE \E w \in Workers : Handler(w) \/ Fault(w)
    BY <2>3, FulfilBooked, CancelBooked, ChargebackBooked, DeliveryBooked DEF Handler
  <2>4. CASE Staff
    BY <2>4, StaffBooked
  <2>5. CASE UNCHANGED vars
    BY <2>5, NothingBooked DEF vars
  <2> QED BY <2>1, <2>2, <2>3, <2>4, <2>5 DEF Next
<1> QED BY <1>1, <1>2 DEF BooksInv

(* A ticket is marked refunded only for money that went back, at every     *)
(* moment and not only when a payment is quiet: however many handlers      *)
(* reconcile at once, however often and in whatever order the events that  *)
(* tell of running totals come, and whatever disputes and staff do         *)
(* between.  Refunds succeed at once; a refund that fails later is the     *)
(* matter of disagreement 8.                                               *)
THEOREM RefundsArePaidFor ==
  ASSUME RefundStarts \subseteq {"succeeded"}
  PROVE  Spec => []RefundedMeansReturned
<1>1. BooksInv => RefundedMeansReturned
  <2> SUFFICES ASSUME BooksInv, NEW r \in Refs
               PROVE  Cardinality({t \in OrderTickets(r) : tickets[t].status = "refunded"})
                        <= AmountRefunded(r)
    BY DEF RefundedMeansReturned
  <2> DEFINE S == {t \in OrderTickets(r) : tickets[t].status = "refunded"}
             O == OrderTickets(r)
  <2>1. S \in SUBSET TicketIds /\ O \in SUBSET TicketIds /\ S \subseteq O
    BY DEF OrderTickets
  <2>2. AmountRefunded(r) \in Nat
    BY AmountsTyped DEF BooksInv, TypeInv
  <2>3. \A t \in S : Cardinality({u \in O : u <= t}) <= AmountRefunded(r)
    BY DEF BooksInv, TicketBooks, RefundedInTurn, Covered
  <2> HIDE DEF S, O
  <2>4. Cardinality(S) <= AmountRefunded(r)
    BY <2>1, <2>2, <2>3, CoveredAreFew
  <2> QED BY <2>4 DEF S
<1> QED BY <1>1, BooksInvInit, BooksInvNext, PTL DEF Spec

-----------------------------------------------------------------------------
(* Admission within the money kept, with one handler at a time. *)

CancelSteps == {"cancelFind", "cancelRefund", "cancelWrite"}

(* A ticket that no winner of a dispute gets back. *)
Closed(t) == tickets[t].status # "valid" /\ tickets[t].refund # DisputeRef
Applied(r, n) == \A t \in Covered(r, n) : Closed(t)

(* An order is issued as a whole, and only to a payment. *)
OrdersWhole ==
  \A r \in Refs :
    OrderTickets(r) = {} \/ (Cardinality(OrderTickets(r)) = QtyOf[r] /\ session[r] = "paid")

(* No refund bears the name of a dispute. *)
RefundsNamed ==
  /\ \A t \in TicketIds : tickets[t].status = "refunded" => tickets[t].refund # DisputeRef
  /\ \A r \in Refs : \A f \in refunds[r] : f.key.kind # "dispute"

(* What the handler knows: the payment it issues for, and that the total   *)
(* of its event is applied once it is past the reconciliation.             *)
KnowsOrder(w) ==
  /\ worker[w].pc \in {"recover", "issue"} => session[worker[w].ref] = "paid"
  /\ worker[w].pc = "issue" => OrderTickets(worker[w].ref) = {}
  /\ worker[w].pc \in CancelSteps =>
       /\ worker[w].ev # None /\ worker[w].ev.type = "charge.refunded"
       /\ Applied(worker[w].ref, worker[w].ev.amt)
  /\ worker[w].ev # None /\ worker[w].ev.type = "charge.refunded" =>
       worker[w].pc \in CancelSteps \cup {"reconcile"}

(* What a payment has returned is told by an event still due, or taken     *)
(* from its tickets while nobody is about to issue them.                   *)
TellsTotal(r, ev) == ev.type = "charge.refunded" /\ ev.ref = r /\ ev.amt >= AmountRefunded(r)
Told(r) ==
  \/ AmountRefunded(r) = 0
  \/ \E ev \in due : TellsTotal(r, ev)
  \/ Applied(r, AmountRefunded(r)) /\ ~Issuing(r)

KeptInv ==
  /\ TypeInv /\ Unissued /\ OrdersWhole /\ RefundsNamed
  /\ \A w \in Workers : KnowsOrder(w)
  /\ \A r \in Refs : Told(r)

(* Steps that issue nothing and open no closed ticket. *)
TicketsClose ==
  \A t \in TicketIds :
    /\ tickets'[t].ref = tickets[t].ref
    /\ tickets'[t].status = "none" <=> tickets[t].status = "none"
    /\ Closed(t) => Closed(t)'
    /\ tickets'[t].status = "refunded" => tickets'[t].refund # DisputeRef

(* More money is returned only with an event. *)
MoneyTold ==
  \A r \in Refs :
    AmountRefunded(r)' <= AmountRefunded(r) \/ \E ev \in due' : TellsTotal(r, ev)'

(* A running total is acknowledged only when it is applied. *)
TotalsKept ==
  \A ev \in due : ev.type = "charge.refunded" =>
    ev \in due' \/ (Applied(ev.ref, ev.amt)' /\ ~Issuing(ev.ref)')

(* A smaller amount covers fewer tickets. *)
LEMMA AppliedToFewer ==
  ASSUME NEW r, NEW m \in Nat, NEW n \in Nat, m <= n, Applied(r, n)
  PROVE  Applied(r, m)
<1> SUFFICES ASSUME NEW t \in Covered(r, m) PROVE Closed(t)
  BY DEF Applied
<1>1. t \in OrderTickets(r) /\ Cardinality({u \in OrderTickets(r) : u <= t}) <= m
  BY DEF Covered
<1>2. Cardinality({u \in OrderTickets(r) : u <= t}) <= n
  BY <1>1, BeforeCounted
<1>3. t \in Covered(r, n)
  BY <1>1, <1>2 DEF Covered
<1> QED BY <1>3 DEF Applied

(* The same of the next state. *)
LEMMA AppliedToFewerNext ==
  ASSUME NEW r, NEW m \in Nat, NEW n \in Nat, m <= n, Applied(r, n)'
  PROVE  Applied(r, m)'
<1> SUFFICES ASSUME NEW t \in Covered(r, m)' PROVE Closed(t)'
  BY DEF Applied
<1>1. t \in OrderTickets(r)' /\ Cardinality({u \in OrderTickets(r)' : u <= t}) <= m
  BY DEF Covered
<1>0. Cardinality({u \in OrderTickets(r)' : u <= t}) \in Nat
  <2>1. {u \in OrderTickets(r)' : u <= t} \in SUBSET TicketIds
    BY DEF OrderTickets
  <2> QED BY <2>1, TicketsFinite
<1>2. Cardinality({u \in OrderTickets(r)' : u <= t}) <= n
  BY <1>0, <1>1
<1>3. t \in Covered(r, n)'
  BY <1>1, <1>2 DEF Covered
<1> QED BY <1>3 DEF Applied

(* What was applied stays applied. *)
LEMMA AppliedStays ==
  ASSUME TicketsClose, NEW r
  PROVE  OrderTickets(r)' = OrderTickets(r) /\ \A n : Applied(r, n) => Applied(r, n)'
<1>1. OrderTickets(r)' = OrderTickets(r)
  BY DEF OrderTickets, TicketsClose
<1>2. ASSUME NEW n, Applied(r, n) PROVE Applied(r, n)'
  <2>1. Covered(r, n)' = Covered(r, n)
    BY <1>1 DEF Covered
  <2>2. Covered(r, n) \subseteq TicketIds
    BY DEF Covered, OrderTickets
  <2> QED BY <1>2, <2>1, <2>2 DEF Applied, TicketsClose
<1> QED BY <1>1, <1>2

(* Amounts are numbers in the next state too. *)
LEMMA AmountsTypedNext == ASSUME NEW r \in Refs, MoneyTyped' PROVE AmountRefunded(r)' \in Nat
<1>1. IsFiniteSet(refunds'[r]) /\ Live(r)' \in SUBSET refunds'[r]
  BY DEF MoneyTyped, Live
<1>2. IsFiniteSet(Live(r)')
  BY <1>1, FS_Subset
<1>3. Cardinality(Units(Live(r)')) \in Nat
  BY <1>2, UnitsFinite
<1> QED BY <1>3 DEF AmountRefunded, Units

(* Told stays told. *)
LEMMA ToldKept ==
  ASSUME KeptInv, TypeInv', MoneyTold, TotalsKept, NEW r \in Refs,
         \A n : Applied(r, n) => Applied(r, n)',
         Issuing(r)' => Issuing(r) \/ AmountRefunded(r)' = 0
  PROVE  Told(r)'
<1>1. AmountRefunded(r) \in Nat
  BY AmountsTyped DEF KeptInv, TypeInv
<1>2. AmountRefunded(r)' \in Nat
  BY AmountsTypedNext DEF TypeInv
<1>3. CASE ~(AmountRefunded(r)' <= AmountRefunded(r))
  BY <1>3 DEF MoneyTold, Told
<1>4. CASE AmountRefunded(r)' <= AmountRefunded(r)
  <2>1. CASE AmountRefunded(r) = 0
    BY <2>1, <1>1, <1>2, <1>4 DEF Told
  <2>2. CASE \E ev \in due : TellsTotal(r, ev)
    <3>1. PICK ev \in due : TellsTotal(r, ev)
      BY <2>2
    <3>2. ev.type = "charge.refunded" /\ ev.ref = r /\ ev.amt >= AmountRefunded(r)
      BY <3>1 DEF TellsTotal
    <3>3. ev.amt \in Nat
      <4>1. ev \in Event
        BY DEF KeptInv, TypeInv, EventsTyped
      <4> QED BY <4>1, <3>2, CapacityAssumption DEF Event
    <3>4. ev.amt >= AmountRefunded(r)' /\ AmountRefunded(r)' <= ev.amt
      BY <1>1, <1>2, <1>4, <3>2, <3>3
    <3>5. CASE ev \in due'
      BY <3>2, <3>4, <3>5 DEF Told, TellsTotal
    <3>6. CASE Applied(r, ev.amt)' /\ ~Issuing(r)'
      <4>1. PICK m \in Nat : m = AmountRefunded(r)'
        BY <1>2
      <4>2. m <= ev.amt
        BY <4>1, <3>4
      <4>3. Applied(r, m)'
        BY <4>2, <3>3, <3>6, AppliedToFewerNext
      <4>4. Applied(r, AmountRefunded(r))'
        BY <4>1, <4>3 DEF Applied, Covered
      <4> QED BY <4>4, <3>6 DEF Told
    <3> QED BY <3>2, <3>5, <3>6 DEF TotalsKept
  <2>3. CASE Applied(r, AmountRefunded(r)) /\ ~Issuing(r)
    <3>0. CASE AmountRefunded(r)' = 0
      BY <3>0 DEF Told
    <3>1. CASE AmountRefunded(r)' # 0
      <4>1. PICK m \in Nat : m = AmountRefunded(r)'
        BY <1>2
      <4>2. PICK n \in Nat : n = AmountRefunded(r)
        BY <1>1
      <4>3. m <= n /\ Applied(r, n)
        BY <4>1, <4>2, <1>4, <2>3
      <4>4. Applied(r, m)
        BY <4>3, AppliedToFewer
      <4>5. Applied(r, m)'
        BY <4>4
      <4>6. Applied(r, AmountRefunded(r))'
        BY <4>1, <4>5 DEF Applied, Covered
      <4> QED BY <4>6, <3>1, <2>3 DEF Told
    <3> QED BY <3>0, <3>1
  <2> QED BY <2>1, <2>2, <2>3 DEF KeptInv, Told
<1> QED BY <1>3, <1>4

(* Steps that refund nothing, or tell of what they refund, apply the total *)
(* they acknowledge, and leave the handler with what it must know.         *)
SessionsStay == \A r \in Refs : session[r] = "paid" => session'[r] = "paid"
KeysNamed == \A r \in Refs : \A f \in refunds'[r] : f.key.kind # "dispute"
IssuesFrom == \A r \in Refs : Issuing(r)' => Issuing(r) \/ AmountRefunded(r)' = 0
LEMMA KeptStep ==
  ASSUME KeptInv, TypeInv', TicketsClose, MoneyTold, TotalsKept, SessionsStay, KeysNamed,
         IssuesFrom, \A w \in Workers : worker'[w] = worker[w] \/ KnowsOrder(w)'
  PROVE  KeptInv'
<1>1. \A r : OrderTickets(r)' = OrderTickets(r) /\ \A n : Applied(r, n) => Applied(r, n)'
  BY AppliedStays
<1>2. Unissued'
  BY DEF KeptInv, Unissued, TicketsClose
<1>3. OrdersWhole'
  BY <1>1 DEF KeptInv, OrdersWhole, SessionsStay
<1>4. RefundsNamed'
  BY DEF TicketsClose, KeysNamed, RefundsNamed
<1>5. ASSUME NEW w \in Workers PROVE KnowsOrder(w)'
  <2>1. CASE KnowsOrder(w)'
    BY <2>1
  <2>2. CASE worker'[w] = worker[w]
    <3>1. KnowsOrder(w) /\ (worker[w].pc # "idle" => worker[w].ref \in Refs)
      BY DEF KeptInv, TypeInv, HandlersTyped, Sound
    <3>2. PICK h : h = worker[w]
      OBVIOUS
    <3>3. h.pc \in CancelSteps => Applied(h.ref, h.ev.amt)
      BY <3>1, <3>2 DEF KnowsOrder
    <3>4. h.pc \in CancelSteps => Applied(h.ref, h.ev.amt)'
      BY <3>3, <1>1
    <3>5. worker[w].pc \in CancelSteps => Applied(worker[w].ref, worker[w].ev.amt)'
      BY <3>2, <3>4, <2>2 DEF Applied, Covered, OrderTickets
    <3> QED BY <3>1, <3>5, <2>2, <1>1 DEF KnowsOrder, SessionsStay
  <2> QED BY <2>1, <2>2
<1>6. \A r \in Refs : Told(r)'
  BY <1>1, ToldKept DEF IssuesFrom
<1> QED BY <1>2, <1>3, <1>4, <1>5, <1>6 DEF KeptInv

(* A step without refunds. *)
LEMMA NoRefundTold ==
  ASSUME KeptInv, UNCHANGED refunds
  PROVE  MoneyTold /\ KeysNamed /\ \A r : AmountRefunded(r)' = AmountRefunded(r)
<1>1. \A r : AmountRefunded(r)' = AmountRefunded(r)
  BY DEF AmountRefunded, Live, Units
<1>2. \A r \in Refs : AmountRefunded(r) \in Nat
  BY AmountsTyped DEF KeptInv, TypeInv
<1>3. MoneyTold
  BY <1>1, <1>2 DEF MoneyTold
<1> QED BY <1>1, <1>3 DEF KeptInv, RefundsNamed, KeysNamed

(* A step that leaves the tickets alone. *)
LEMMA SameTicketsClose == ASSUME KeptInv, UNCHANGED tickets PROVE TicketsClose
  BY DEF KeptInv, RefundsNamed, TicketsClose, Closed

(* Steps of nobody's handler. *)
LEMMA OutsideKept ==
  ASSUME KeptInv, TypeInv', TicketsClose, MoneyTold, KeysNamed, SessionsStay, due \subseteq due',
         UNCHANGED worker
  PROVE  KeptInv'
<1>1. TotalsKept /\ IssuesFrom
  BY DEF TotalsKept, IssuesFrom, Issuing
<1> QED BY <1>1, KeptStep

(* The handler goes on. *)
Alone == \A v, w \in Workers : v = w
LEMMA HandlerKept ==
  ASSUME KeptInv, TypeInv', Alone, NEW w \in Workers, TicketsClose, MoneyTold, KeysNamed,
         due \subseteq due', UNCHANGED session, KnowsOrder(w)',
         worker'[w].pc \in {"recover", "issue"} =>
           \/ (worker[w].pc \in {"recover", "issue"} /\ worker'[w].ref = worker[w].ref)
           \/ AmountRefunded(worker[w].ref)' = 0
  PROVE  KeptInv'
<1>1. TotalsKept /\ SessionsStay
  BY DEF TotalsKept, SessionsStay
<1>2. IssuesFrom
  <2> SUFFICES ASSUME NEW r \in Refs, Issuing(r)' PROVE Issuing(r) \/ AmountRefunded(r)' = 0
    BY DEF IssuesFrom
  <2>1. worker'[w].ref = r /\ worker'[w].pc \in {"recover", "issue"}
    BY DEF Issuing, Alone
  <2>2. CASE worker[w].pc \in {"recover", "issue"} /\ worker'[w].ref = worker[w].ref
    BY <2>1, <2>2 DEF Issuing
  <2>3. CASE AmountRefunded(worker[w].ref)' = 0
    BY <2>1, <2>3 DEF AmountRefunded, Live
  <2> QED BY <2>1, <2>2, <2>3
<1>3. \A v \in Workers : worker'[v] = worker[v] \/ KnowsOrder(v)'
  BY DEF Alone
<1> QED BY <1>1, <1>2, <1>3, KeptStep

(* The handler's next step, for the same event. *)
MovesTo(w, pc) ==
  worker'[w].pc = pc /\ worker'[w].ref = worker[w].ref /\ worker'[w].ev = worker[w].ev
LEMMA HandlerMoves ==
  ASSUME HandlersTyped, NEW w \in Workers
  PROVE  /\ \A pc : Goto(w, pc) => MovesTo(w, pc)
         /\ \A status, key, ok : ToSettle(w, status, key, ok) => MovesTo(w, "settle")
         /\ \A key, amt : ToRefund(w, key, amt) => MovesTo(w, "refund")
<1>1. worker \in [Workers -> HandlerState]
  BY DEF HandlersTyped
<1>2. ASSUME NEW pc, Goto(w, pc) PROVE MovesTo(w, pc)
  BY <1>1, <1>2 DEF Goto, MovesTo, HandlerState
<1>3. ASSUME NEW status, NEW key, NEW ok, ToSettle(w, status, key, ok) PROVE MovesTo(w, "settle")
  BY <1>1, <1>3 DEF ToSettle, MovesTo, HandlerState
<1>4. ASSUME NEW key, NEW amt, ToRefund(w, key, amt) PROVE MovesTo(w, "refund")
  BY <1>1, <1>4 DEF ToRefund, MovesTo, HandlerState
<1> QED BY <1>2, <1>3, <1>4

(* A step that needs to know nothing. *)
LEMMA PlainKept ==
  ASSUME KeptInv, TypeInv', Alone, NEW w \in Workers, NEW pc, MovesTo(w, pc),
         pc \notin {"recover", "issue"} \cup CancelSteps,
         worker[w].pc \notin {"reconcile"} \cup CancelSteps,
         TicketsClose, MoneyTold, KeysNamed, due \subseteq due', UNCHANGED session
  PROVE  KeptInv'
<1>1. KnowsOrder(w)'
  BY DEF KeptInv, KnowsOrder, MovesTo
<1> QED BY <1>1, HandlerKept DEF MovesTo

(* A handler ends, past the reconciliation if its event told of a total. *)
LEMMA FinishKept ==
  ASSUME KeptInv, TypeInv', Alone, NEW w \in Workers, NEW ok, Finish(w, ok),
         worker[w].pc # "reconcile", TicketsClose, UNCHANGED <<session, refunds>>
  PROVE  KeptInv'
<1>1. worker'[w] = Idle
  BY DEF Finish, KeptInv, TypeInv, HandlersTyped
<1>2. KnowsOrder(w)' /\ \A r : ~Issuing(r)'
  BY <1>1 DEF KnowsOrder, Idle, CancelSteps, Issuing, Alone
<1>3. TotalsKept
  <2> SUFFICES ASSUME NEW ev \in due, ev.type = "charge.refunded", ev \notin due'
               PROVE  Applied(ev.ref, ev.amt)' /\ ~Issuing(ev.ref)'
    BY DEF TotalsKept
  <2>1. ev = worker[w].ev
    BY DEF Finish
  <2>2. ev # None
    BY NoneAssumption DEF KeptInv, TypeInv, EventsTyped
  <2>3. worker[w].pc \in CancelSteps /\ ev.ref = worker[w].ref
    BY <2>1, <2>2 DEF KeptInv, KnowsOrder, TypeInv, HandlersTyped, Sound
  <2>4. Applied(ev.ref, ev.amt)
    BY <2>1, <2>3 DEF KeptInv, KnowsOrder
  <2>5. Applied(ev.ref, ev.amt)'
    BY <2>4, AppliedStays
  <2> QED BY <2>5, <1>2
<1>4. SessionsStay /\ IssuesFrom
  BY <1>2 DEF SessionsStay, IssuesFrom
<1>5. MoneyTold /\ KeysNamed
  BY NoRefundTold
<1>6. \A v \in Workers : worker'[v] = worker[v] \/ KnowsOrder(v)'
  BY <1>2 DEF Alone
<1> QED BY <1>3, <1>4, <1>5, <1>6, KeptStep

(* A new refund is told of by the event that comes with it. *)
LEMMA NewRefundTold ==
  ASSUME KeptInv, NEW r \in Refs, NEW f \in Refund, f.key.kind # "dispute",
         refunds' = [refunds EXCEPT ![r] = @ \cup {f}],
         Send({ChargeRefunded(r, AmountRefunded(r) + f.amt)})
  PROVE  MoneyTold /\ KeysNamed /\ due \subseteq due'
<1> USE DEF KeptInv, TypeInv
<1>1. /\ \A q \in Refs : AmountRefunded(q)' \in Nat
      /\ \A q \in Refs : q # r => AmountRefunded(q)' = AmountRefunded(q)
      /\ AmountRefunded(r)' <= AmountRefunded(r) + f.amt
  BY RefundRaises
<1>2. \A q \in Refs : AmountRefunded(q) \in Nat
  BY AmountsTyped
<1>3. f.amt \in Nat
  BY CapacityAssumption DEF Refund
<1> DEFINE ev == ChargeRefunded(r, AmountRefunded(r) + f.amt)
<1>4. ev.type = "charge.refunded" /\ ev.ref = r /\ ev.amt = AmountRefunded(r) + f.amt
  BY DEF ChargeRefunded
<1>5. ev \in due' /\ due \subseteq due'
  BY DEF Send
<1> HIDE DEF ev
<1>6. PICK e \in due' : e = ev
  BY <1>5
<1>7. e.amt >= AmountRefunded(r)'
  BY <1>1, <1>2, <1>3, <1>4, <1>6
<1>8. TellsTotal(r, e)'
  BY <1>4, <1>6, <1>7 DEF TellsTotal
<1>9. MoneyTold
  BY <1>1, <1>2, <1>6, <1>8 DEF MoneyTold
<1>10. KeysNamed
  BY DEF KeysNamed, RefundsNamed, MoneyTyped
<1> QED BY <1>5, <1>9, <1>10

(* So is a refund by a handler. *)
LEMMA StripeRefundTold ==
  ASSUME KeptInv, NEW r \in Refs, NEW key \in RefundKey, key.kind # "dispute", NEW amt,
         NEW f \in Refund, StripeRefund(r, key, amt, f)
  PROVE  MoneyTold /\ KeysNamed /\ due \subseteq due'
<1>1. CASE f \in refunds[r] /\ f.key = key /\ UNCHANGED <<refunds, hooks>>
  <2>1. UNCHANGED refunds /\ due' = due
    BY <1>1 DEF hooks
  <2> QED BY <2>1, NoRefundTold
<1>2. CASE /\ Chargeable(r, key, amt)
           /\ f \in [key : {key}, amt : {amt}, status : RefundStarts]
           /\ refunds' = [refunds EXCEPT ![r] = @ \cup {f}]
           /\ Send({ChargeRefunded(r, AmountRefunded(r) + amt)})
  <2>1. f.key = key /\ f.amt = amt
    BY <1>2
  <2> QED BY <1>2, <2>1, NewRefundTold
<1> QED BY <1>1, <1>2 DEF StripeRefund

(* Buyers and time: no payment is taken back. *)
LEMMA BuyerKept ==
  ASSUME KeptInv, TypeInv', Alone, NEW r \in Refs, Buyer(r)
  PROVE  KeptInv'
<1> USE DEF KeptInv, TypeInv
<1>1. UNCHANGED <<tickets, refunds>>
  BY DEF Buyer, StartCheckout, CreateSession, CreateFails, PersistSession, PersistFails, Pay, Nudge,
         db, stripe
<1>2. due \subseteq due'
  BY DEF Buyer, StartCheckout, CreateSession, CreateFails, PersistSession, PersistFails, Pay, Nudge,
         hooks, Send
<1>3. TicketsClose /\ MoneyTold /\ KeysNamed
  BY <1>1, SameTicketsClose, NoRefundTold
<1>4. CASE \/ StartCheckout(r) \/ CreateSession(r) \/ CreateFails(r) \/ PersistSession(r)
           \/ PersistFails(r) \/ Pay(r)
  <2>1. UNCHANGED worker
    BY <1>4 DEF StartCheckout, CreateSession, CreateFails, PersistSession, PersistFails, Pay
  <2>2. session' = session \/ (session[r] # "paid" /\ \E s : session' = [session EXCEPT ![r] = s])
    BY <1>4 DEF StartCheckout, CreateSession, CreateFails, PersistSession, PersistFails, Pay, stripe
  <2>3. SessionsStay
    BY <2>2 DEF SessionsStay, MoneyTyped
  <2> QED BY <1>2, <1>3, <2>1, <2>3, OutsideKept
<1>5. ASSUME NEW w \in Workers, Nudge(w, r) PROVE KeptInv'
  <2>1. worker'[w].pc = "claim" /\ worker'[w].ev = None
    BY <1>5 DEF Nudge, Idle, HandlersTyped
  <2>2. UNCHANGED session
    BY <1>5 DEF Nudge, stripe
  <2>3. KnowsOrder(w)'
    BY <2>1 DEF KnowsOrder, CancelSteps
  <2> QED BY <1>2, <1>3, <2>1, <2>2, <2>3, HandlerKept
<1> QED BY <1>4, <1>5 DEF Buyer

(* Stripe. *)
LEMMA ProviderKept ==
  ASSUME KeptInv, TypeInv', NEW r \in Refs, Provider(r)
  PROVE  KeptInv'
<1> USE DEF KeptInv, TypeInv
<1>1. UNCHANGED <<tickets, worker>>
  BY DEF Provider, AsyncPayment, Lapse, GrowStale, DashboardRefund, RefundSettles, OpenDispute,
         WinDispute, db
<1>2. TicketsClose
  BY <1>1, SameTicketsClose
<1>3. session' = session \/ (session[r] # "paid" /\ \E s : session' = [session EXCEPT ![r] = s])
  BY DEF Provider, AsyncPayment, Lapse, GrowStale, DashboardRefund, RefundSettles, OpenDispute,
         WinDispute, stripe
<1>4. SessionsStay
  BY <1>3 DEF SessionsStay, MoneyTyped
<1>5. CASE DashboardRefund(r)
  <2>1. PICK amt \in 1..Balance(r), s \in RefundStarts :
          /\ refunds' = [refunds EXCEPT ![r] =
               @ \cup {[key |-> Key("dashboard", AmountRefunded(r)), amt |-> amt, status |-> s]}]
          /\ Send({ChargeRefunded(r, AmountRefunded(r) + amt)})
    BY <1>5 DEF DashboardRefund
  <2> DEFINE f == [key |-> Key("dashboard", AmountRefunded(r)), amt |-> amt, status |-> s]
  <2>2. Key("dashboard", AmountRefunded(r)) \in RefundKey /\ amt \in 1..MaxQty
    BY AmountsTyped DEF Key, RefundKey
  <2>3. s \in {"pending", "succeeded"}
    BY CheckoutAssumption
  <2>4. f \in Refund /\ f.amt = amt /\ f.key.kind # "dispute"
    BY <2>2, <2>3 DEF Refund, Key
  <2>5. refunds' = [refunds EXCEPT ![r] = @ \cup {f}]
    BY <2>1
  <2> HIDE DEF f
  <2>6. MoneyTold /\ KeysNamed /\ due \subseteq due'
    BY <2>1, <2>4, <2>5, NewRefundTold
  <2> QED BY <1>1, <1>2, <1>4, <2>6, OutsideKept
<1>6. CASE RefundSettles(r)
  <2>1. PICK f \in refunds[r], s \in {"succeeded", "failed"} :
          /\ f.status = "pending"
          /\ refunds' = [refunds EXCEPT ![r] = (@ \ {f}) \cup {[f EXCEPT !.status = s]}]
    BY <1>6 DEF RefundSettles
  <2>2. /\ \A q \in Refs : AmountRefunded(q)' <= AmountRefunded(q)
        /\ \A g \in refunds'[r] : \E h \in refunds[r] : g.key = h.key
    BY <2>1, SettlingLowers
  <2>3. \A q \in Refs : q # r => refunds'[q] = refunds[q]
    BY <2>1 DEF MoneyTyped
  <2>4. MoneyTold /\ KeysNamed
    BY <2>2, <2>3 DEF MoneyTold, KeysNamed, RefundsNamed
  <2>5. due \subseteq due'
    BY <1>6 DEF RefundSettles, Send
  <2> QED BY <1>1, <1>2, <1>4, <2>4, <2>5, OutsideKept
<1>7. CASE AsyncPayment(r) \/ Lapse(r) \/ GrowStale(r) \/ OpenDispute(r) \/ WinDispute(r)
  <2>1. UNCHANGED refunds
    BY <1>7 DEF AsyncPayment, Lapse, GrowStale, OpenDispute, WinDispute, stripe
  <2>2. due \subseteq due'
    BY <1>7 DEF AsyncPayment, Lapse, GrowStale, OpenDispute, WinDispute, hooks, Send
  <2>3. MoneyTold /\ KeysNamed
    BY <2>1, NoRefundTold
  <2> QED BY <1>1, <1>2, <1>4, <2>2, <2>3, OutsideKept
<1> QED BY <1>5, <1>6, <1>7 DEF Provider

(* An event comes: one that tells of a total is reconciled first. *)
LEMMA DeliverKept ==
  ASSUME KeptInv, TypeInv', Alone, NEW w \in Workers, NEW ev \in sent, Deliver(w, ev)
  PROVE  KeptInv'
<1> USE DEF KeptInv, TypeInv
<1>1. UNCHANGED <<tickets, refunds, session>> /\ due \subseteq due'
  BY DEF Deliver, db, stripe, Arrives, hooks
<1>2. TicketsClose /\ MoneyTold /\ KeysNamed
  BY <1>1, SameTicketsClose, NoRefundTold
<1>3. worker'[w].pc = FirstStep(ev.type) /\ worker'[w].ev = ev
  BY DEF Deliver, Idle, HandlersTyped
<1>4. ev.type \in {"completed", "async_succeeded", "expired", "dispute.created", "dispute.won",
                   "charge.refunded", "refund.updated"}
  BY DEF EventsTyped, Event
<1>5. /\ FirstStep(ev.type) \in {"claim", "expire", "reconcile", "refundRow", "disputeRow", "restore"}
      /\ ev.type = "charge.refunded" => FirstStep(ev.type) = "reconcile"
  BY <1>4 DEF FirstStep
<1>6. KnowsOrder(w)'
  BY <1>3, <1>5 DEF KnowsOrder, CancelSteps
<1>7. worker'[w].pc \notin {"recover", "issue"}
  BY <1>3, <1>5
<1> QED BY <1>1, <1>2, <1>6, <1>7, HandlerKept

(* A handler dies, or a call of it fails. *)
LEMMA FaultKept ==
  ASSUME KeptInv, TypeInv', Alone, NEW w \in Workers, Fault(w)
  PROVE  KeptInv'
<1> USE DEF KeptInv, TypeInv
<1>1. UNCHANGED <<tickets, refunds, session>>
  BY DEF Fault, Crash, RetrieveFails, IssueThrows, RefundFails, db, stripe
<1>2. TicketsClose /\ MoneyTold /\ KeysNamed
  BY <1>1, SameTicketsClose, NoRefundTold
<1>3. CASE Crash(w)
  <2>1. worker'[w] = Idle /\ due' = due
    BY <1>3 DEF Crash, hooks, HandlersTyped
  <2>2. KnowsOrder(w)' /\ worker'[w].pc \notin {"recover", "issue"}
    BY <2>1 DEF KnowsOrder, Idle, CancelSteps
  <2> QED BY <1>1, <1>2, <2>1, <2>2, HandlerKept
<1>4. CASE RetrieveFails(w)
  <2>1. MovesTo(w, "settle") /\ due' = due /\ worker[w].pc = "retrieve"
    BY <1>4, HandlerMoves DEF RetrieveFails, hooks, At
  <2>2. "settle" \notin {"recover", "issue"} \cup CancelSteps /\ worker[w].pc \notin {"reconcile"} \cup CancelSteps
    BY <2>1 DEF CancelSteps
  <2> QED BY <1>1, <1>2, <2>1, <2>2, PlainKept
<1>5. CASE IssueThrows(w)
  <2>1. MovesTo(w, "release") /\ due' = due /\ worker[w].pc = "issue"
    BY <1>5, HandlerMoves DEF IssueThrows, hooks, At
  <2>2. "release" \notin {"recover", "issue"} \cup CancelSteps /\ worker[w].pc \notin {"reconcile"} \cup CancelSteps
    BY <2>1 DEF CancelSteps
  <2> QED BY <1>1, <1>2, <2>1, <2>2, PlainKept
<1>6. CASE RefundFails(w) /\ At(w, "refund")
  <2>1. MovesTo(w, "settle") /\ due' = due /\ worker[w].pc = "refund"
    BY <1>6, HandlerMoves DEF RefundFails, hooks, At
  <2>2. "settle" \notin {"recover", "issue"} \cup CancelSteps /\ worker[w].pc \notin {"reconcile"} \cup CancelSteps
    BY <2>1 DEF CancelSteps
  <2> QED BY <1>1, <1>2, <2>1, <2>2, PlainKept
<1>7. CASE RefundFails(w) /\ At(w, "cancelRefund")
  <2>1. Finish(w, FALSE) /\ worker[w].pc # "reconcile"
    BY <1>7 DEF RefundFails, At
  <2> QED BY <1>1, <1>2, <2>1, FinishKept
<1> QED BY <1>3, <1>4, <1>5, <1>6, <1>7 DEF Fault, RefundFails

(* New tickets leave the other orders alone. *)
LEMMA InsertElsewhere ==
  ASSUME KeptInv, NEW ids \in SUBSET Unused, NEW ty, NEW who, NEW ref \in Refs \cup {None},
         Insert(ids, ty, who, ref)
  PROVE  /\ \A q \in Refs : q # ref =>
              OrderTickets(q)' = OrderTickets(q) /\ \A n : Applied(q, n) => Applied(q, n)'
         /\ ref \in Refs => OrderTickets(ref)' = OrderTickets(ref) \cup ids
         /\ Unissued'
         /\ \A t \in TicketIds : tickets'[t].status = "refunded" => tickets'[t].refund # DisputeRef
<1> USE DEF KeptInv
<1>1. /\ ids \subseteq TicketIds /\ \A t \in ids : tickets[t].status = "none"
      /\ \A t \in TicketIds \ ids : tickets'[t] = tickets[t]
      /\ \A t \in ids : tickets'[t].status = "valid" /\ tickets'[t].ref = ref
  BY DEF Insert, Unused
<1>2. \A t \in ids : tickets[t].ref \notin Refs
  BY <1>1 DEF Unissued
<1>3. ASSUME NEW q \in Refs, q # ref
      PROVE  OrderTickets(q)' = OrderTickets(q) /\ \A n : Applied(q, n) => Applied(q, n)'
  <2>1. OrderTickets(q)' = OrderTickets(q)
    BY <1>1, <1>2, <1>3 DEF OrderTickets
  <2>2. \A t \in OrderTickets(q) : tickets'[t] = tickets[t]
    BY <1>1, <1>2 DEF OrderTickets
  <2>3. ASSUME NEW n, Applied(q, n) PROVE Applied(q, n)'
    <3>1. Covered(q, n)' = Covered(q, n)
      BY <2>1 DEF Covered
    <3>2. Covered(q, n) \subseteq OrderTickets(q)
      BY DEF Covered
    <3> QED BY <2>2, <2>3, <3>1, <3>2 DEF Applied, Closed
  <2> QED BY <2>1, <2>3
<1>4. ref \in Refs => OrderTickets(ref)' = OrderTickets(ref) \cup ids
  BY <1>1, <1>2 DEF OrderTickets
<1>5. Unissued'
  BY <1>1 DEF Unissued
<1>6. \A t \in TicketIds : tickets'[t].status = "refunded" => tickets'[t].refund # DisputeRef
  BY <1>1 DEF RefundsNamed
<1> QED BY <1>3, <1>4, <1>5, <1>6

(* An order is issued to a payment that has none, and whatever it returned *)
(* by then is still to be told of.                                         *)
LEMMA IssueKept ==
  ASSUME KeptInv, TypeInv', Alone, NEW w \in Workers, Issue(w), ~UNCHANGED tickets
  PROVE  KeptInv'
<1> USE DEF KeptInv, TypeInv
<1>1. PICK r \in Refs : r = worker[w].ref
  BY DEF Issue, At, HandlersTyped, Sound
<1>2. PICK ids \in SUBSET Unused : Fresh(ids, QtyOf[r]) /\ Insert(ids, TypeOf[r], BuyerOf[r], r)
  BY <1>1 DEF Issue
<1>3. /\ worker[w].pc = "issue" /\ Goto(w, "record") /\ UNCHANGED <<refunds, session>>
      /\ due' = due
  BY DEF Issue, At, stripe, hooks
<1>4. MovesTo(w, "record")
  BY <1>3, HandlerMoves
<1>5. session[r] = "paid" /\ OrderTickets(r) = {} /\ Issuing(r)
      /\ (worker[w].ev # None => worker[w].ev.type # "charge.refunded")
  BY <1>1, <1>3 DEF KnowsOrder, Issuing, CancelSteps
<1>6. /\ \A q \in Refs : q # r =>
           OrderTickets(q)' = OrderTickets(q) /\ \A n : Applied(q, n) => Applied(q, n)'
      /\ OrderTickets(r)' = OrderTickets(r) \cup ids
      /\ Unissued'
      /\ \A t \in TicketIds : tickets'[t].status = "refunded" => tickets'[t].refund # DisputeRef
  BY <1>2, InsertElsewhere
<1>7. MoneyTold /\ KeysNamed /\ TotalsKept /\ \A q : AmountRefunded(q)' = AmountRefunded(q)
  BY <1>3, NoRefundTold DEF TotalsKept
<1>8. OrdersWhole'
  <2>1. Cardinality(OrderTickets(r)') = QtyOf[r]
    BY <1>2, <1>5, <1>6 DEF Fresh
  <2> QED BY <1>3, <1>5, <1>6, <2>1 DEF OrdersWhole
<1>9. RefundsNamed'
  BY <1>6, <1>7 DEF RefundsNamed, KeysNamed
<1>10. KnowsOrder(w)' /\ \A q : ~Issuing(q)'
  BY <1>4, <1>5 DEF MovesTo, KnowsOrder, CancelSteps, Issuing, Alone
<1>11. ASSUME NEW q \in Refs PROVE Told(q)'
  <2>1. CASE q # r
    BY <2>1, <1>6, <1>7, <1>10, ToldKept
  <2>2. CASE q = r
    <3>1. AmountRefunded(r) = 0 \/ \E ev \in due : TellsTotal(r, ev)
      BY <1>5 DEF Told
    <3>2. AmountRefunded(r)' = 0 \/ \E ev \in due' : TellsTotal(r, ev)'
      BY <3>1, <1>3, <1>7 DEF TellsTotal
    <3> QED BY <2>2, <3>2 DEF Told
  <2> QED BY <2>1, <2>2
<1>12. \A v \in Workers : KnowsOrder(v)'
  BY <1>10 DEF Alone
<1> QED BY <1>6, <1>8, <1>9, <1>11, <1>12

(* fulfilCheckout. *)
LEMMA FulfilKept ==
  ASSUME KeptInv, TypeInv', Alone, NEW w \in Workers, Fulfil(w)
  PROVE  KeptInv'
<1> USE DEF KeptInv, TypeInv
<1> DEFINE r == worker[w].ref
<1>1. CASE Issue(w) /\ ~UNCHANGED tickets
  BY <1>1, IssueKept
<1>2. CASE RefundPayment(w)
  <2>1. UNCHANGED <<tickets, session>> /\ worker[w].pc = "refund"
    BY <1>2 DEF RefundPayment, db, At
  <2>2. PICK f \in Refund : StripeRefund(r, worker[w].key, RefundAmount(w), f)
    BY <1>2 DEF RefundPayment
  <2>3. r \in Refs /\ worker[w].key \in RefundKey /\ worker[w].key.kind # "dispute"
    BY <2>1 DEF HandlersTyped, Sound
  <2>4. MoneyTold /\ KeysNamed /\ due \subseteq due'
    BY <2>2, <2>3, StripeRefundTold
  <2>5. MovesTo(w, "settle")
    BY <1>2, HandlerMoves DEF RefundPayment
  <2>6. "settle" \notin {"recover", "issue"} \cup CancelSteps /\ worker[w].pc \notin {"reconcile"} \cup CancelSteps
    BY <2>1 DEF CancelSteps
  <2>7. TicketsClose
    BY <2>1, SameTicketsClose
  <2> QED BY <2>1, <2>4, <2>5, <2>6, <2>7, PlainKept
<1>3. CASE \/ Claim(w) \/ Retrieve(w) \/ Recover(w) \/ (Issue(w) /\ UNCHANGED tickets) \/ Release(w)
           \/ RefundPaymentRefused(w) \/ Settle(w) \/ Record(w)
  <2>1. UNCHANGED <<tickets, refunds, session>>
    BY <1>3 DEF Claim, Retrieve, Recover, Issue, Release, RefundPaymentRefused, Settle, Record, db, stripe
  <2>2. TicketsClose /\ MoneyTold /\ KeysNamed
    BY <2>1, SameTicketsClose, NoRefundTold
  <2>3. worker[w].pc \in ClaimantSteps \cup {"claim"}
    BY <1>3 DEF Claim, Retrieve, Recover, Issue, Release, RefundPaymentRefused, Settle, Record, At, ClaimantSteps
  <2>4. worker[w].pc # "reconcile" /\ worker[w].pc \notin {"reconcile"} \cup CancelSteps
    BY <2>3 DEF CancelSteps, ClaimantSteps
  <2>5. CASE \E ok : Finish(w, ok)
    BY <2>1, <2>2, <2>4, <2>5, FinishKept
  <2>6. CASE due' = due /\ \E pc \in {"retrieve", "settle", "refund", "record"} : MovesTo(w, pc)
    <3>1. PICK pc \in {"retrieve", "settle", "refund", "record"} : MovesTo(w, pc)
      BY <2>6
    <3>2. pc \notin {"recover", "issue"} \cup CancelSteps
      BY DEF CancelSteps
    <3> QED BY <2>1, <2>2, <2>4, <2>6, <3>1, <3>2, PlainKept
  <2>7. CASE Retrieve(w) /\ Goto(w, "recover")
    <3>1. MovesTo(w, "recover") /\ due' = due
      BY <2>7, HandlerMoves DEF Retrieve, hooks
    <3>2. CASE session[r] = "paid" /\ Live(r) = {}
      <4>1. Units(Live(r)) = {}
        BY <3>2 DEF Units
      <4>2. AmountRefunded(r) = 0
        BY <4>1, FS_EmptySet DEF AmountRefunded
      <4>4. KnowsOrder(w)'
        BY <3>1, <3>2, <2>1, <2>4 DEF KnowsOrder, MovesTo, CancelSteps
      <4>5. AmountRefunded(worker[w].ref)' = 0
        BY <4>2, <2>1, <3>1 DEF AmountRefunded, Live, Units, MovesTo
      <4> QED BY <2>1, <2>2, <3>1, <4>4, <4>5, HandlerKept
    <3>3. CASE ~(session[r] = "paid" /\ Live(r) = {})
      <4>1. \/ \E s, k, o : ToSettle(w, s, k, o)
            \/ \E k, a : ToRefund(w, k, a)
        BY <2>7, <3>3 DEF Retrieve
      <4>2. MovesTo(w, "settle") \/ MovesTo(w, "refund")
        BY <4>1, HandlerMoves
      <4> QED BY <3>1, <4>2 DEF MovesTo
    <3> QED BY <3>2, <3>3
  <2>8. CASE Recover(w) /\ OrderTickets(r) = {}
    <3>1. MovesTo(w, "issue") /\ due' = due /\ worker[w].pc = "recover"
      BY <2>8, HandlerMoves DEF Recover, hooks, At
    <3>2. session[r] = "paid"
      BY <3>1 DEF KnowsOrder
    <3>3. KnowsOrder(w)'
      <4>1. OrderTickets(worker[w].ref)' = {}
        BY <2>1, <2>8, <3>1 DEF OrderTickets, MovesTo
      <4> QED BY <2>1, <3>1, <3>2, <4>1, <2>4 DEF KnowsOrder, MovesTo, CancelSteps
    <3> QED BY <2>1, <2>2, <3>1, <3>3, HandlerKept DEF MovesTo
  <2>9. CASE Claim(w)
    <3>1. (Goto(w, "retrieve") /\ due' = due) \/ \E ok : Finish(w, ok)
      BY <2>9 DEF Claim, hooks
    <3> QED BY <3>1, <2>5, <2>6, HandlerMoves
  <2>10. CASE Retrieve(w)
    <3>1. \/ \E s, k, o : ToSettle(w, s, k, o)
          \/ \E k, a : ToRefund(w, k, a)
          \/ Goto(w, "recover")
      BY <2>10 DEF Retrieve
    <3>2. due' = due
      BY <2>10 DEF Retrieve, hooks
    <3> QED BY <3>1, <3>2, <2>10, <2>6, <2>7, HandlerMoves
  <2>11. CASE Recover(w)
    <3>1. CASE OrderTickets(r) = {}
      BY <3>1, <2>11, <2>8
    <3>2. CASE OrderTickets(r) # {}
      <4>1. Goto(w, "record") /\ due' = due
        BY <2>11, <3>2 DEF Recover, hooks
      <4> QED BY <4>1, <2>6, HandlerMoves
    <3> QED BY <3>1, <3>2
  <2>12. CASE Issue(w) /\ UNCHANGED tickets
    <3>1. due' = due /\ (Goto(w, "record") \/ \E k, a : ToRefund(w, k, a))
      BY <2>12 DEF Issue, hooks
    <3> QED BY <3>1, <2>6, HandlerMoves
  <2>13. CASE Release(w) \/ Settle(w) \/ Record(w)
    <3>1. \E ok : Finish(w, ok)
      BY <2>13 DEF Release, Settle, Record
    <3> QED BY <3>1, <2>5
  <2>14. CASE RefundPaymentRefused(w)
    <3>1. due' = due /\ \E s, k, o : ToSettle(w, s, k, o)
      BY <2>14 DEF RefundPaymentRefused, hooks
    <3> QED BY <3>1, <2>6, HandlerMoves
  <2> QED BY <1>3, <2>9, <2>10, <2>11, <2>12, <2>13, <2>14
<1> QED BY <1>1, <1>2, <1>3 DEF Fulfil

(* A reconciliation closes every ticket up to its total, and opens none. *)
LEMMA ReconcileCloses ==
  ASSUME KeptInv, NEW r \in Refs, NEW total \in Nat, ReconcileTickets(r, total)
  PROVE  TicketsClose /\ Applied(r, total)'
<1> USE DEF KeptInv, TypeInv
<1>1. PICK key \in RefundKey :
        /\ LastRefund(r, key)
        /\ tickets' = [t \in TicketIds |->
             IF t \in Covered(r, total) /\ tickets[t].status # "refunded"
               THEN [tickets[t] EXCEPT !.status = "refunded", !.refund = key]
               ELSE tickets[t]]
  BY DEF ReconcileTickets
<1>2. key # DisputeRef
  <2>1. CASE SucceededRefunds(r) = {}
    <3>1. key = Key("intent", 0)
      BY <1>1, <2>1 DEF LastRefund
    <3>2. key.kind = "intent" /\ DisputeRef.kind = "dispute"
      BY <3>1 DEF Key, DisputeRef
    <3> QED BY <3>2
  <2>2. CASE SucceededRefunds(r) # {}
    <3>1. PICK f \in refunds[r] : key = f.key
      BY <1>1, <2>2 DEF LastRefund, SucceededRefunds
    <3>2. key.kind # "dispute"
      BY <3>1 DEF RefundsNamed
    <3> QED BY <3>2 DEF DisputeRef, Key
  <2> QED BY <2>1, <2>2
<1>3. ASSUME NEW t \in TicketIds
      PROVE  /\ tickets'[t].ref = tickets[t].ref
             /\ tickets'[t].status = "none" <=> tickets[t].status = "none"
             /\ Closed(t) => Closed(t)'
             /\ tickets'[t].status = "refunded" => tickets'[t].refund # DisputeRef
             /\ t \in Covered(r, total) => Closed(t)'
  <2>0. tickets[t] \in TicketRow
    BY DEF DbTyped
  <2>1. CASE t \in Covered(r, total) /\ tickets[t].status # "refunded"
    <3>1. tickets[t].status # "none"
      BY <2>1 DEF Covered, OrderTickets, Unissued
    <3>2. /\ tickets'[t].status = "refunded" /\ tickets'[t].refund = key
          /\ tickets'[t].ref = tickets[t].ref
      BY <1>1, <2>0, <2>1 DEF TicketRow
    <3> QED BY <1>2, <3>1, <3>2 DEF Closed
  <2>2. CASE ~(t \in Covered(r, total) /\ tickets[t].status # "refunded")
    <3>1. tickets'[t] = tickets[t]
      BY <1>1, <2>2
    <3> QED BY <2>2, <3>1 DEF Closed, RefundsNamed
  <2> QED BY <2>1, <2>2
<1>4. TicketsClose
  BY <1>3 DEF TicketsClose
<1>5. Covered(r, total)' = Covered(r, total)
  BY <1>4, AppliedStays DEF Covered
<1>6. Covered(r, total) \subseteq TicketIds
  BY DEF Covered, OrderTickets
<1> QED BY <1>3, <1>4, <1>5, <1>6 DEF Applied

(* charge.refunded, refund.updated and the expiry of a checkout. *)
LEMMA CancelKept ==
  ASSUME KeptInv, TypeInv', Alone, NEW w \in Workers, Cancel(w)
  PROVE  KeptInv'
<1> USE DEF KeptInv, TypeInv
<1> DEFINE r == worker[w].ref
<1>0. /\ Sound(worker[w], sent) /\ worker[w] \in HandlerState
      /\ worker \in [Workers -> HandlerState] /\ KnowsOrder(w)
  BY DEF HandlersTyped
<1>1. CASE Reconcile(w)
  <2>1. /\ r \in Refs /\ worker[w].ev \in Event /\ worker[w].ev # None
        /\ worker[w].ev.type = "charge.refunded" /\ worker[w].pc = "reconcile"
    BY <1>0, <1>1 DEF Reconcile, At, Sound, EventsTyped
  <2>2. worker[w].ev.amt \in 0..MaxQty
    BY <2>1 DEF Event
  <2>3. PICK q \in Refs, n \in 0..MaxQty : q = r /\ n = worker[w].ev.amt
    BY <2>1, <2>2
  <2>4. PICK total \in Nat : total = RefundTotal(q, n)
    BY TotalTyped
  <2>5. ReconcileTickets(q, total) /\ UNCHANGED <<session, refunds>> /\ due' = due
    BY <1>1, <2>3, <2>4 DEF Reconcile, stripe, hooks
  <2>6. TicketsClose /\ Applied(q, total)'
    BY <2>5, ReconcileCloses
  <2>7. n \in Nat /\ n <= total
    <3>1. SucceededRefunds(q) \in SUBSET refunds[q] /\ IsFiniteSet(refunds[q])
      BY AmountsTyped DEF SucceededRefunds
    <3>2. Cardinality(Units(SucceededRefunds(q))) \in Nat
      BY <3>1, FS_Subset, UnitsFinite
    <3> QED BY <3>2, <2>4, CapacityAssumption DEF RefundTotal, Larger
  <2>8. Applied(q, n)'
    BY <2>6, <2>7, AppliedToFewerNext
  <2>9. /\ worker'[w].pc = "cancelFind" /\ worker'[w].ref = worker[w].ref
        /\ worker'[w].ev = worker[w].ev
    BY <1>0, <1>1 DEF Reconcile, HandlerState
  <2>10. Applied(worker[w].ref, worker[w].ev.amt)'
    BY <2>3, <2>8, <2>9 DEF Applied, Covered, OrderTickets
  <2>11. KnowsOrder(w)'
    BY <2>1, <2>9, <2>10 DEF KnowsOrder, CancelSteps
  <2>12. MoneyTold /\ KeysNamed
    BY <2>5, NoRefundTold
  <2> QED BY <2>5, <2>6, <2>9, <2>11, <2>12, HandlerKept
<1>2. ASSUME TicketsClose, MoneyTold, KeysNamed, due \subseteq due', UNCHANGED session,
             worker[w].pc \in CancelSteps, NEW pc \in CancelSteps, MovesTo(w, pc)
      PROVE  KeptInv'
  <2>1. PICK q, n : q = worker[w].ref /\ n = worker[w].ev.amt
    OBVIOUS
  <2>2. Applied(q, n)
    BY <1>0, <1>2, <2>1 DEF KnowsOrder
  <2>3. Applied(q, n)'
    BY <1>2, <2>2, AppliedStays
  <2>4. Applied(worker[w].ref, worker[w].ev.amt)'
    BY <1>2, <2>1, <2>3 DEF Applied, Covered, OrderTickets, MovesTo
  <2>5. KnowsOrder(w)' /\ worker'[w].pc \notin {"recover", "issue"}
    BY <1>0, <1>2, <2>4 DEF KnowsOrder, MovesTo, CancelSteps
  <2> QED BY <1>2, <2>5, HandlerKept
<1>3. CASE CancelRefund(w)
  <2>1. UNCHANGED <<tickets, session>> /\ worker[w].pc = "cancelRefund"
    BY <1>3 DEF CancelRefund, db, At
  <2>2. PICK f \in Refund :
          /\ StripeRefund(r, worker[w].key, worker[w].amt, f)
          /\ worker' = [worker EXCEPT ![w].pc = "cancelWrite",
               ![w].to = IF f.status = "succeeded" THEN "refunded" ELSE "refund_pending"]
    BY <1>3 DEF CancelRefund
  <2>3. r \in Refs /\ worker[w].key \in RefundKey /\ worker[w].key.kind # "dispute"
    BY <1>0, <2>1 DEF Sound
  <2>4. MoneyTold /\ KeysNamed /\ due \subseteq due'
    BY <2>2, <2>3, StripeRefundTold
  <2>5. MovesTo(w, "cancelWrite")
    BY <1>0, <2>2 DEF MovesTo, HandlerState
  <2>6. TicketsClose
    BY <2>1, SameTicketsClose
  <2> QED BY <1>2, <2>1, <2>4, <2>5, <2>6 DEF CancelSteps
<1>4. CASE \/ ExpireCheckout(w) \/ CancelFind(w) \/ CancelRefundRefused(w) \/ CancelWrite(w)
           \/ RefundRow(w)
  <2>1. UNCHANGED <<tickets, refunds, session>>
    BY <1>4 DEF ExpireCheckout, CancelFind, CancelRefundRefused, CancelWrite, RefundRow, db, stripe
  <2>2. TicketsClose /\ MoneyTold /\ KeysNamed
    BY <2>1, SameTicketsClose, NoRefundTold
  <2>3. worker[w].pc # "reconcile"
    BY <1>4 DEF ExpireCheckout, CancelFind, CancelRefundRefused, CancelWrite, RefundRow, At
  <2>4. CASE \E ok : Finish(w, ok)
    BY <2>1, <2>2, <2>3, <2>4, FinishKept
  <2>5. CASE RefundRow(w)
    <3>1. MovesTo(w, "refundTickets") /\ due' = due /\ worker[w].pc = "refundRow"
      BY <2>5, HandlerMoves DEF RefundRow, hooks, At
    <3>2. "refundTickets" \notin {"recover", "issue"} \cup CancelSteps /\ worker[w].pc \notin {"reconcile"} \cup CancelSteps
      BY <3>1 DEF CancelSteps
    <3> QED BY <2>1, <2>2, <3>1, <3>2, PlainKept
  <2>6. CASE CancelFind(w) /\ ~(\E ok : Finish(w, ok))
    <3>1. due' = due /\ worker[w].pc = "cancelFind"
      BY <2>6 DEF CancelFind, hooks, At
    <3>2. MovesTo(w, "cancelRefund") \/ MovesTo(w, "cancelWrite")
      BY <1>0, <2>6 DEF CancelFind, MovesTo, HandlerState
    <3>3. "cancelRefund" \in CancelSteps /\ "cancelWrite" \in CancelSteps /\ worker[w].pc \in CancelSteps
      BY <3>1 DEF CancelSteps
    <3> QED BY <1>2, <2>1, <2>2, <3>1, <3>2, <3>3
  <2>7. CASE ExpireCheckout(w) \/ CancelRefundRefused(w) \/ CancelWrite(w)
    <3>1. \E ok : Finish(w, ok)
      BY <2>7 DEF ExpireCheckout, CancelRefundRefused, CancelWrite
    <3> QED BY <3>1, <2>4
  <2> QED BY <1>4, <2>4, <2>5, <2>6, <2>7
<1>5. CASE RefundTickets(w)
  <2>1. UNCHANGED <<refunds, session>> /\ Finish(w, TRUE) /\ worker[w].pc = "refundTickets"
    BY <1>5 DEF RefundTickets, stripe, At
  <2>2. CASE ReconcileTickets(r, RefundTotal(r, 0))
    <3>1. r \in Refs
      BY <1>0, <2>1 DEF Sound
    <3>2. RefundTotal(r, 0) \in Nat
      BY <3>1, TotalTyped, CapacityAssumption
    <3>3. TicketsClose
      BY <2>2, <3>1, <3>2, ReconcileCloses
    <3> QED BY <2>1, <3>3, FinishKept
  <2>3. CASE tickets' = [t \in TicketIds |->
               IF /\ t \in OrderTickets(r) /\ tickets[t].refund = worker[w].ev.key
                  /\ tickets[t].status = "refunded"
                 THEN [tickets[t] EXCEPT !.status = "void"] ELSE tickets[t]]
    <3>1. \A t \in TicketIds : tickets[t] \in TicketRow
      BY DEF DbTyped
    <3>2. TicketsClose
      BY <2>3, <3>1 DEF TicketsClose, Closed, TicketRow, RefundsNamed
    <3> QED BY <2>1, <3>2, FinishKept
  <2> QED BY <1>5, <2>2, <2>3 DEF RefundTickets
<1> QED BY <1>1, <1>3, <1>4, <1>5 DEF Cancel

(* Disputes void valid tickets and restore the ones they voided. *)
LEMMA ChargebackKept ==
  ASSUME KeptInv, TypeInv', Alone, NEW w \in Workers, Chargeback(w)
  PROVE  KeptInv'
<1> USE DEF KeptInv, TypeInv
<1>1. UNCHANGED <<refunds, session>>
  BY DEF Chargeback, DisputeRow, DisputeTickets, RestoreTickets, Reopen, stripe
<1>2. \A t \in TicketIds : tickets[t] \in TicketRow
  BY DEF DbTyped
<1>3. TicketsClose
  <2>1. CASE DisputeTickets(w)
    BY <2>1, <1>2 DEF DisputeTickets, TicketsClose, Closed, TicketRow, RefundsNamed
  <2>2. CASE RestoreTickets(w)
    BY <2>2, <1>2 DEF RestoreTickets, TicketsClose, Closed, TicketRow, RefundsNamed
  <2>3. CASE DisputeRow(w) \/ Reopen(w)
    BY <2>3, SameTicketsClose DEF DisputeRow, Reopen
  <2> QED BY <2>1, <2>2, <2>3 DEF Chargeback
<1>4. MoneyTold /\ KeysNamed
  BY <1>1, NoRefundTold
<1>5. worker[w].pc \in {"disputeRow", "disputeTickets", "restore", "reopen"}
  BY DEF Chargeback, DisputeRow, DisputeTickets, RestoreTickets, Reopen, At
<1>6. worker[w].pc # "reconcile" /\ worker[w].pc \notin {"reconcile"} \cup CancelSteps
  BY <1>5 DEF CancelSteps
<1>7. CASE \E ok : Finish(w, ok)
  BY <1>1, <1>3, <1>6, <1>7, FinishKept
<1>8. CASE ~(\E ok : Finish(w, ok))
  <2>1. due' = due /\ \E pc \in {"disputeTickets", "reopen", "claim"} : Goto(w, pc)
    BY <1>8 DEF Chargeback, DisputeRow, DisputeTickets, RestoreTickets, Reopen, hooks
  <2>2. PICK pc \in {"disputeTickets", "reopen", "claim"} : MovesTo(w, pc)
    BY <2>1, HandlerMoves
  <2>3. pc \notin {"recover", "issue"} \cup CancelSteps
    BY DEF CancelSteps
  <2> QED BY <1>1, <1>3, <1>4, <1>6, <2>1, <2>2, <2>3, PlainKept
<1> QED BY <1>7, <1>8

(* Staff give tickets away, to no payment, and void them. *)
LEMMA StaffKept == ASSUME KeptInv, TypeInv', Staff PROVE KeptInv'
<1> USE DEF KeptInv, TypeInv
<1>1. UNCHANGED <<refunds, session, worker>> /\ due' = due
  BY DEF Staff, IssueDirect, VoidTicket, stripe, hooks
<1>2. MoneyTold /\ KeysNamed
  BY <1>1, NoRefundTold
<1>3. ASSUME NEW ty \in Types, NEW who \in Guests, IssueDirect(ty, who)
      PROVE  KeptInv'
  <2>1. PICK ids \in SUBSET Unused : Insert(ids, ty, who, None)
    BY <1>3 DEF IssueDirect
  <2>2. None \in Refs \cup {None} /\ None \notin Refs
    BY CheckoutAssumption
  <2>3. /\ \A q \in Refs :
             OrderTickets(q)' = OrderTickets(q) /\ \A n : Applied(q, n) => Applied(q, n)'
        /\ Unissued'
        /\ \A t \in TicketIds : tickets'[t].status = "refunded" => tickets'[t].refund # DisputeRef
    BY <2>1, <2>2, InsertElsewhere
  <2>4. OrdersWhole' /\ RefundsNamed'
    BY <1>1, <1>2, <2>3 DEF OrdersWhole, RefundsNamed, KeysNamed
  <2>5. TotalsKept /\ \A q \in Refs : Issuing(q)' => Issuing(q)
    BY <1>1 DEF TotalsKept, Issuing
  <2>6. \A q \in Refs : Told(q)'
    BY <1>2, <2>3, <2>5, ToldKept
  <2>7. ASSUME NEW w \in Workers PROVE KnowsOrder(w)'
    <3>1. KnowsOrder(w) /\ (worker[w].pc # "idle" => worker[w].ref \in Refs)
      BY DEF HandlersTyped, Sound
    <3>2. PICK h : h = worker[w]
      OBVIOUS
    <3>3. h.pc \in CancelSteps => Applied(h.ref, h.ev.amt) /\ h.ref \in Refs
      BY <3>1, <3>2 DEF KnowsOrder, CancelSteps
    <3>4. h.pc \in CancelSteps => Applied(h.ref, h.ev.amt)'
      BY <3>3, <2>3
    <3>5. worker[w].pc \in CancelSteps => Applied(worker[w].ref, worker[w].ev.amt)'
      BY <3>2, <3>4, <1>1 DEF Applied, Covered, OrderTickets
    <3> QED BY <3>1, <3>5, <1>1, <2>3 DEF KnowsOrder
  <2> QED BY <2>3, <2>4, <2>6, <2>7
<1>4. ASSUME NEW t \in TicketIds, VoidTicket(t)
      PROVE  KeptInv'
  <2>1. \A u \in TicketIds : tickets[u] \in TicketRow
    BY DEF DbTyped
  <2>2. tickets' = [tickets EXCEPT ![t].status = "void"] /\ tickets[t].status # "none"
    BY <1>4 DEF VoidTicket
  <2>3. TicketsClose
    BY <2>1, <2>2 DEF TicketsClose, Closed, TicketRow, RefundsNamed, DbTyped
  <2>4. SessionsStay
    BY <1>1 DEF SessionsStay
  <2> QED BY <1>1, <1>2, <2>3, <2>4, OutsideKept
<1> QED BY <1>3, <1>4 DEF Staff

(* Nothing is sold yet. *)
LEMMA KeptInvInit == Init => KeptInv
<1> SUFFICES ASSUME Init PROVE KeptInv
  OBVIOUS
<1>1. TypeInv
  BY TypeInvInit
<1>2. \A t \in TicketIds : tickets[t].status = "none" /\ tickets[t].ref \notin Refs
  BY CheckoutAssumption DEF Init, NoTicket
<1>3. Unissued /\ OrdersWhole /\ RefundsNamed
  BY <1>2 DEF Init, Unissued, OrdersWhole, RefundsNamed, OrderTickets
<1>4. \A w \in Workers : KnowsOrder(w)
  BY DEF Init, Idle, KnowsOrder, CancelSteps
<1>5. ASSUME NEW r \in Refs PROVE Told(r)
  <2>1. Units(Live(r)) = {}
    BY DEF Init, Live, Units
  <2> QED BY <2>1, FS_EmptySet DEF Told, AmountRefunded
<1> QED BY <1>1, <1>3, <1>4, <1>5 DEF KeptInv

(* Every step keeps the invariant. *)
LEMMA KeptInvNext == ASSUME Alone, KeptInv, [Next]_vars PROVE KeptInv'
<1>1. TypeInv'
  BY TypeInvNext DEF KeptInv
<1>2. CASE \E r \in Refs : Buyer(r) \/ Provider(r)
  BY <1>1, <1>2, BuyerKept, ProviderKept
<1>3. CASE \E ev \in sent, w \in Workers : Deliver(w, ev)
  BY <1>1, <1>3, DeliverKept
<1>4. CASE \E w \in Workers : Handler(w) \/ Fault(w)
  BY <1>1, <1>4, FulfilKept, CancelKept, ChargebackKept, FaultKept DEF Handler
<1>5. CASE Staff
  BY <1>1, <1>5, StaffKept
<1>6. CASE UNCHANGED vars
  <2>1. UNCHANGED <<tickets, refunds, session, due, worker>>
    BY <1>6 DEF vars
  <2>2. TicketsClose /\ MoneyTold /\ KeysNamed
    BY <2>1, SameTicketsClose, NoRefundTold
  <2>3. SessionsStay /\ due \subseteq due'
    BY <2>1 DEF SessionsStay
  <2> QED BY <1>1, <2>1, <2>2, <2>3, OutsideKept
<1> QED BY <1>2, <1>3, <1>4, <1>5, <1>6 DEF Next

(* Of some tickets one is the first. *)
LEMMA FirstTicket ==
  ASSUME NEW S \in SUBSET TicketIds, S # {}
  PROVE  \E t \in S : \A u \in S : t <= u
<1>1. S \subseteq Nat
  BY CapacityAssumption DEF TicketIds
<1>2. \E t \in S : \A u \in S : ~(<<u, t>> \in OpToRel(<, Nat))
  BY <1>1, NatLessThanWellFounded, WFMin
<1>3. PICK t \in S : \A u \in S : ~(u < t)
  BY <1>1, <1>2 DEF OpToRel
<1>4. \A u \in S : t <= u
  BY <1>1, <1>3
<1> QED BY <1>4

(* An amount leaves no more of an order than it does not cover. *)
LEMMA UncoveredAreFew ==
  ASSUME NEW O \in SUBSET TicketIds, NEW n \in Nat, n <= Cardinality(O),
         NEW R \in SUBSET O, \A t \in R : ~(Cardinality({u \in O : u <= t}) <= n)
  PROVE  Cardinality(R) <= Cardinality(O) - n
<1>0. IsFiniteSet(O) /\ Cardinality(O) \in Nat
  BY TicketsFinite
<1>1. CASE R = {}
  BY <1>0, <1>1, FS_EmptySet
<1>2. CASE R # {}
  <2>1. R \in SUBSET TicketIds
    OBVIOUS
  <2>2. PICK t \in R : \A u \in R : t <= u
    BY <1>2, <2>1, FirstTicket
  <2> DEFINE B == {u \in O : u <= t}
             C == O \ B
  <2>3. \A u \in TicketIds : u \in Nat
    BY CapacityAssumption DEF TicketIds
  <2>4. R \in SUBSET (C \cup {t})
    <3> SUFFICES ASSUME NEW u \in R, u # t PROVE u \in C
      OBVIOUS
    <3>1. t <= u /\ t \in Nat /\ u \in Nat
      BY <2>1, <2>2, <2>3
    <3> QED BY <3>1
  <2>5. B \in SUBSET O /\ B \in SUBSET TicketIds
    OBVIOUS
  <2>6. ~(Cardinality(B) <= n)
    OBVIOUS
  <2> HIDE DEF B
  <2>7. IsFiniteSet(B) /\ Cardinality(B) \in Nat
    BY <2>5, TicketsFinite
  <2>8. O \cap B = B
    BY <2>5
  <2>9. IsFiniteSet(C) /\ Cardinality(C) = Cardinality(O) - Cardinality(B)
    BY <1>0, <2>7, <2>8, FS_Difference
  <2> HIDE DEF C
  <2>10. IsFiniteSet(C \cup {t}) /\ Cardinality(C \cup {t}) <= Cardinality(C) + 1
    <3>1. Cardinality(C) \in Nat
      BY <2>9, FS_CardinalityType
    <3>2. /\ IsFiniteSet(C \cup {t})
          /\ Cardinality(C \cup {t}) = IF t \in C THEN Cardinality(C) ELSE Cardinality(C) + 1
      BY <2>9, FS_AddElement
    <3> QED BY <3>1, <3>2
  <2>11. Cardinality(R) <= Cardinality(C \cup {t}) /\ Cardinality(R) \in Nat
         /\ Cardinality(C \cup {t}) \in Nat /\ Cardinality(C) \in Nat
    BY <2>4, <2>9, <2>10, FS_Subset, FS_CardinalityType
  <2> QED BY <1>0, <2>6, <2>7, <2>9, <2>10, <2>11
<1> QED BY <1>1, <1>2

(* When nothing of a payment is in progress, all it returned is taken from *)
(* its tickets.                                                            *)
LEMMA QuietIsApplied ==
  ASSUME KeptInv, NEW r \in Refs, Quiet(r)
  PROVE  AmountRefunded(r) = 0 \/ Applied(r, AmountRefunded(r))
<1>1. \A ev \in due : ~TellsTotal(r, ev)
  BY DEF Quiet, TellsTotal
<1> QED BY <1>1 DEF KeptInv, Told

(* Once the events of a payment are handled, its buyer enters with no more *)
(* tickets than the money kept covers: whatever is refunded, in part or in *)
(* whole, before or after fulfilment, while a handler is at it or after it *)
(* died, and whatever becomes of the refund; with disputes and staff, and  *)
(* events that come late, twice or out of order.  One handler runs at a    *)
(* time; two at once are disagreement 3.                                   *)
THEOREM AdmitsWithinMoneyKept ==
  ASSUME \A v, w \in Workers : v = w
  PROVE  Spec => []AdmissionWithinMoneyKept
<1>0. Alone
  BY DEF Alone
<1>1. KeptInv => AdmissionWithinMoneyKept
  <2> SUFFICES ASSUME KeptInv, NEW r \in Refs, Quiet(r)
               PROVE  Cardinality(ValidOf(r)) <= IF session[r] = "paid" THEN Balance(r) ELSE 0
    BY DEF AdmissionWithinMoneyKept
  <2> DEFINE O == OrderTickets(r)
             R == ValidOf(r)
             n == AmountRefunded(r)
  <2>1. /\ n \in Nat /\ QtyOf[r] \in Nat /\ n <= QtyOf[r] /\ Balance(r) = QtyOf[r] - n
        /\ Balance(r) \in Nat
    BY AmountsTyped DEF KeptInv, TypeInv
  <2>2. O \in SUBSET TicketIds /\ R \in SUBSET O /\ R \in SUBSET TicketIds
    BY DEF OrderTickets, ValidOf
  <2>3. CASE O = {}
    <3>1. R = {}
      BY <2>2, <2>3
    <3>2. Cardinality(R) = 0
      BY <3>1, FS_EmptySet
    <3> QED BY <2>1, <3>2
  <2>4. CASE Cardinality(O) = QtyOf[r] /\ session[r] = "paid"
    <3>1. CASE n = 0
      <4>1. Cardinality(R) <= Cardinality(O)
        BY <2>2, FewerTickets
      <4> QED BY <2>1, <2>4, <3>1, <4>1
    <3>2. CASE n # 0
      <4>1. \A t \in Covered(r, n) : tickets[t].status # "valid"
        BY <3>2, QuietIsApplied DEF Applied, Closed
      <4>2. \A t \in R : ~(Cardinality({u \in O : u <= t}) <= n)
        BY <4>1 DEF Covered, ValidOf
      <4> HIDE DEF O, R, n
      <4>3. Cardinality(R) <= Cardinality(O) - n
        BY <2>1, <2>2, <2>4, <4>2, UncoveredAreFew
      <4> QED BY <2>1, <2>4, <4>3 DEF R
    <3> QED BY <3>1, <3>2
  <2> QED BY <2>3, <2>4 DEF KeptInv, OrdersWhole
<1> QED BY <1>0, <1>1, KeptInvInit, KeptInvNext, PTL DEF Spec
=============================================================================
