-------------------------- MODULE MCTicketOperations --------------------------
(* Model values for TicketOperations and OfflineDoor: one ticket that two   *)
(* persons hand to each other, and two ticket types of different price; two *)
(* codes at one scanner page.  Each part is explored with the others at     *)
(* rest.                                                                   *)
EXTENDS TicketOperations, OfflineDoor, TLC
CONSTANTS t1, ann, bob, d1, std, vip, c1, c2, x1, x2, x3

OneTicket == <<t1>>
TwoPrices == [k \in {std, vip} |-> IF k = std THEN 1 ELSE 2]
Alike == Permutations({c1, c2})

(* The types of both modules; at the door they include how a page's copies  *)
(* agree and that nobody is queued whom the page did not let in.            *)
TypesOK == TypeOK /\ DoorTypeOK

VARIABLE part
mcvars == <<vars, doorvars, part>>

(* The rows are alike: the next to be reserved is the first one left. *)
InTurn == /\ exchange'[x2] # NoExchange => exchange[x1] # NoExchange
          /\ exchange'[x3] # NoExchange => exchange[x2] # NoExchange

(* Everything that happens to the ticket, and one exchange. *)
DeskSteps == /\ part = "desk" /\ Next /\ UNCHANGED <<doorvars, part>>
             /\ \A e \in Exchanges \ {x1} : exchange'[e] = NoExchange

(* Its exchanges, with a ticket that is voided or checked out meanwhile. *)
ExchangeSteps == /\ part = "exchanges" /\ Next /\ InTurn
                 /\ UNCHANGED <<people, alloc, refund, consented, hook, atBank, scan, doorvars, part>>

(* Two handlers of the page at a time; or one, and a code that lapses while *)
(* one code is let in.  A page that lost an admission is not followed       *)
(* further.                                                                *)
DoorSteps == /\ \A d \in Devices : unsaved[d] = {} /\ between[d] \subseteq page[d].ref.admitted
             /\ DoorNext /\ UNCHANGED <<vars, part>>
             /\ \/ part = "door" /\ Manifest' = Codes
                \/ /\ part = "lapses"
                   /\ \A d \in Devices : /\ \A j \in Jobs \ {1} : job'[d][j] = IdleJob
                                         /\ Cardinality({c \in Codes : letIn'[d][c] > 0}) <= 1

MCInit == /\ Init /\ DoorInit /\ part \in {"desk", "exchanges", "door", "lapses"}
          /\ part \in {"door", "lapses"} => ticket[t1] = Fresh(Buyer, std, TRUE)
          /\ part = "exchanges" /\ ticket[t1].paid => ticket[t1].holder = Buyer
          /\ part = "exchanges" /\ ~ticket[t1].paid => assign[t1].to = Buyer
MCSpec == MCInit /\ [][DeskSteps \/ ExchangeSteps \/ DoorSteps]_mcvars
=============================================================================
