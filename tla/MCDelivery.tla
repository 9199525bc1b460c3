----------------------------- MODULE MCDelivery -----------------------------
(* The waitlist of an event with two types of one place each, the outbox    *)
(* with two messages to one address, and a page with one control in a game  *)
(* room.  Each is explored with the others at rest.                         *)
EXTENDS Waitlist, EmailOutbox, LiveRoom
CONSTANTS ann, bob, a, b, m1, m2, vote

TwoTypes == <<a, b>>
OnePlaceEach == [t \in {a, b} |-> 1]
Addressee == [m \in {m1, m2} |-> ann]

(* The types of all three; they include that nobody outside the line waits  *)
(* and that attempts and failures in a row keep to their limits.           *)
TypesOK == WaitTypeOK /\ OutboxTypeOK /\ LiveRoomTypeOK

VARIABLE part
Init ==
  /\ part \in {"waitlist", "outbox", "room"}
  /\ WaitInit /\ OutboxInit /\ Page(part = "room")
  /\ part # "waitlist" => capacity = 1 /\ Total(sold) = 0
Next ==
  /\ \/ part = "waitlist" /\ WaitNext /\ UNCHANGED <<outbox, roomvars>>
     \/ part = "outbox" /\ OutboxNext /\ UNCHANGED <<wvars, roomvars>>
     \/ part = "room" /\ LiveRoomNext /\ UNCHANGED <<wvars, outbox>>
  /\ UNCHANGED part

Spec ==
  /\ Init /\ [][Next]_<<wvars, outbox, roomvars, part>>
  /\ OutboxFairness /\ LiveRoomFairness
=============================================================================
