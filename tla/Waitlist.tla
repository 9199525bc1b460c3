------------------------------ MODULE Waitlist ------------------------------
(***************************************************************************)
(* The waitlist of one event: who may join, the confirmation by mail, and  *)
(* the reconciliation that turns places which came free into alerts, first *)
(* come first told.                                                        *)
(*                                                                         *)
(* Every operation is one transaction under the event's row lock, so each  *)
(* is one action.  `sold' counts what occupies a type: tickets and live    *)
(* reservations.  A hidden type, or one outside its sales window, has no   *)
(* places: the event's status stands for these switches.  A person makes   *)
(* one entry, and one that was left, expired or undeliverable has ended.   *)
(* Of the outbox only what the waitlist sees is modelled: the alerts it    *)
(* was given and the addresses it no longer writes to.  A link arrives     *)
(* when its mail does, so it may be followed at any time after.            *)
(***************************************************************************)
EXTENDS SequencesExt

CONSTANTS
  People,      \* addresses
  TypeOrder,   \* the event's ticket types, in the order it lists them
  Quantity,    \* places per type
  Capacities,  \* values the event's capacity can be given
  ScopesAsked, \* the scopes people ask for
  MaxFreed,    \* bound on places that come free
  NoRows

Kinds == Range(TypeOrder)
Event == "event"
Untold == "untold"

ASSUME WaitlistAssumption ==
  /\ TypeOrder \in Seq(Kinds) /\ Event \notin Kinds /\ Untold \notin Kinds
  /\ Quantity \in [Kinds -> Nat] /\ Capacities \subseteq Nat
  /\ ScopesAsked \subseteq Kinds \cup {Event} /\ MaxFreed \in Nat
  /\ NoRows \notin [Kinds \cup {Event} -> Nat]

VARIABLES
  sold, capacity, status,  \* the event
  entry,                   \* event_waitlist_entries
  line,                    \* those once confirmed, by confirmed_at
  seen, credits,           \* event_waitlist_inventory; seen is NoRows without rows
  queued,                  \* the entries whose alert is in email_outbox
  stopped,                 \* email_suppressions
  freed                    \* places that came free so far

event == <<sold, capacity, status>>
waiting == <<entry, line>>
inventory == <<seen, credits>>
mails == <<queued, stopped>>
wvars == <<mails, event, waiting, inventory, freed>>

Scopes == Kinds \cup {Event}

WaitTypeOK ==
  /\ queued \subseteq People /\ stopped \subseteq People
  /\ sold \in [Kinds -> Nat] /\ \A t \in Kinds : sold[t] <= Quantity[t]
  /\ capacity \in Capacities /\ status \in {"published", "sold-out", "over"}
  /\ entry \in [People -> [st : {"none", "pending", "active", "notified", "converted", "ended"},
                            scope : Scopes]]
  /\ line \in Seq(People) /\ {p \in People : entry[p].st = "active"} \subseteq Range(line)
  /\ seen \in [Scopes -> Nat] \cup {NoRows} /\ credits \in [Scopes -> Nat]
  /\ freed \in 0..MaxFreed

-----------------------------------------------------------------------------
(* waitlistInventorySnapshot *)

Difference(a, b) == IF a > b THEN a - b ELSE 0
(* A place of a type is a pair, so that a sum is the size of a set. *)
Total(f) == Cardinality(UNION {{t} \X (1..f[t]) : t \in Kinds})
Raw == [t \in Kinds |-> IF status = "published" THEN Difference(Quantity[t], sold[t]) ELSE 0]
PlacesLeft == Difference(capacity, Total(sold))
Available ==
  LET all == Min({Total(Raw), PlacesLeft})
  IN [s \in Scopes |-> IF s = Event THEN all ELSE Min({Raw[s], all})]
CapacityBinds == PlacesLeft < Total(Raw)

NoEntry == [st |-> "none", scope |-> Event]
Ended == [st |-> "ended", scope |-> Event]
WaitInit ==
  /\ queued = {} /\ stopped = {}
  /\ sold \in [Kinds -> UNION {0..Quantity[t] : t \in Kinds}]
  /\ \A t \in Kinds : sold[t] <= Quantity[t]
  /\ capacity \in Capacities /\ Total(sold) <= capacity
  /\ status = "published"
  /\ entry = [p \in People |-> NoEntry]
  /\ line = <<>>
  /\ seen = NoRows /\ credits = [s \in Scopes |-> 0]
  /\ freed = 0

-----------------------------------------------------------------------------
(* The event: what sells, comes back, is exchanged or changed by its host. *)

(* Places that come free are counted to compare them with the alerts.  The *)
(* first reconciliation, which has seen nothing, takes those on sale for    *)
(* places that came free.                                                  *)
Freeing(n) == freed + n <= MaxFreed /\ freed' = freed + n
MoreAvailable == Difference(Available'[Event], Available[Event])

Sell(t) ==
  /\ Available[t] > 0
  /\ sold' = [sold EXCEPT ![t] = @ + 1]
  /\ UNCHANGED <<mails, capacity, status, waiting, inventory, freed>>

(* The sale to somebody who was alerted.  The conversion is recorded by a  *)
(* later statement of the same handler; nothing else changes the entry.    *)
BuyAlerted(t, p) ==
  /\ entry[p].st = "notified" /\ entry[p].scope \in {Event, t}
  /\ Available[t] > 0
  /\ sold' = [sold EXCEPT ![t] = @ + 1]
  /\ entry' = [entry EXCEPT ![p].st = "converted"]
  /\ UNCHANGED <<mails, capacity, status, line, inventory, freed>>

ReturnTicket(t) ==
  /\ sold[t] > 0
  /\ sold' = [sold EXCEPT ![t] = @ - 1]
  /\ UNCHANGED <<capacity, status>>
  /\ Freeing(MoreAvailable)
  /\ UNCHANGED <<mails, waiting, inventory>>

(* An exchange frees a place of one type for one of another. *)
Exchange(t, u) ==
  /\ t # u /\ sold[t] > 0 /\ Raw[u] > 0
  /\ sold' = [sold EXCEPT ![t] = @ - 1, ![u] = @ + 1]
  /\ Freeing(1)
  /\ UNCHANGED <<mails, capacity, status, waiting, inventory>>

(* The host saves the event with another capacity or status. *)
ChangeEvent(c, s) ==
  /\ status # "over" /\ (c = capacity) # (s = status)
  /\ capacity' = c /\ status' = s /\ UNCHANGED sold
  /\ Freeing(MoreAvailable)
  /\ UNCHANGED <<mails, waiting, inventory>>

-----------------------------------------------------------------------------
(* Joining and leaving. *)

ScopeCanJoin(s) ==
  /\ status \in {"published", "sold-out"}
  /\ Available[s] = 0
  /\ s = Event => \A t \in Kinds : Available[t] = 0

(* initializeInventoryState: never more than was recorded before. *)
Initialised ==
  /\ seen' = IF seen = NoRows THEN Available
             ELSE [s \in Scopes |-> Min({seen[s], Available[s]})]
  /\ credits' = [s \in Scopes |-> Min({credits[s], Available[s]})]

(* Asking again while the entry is pending replaces its link and its scope. *)
RequestWaitlist(p, s) ==
  /\ p \notin stopped /\ entry[p].st \in {"none", "pending"}
  /\ ScopeCanJoin(s)
  /\ entry' = [entry EXCEPT ![p] = [st |-> "pending", scope |-> s]]
  /\ Initialised
  /\ UNCHANGED <<mails, event, line, freed>>

(* Nothing can be queued for the address: the inventory is left alone. *)
RequestStopped(p, s) ==
  /\ p \in stopped /\ entry[p].st \in {"none", "pending"}
  /\ ScopeCanJoin(s)
  /\ entry' = [entry EXCEPT ![p] = Ended]
  /\ UNCHANGED <<mails, event, line, inventory, freed>>

(* Mutant: the confirmation is not dated. *)
ConfirmUndated(p) ==
  /\ entry[p].st = "pending" /\ status # "over"
  /\ entry' = [entry EXCEPT ![p].st = "active"]
  /\ UNCHANGED <<mails, event, line, inventory, freed>>

(* Confirmed in time, or found to be too late. *)
Confirm(p) ==
  /\ entry[p].st = "pending"
  /\ \/ /\ status # "over"
        /\ entry' = [entry EXCEPT ![p].st = "active"]
        /\ line' = Append(line, p)
     \/ entry' = [entry EXCEPT ![p] = Ended] /\ UNCHANGED line
  /\ UNCHANGED <<mails, event, inventory, freed>>

Leave(p) ==
  /\ entry[p].st \in {"pending", "active"}
  /\ entry' = [entry EXCEPT ![p] = Ended]
  /\ UNCHANGED <<mails, event, line, inventory, freed>>

(* The outbox learns of a bounce; an operator lifts the block.  Only the    *)
(* block of somebody who waits is ever read.                               *)
Stop(p) ==
  /\ entry[p].st \in {"pending", "active"}
  /\ stopped' = stopped \cup {p}
  /\ UNCHANGED <<queued, event, waiting, inventory, freed>>
Resume(p) ==
  /\ stopped' = stopped \ {p}
  /\ UNCHANGED <<queued, event, waiting, inventory, freed>>

-----------------------------------------------------------------------------
(* reconcileEventWaitlist *)

(* Mutant: every free place counts as new. *)
SeenNothing(s) == 0

Seen(s) == IF seen = NoRows THEN 0 ELSE seen[s]

(* What is free and was not seen. *)
Delta == [s \in Scopes |-> Difference(Available[s], Seen(s))]
CapacityDelta ==
  IF CapacityBinds THEN Max(Range(Delta)) ELSE Max({Delta[Event], Total(Delta)})

(* Credits: places not announced yet, never more than are free. *)
Credited ==
  [s \in Scopes |->
     Min({Available[s], credits[s] + IF s = Event THEN CapacityDelta ELSE Delta[s]})]

(* Mutant: any ticket means that every type has a place. *)
OffersEvery(cr, scope) ==
  {t \in Kinds : /\ cr[Event] > 0 /\ cr[t] > 0 /\ scope \in {Event, t}
                 /\ scope = Event => \A u \in Kinds : cr[u] > 0}

(* The types an entry can be told of; the event's order decides. *)
Offers(cr, scope) == {t \in Kinds : cr[Event] > 0 /\ cr[t] > 0 /\ scope \in {Event, t}}
First(types) == TypeOrder[Min({i \in DOMAIN TypeOrder : TypeOrder[i] \in types})]

(* activeCandidates, after those who no longer wait were ended. *)
Candidate(p) == entry[p].st = "active" /\ status # "over" /\ p \notin stopped

(* planNotifications: each candidate in turn takes a credit of the event    *)
(* and one of a type.                                                      *)
Take(plan, p) ==
  LET offers == Offers(plan.credits, entry[p].scope)
      t == First(offers)
  IN IF Candidate(p) /\ offers # {}
     THEN [credits |-> [plan.credits EXCEPT ![Event] = @ - 1, ![t] = @ - 1],
           told |-> [plan.told EXCEPT ![p] = t]]
     ELSE plan
Turn[i \in 0..Len(line)] ==
  IF i = 0 THEN [credits |-> Credited, told |-> [p \in People |-> Untold]]
           ELSE Take(Turn[i - 1], line[i])
Chosen(plan) == {p \in People : plan.told[p] # Untold}

(* Mutant: the credit is spent although nothing was queued. *)
RestoredNothing(plan, failed) ==
  [s \in Scopes |-> Min({Available[s], plan.credits[s]})]

(* A credit whose mail could not be queued goes back. *)
Restored(plan, failed) ==
  [s \in Scopes |-> Min({Available[s], plan.credits[s] +
     Cardinality({p \in failed : s \in {Event, plan.told[p]}})})]

(* Mutant: an entry is marked as told before its mail is queued. *)
ReconciledEarly(p, ended, failed, chosen) ==
  IF p \in ended THEN Ended
  ELSE IF p \in chosen THEN [entry[p] EXCEPT !.st = "notified"] ELSE entry[p]

Reconciled(p, ended, failed, chosen) ==
  IF p \in ended \cup failed THEN Ended
  ELSE IF p \in chosen THEN [entry[p] EXCEPT !.st = "notified"] ELSE entry[p]

(* Entries of an event that is over, old unconfirmed ones and blocked       *)
(* addresses end first.  `late' are addresses whose bounce is recorded by   *)
(* another transaction while this one runs.                                *)
Reconcile(old, late) ==
  LET open == {p \in People : entry[p].st \in {"pending", "active"}}
      ended == IF status = "over" THEN open ELSE old \cup (open \cap stopped)
      plan == Turn[Len(line)]
      failed == Chosen(plan) \cap late
  IN /\ stopped' = stopped \cup late
     /\ queued' = queued \cup (Chosen(plan) \ failed)
     /\ entry' = [p \in People |-> Reconciled(p, ended, failed, Chosen(plan))]
     /\ seen' = Available /\ credits' = Restored(plan, failed)
     /\ IF seen = NoRows THEN Freeing(Available[Event]) ELSE UNCHANGED freed
     /\ UNCHANGED <<event, line>>

ReconcileSome ==
  \E old \in SUBSET {p \in People : entry[p].st = "pending"} :
  \E late \in SUBSET {p \in People : entry[p].st = "active"} :
    Reconcile(old, late)

WaitNext ==
  \/ \E t \in Kinds : \/ Sell(t) \/ ReturnTicket(t)
                      \/ \E u \in Kinds : Exchange(t, u)
                      \/ \E p \in People : BuyAlerted(t, p)
  \/ \E c \in Capacities, s \in {"published", "sold-out", "over"} : ChangeEvent(c, s)
  \/ \E p \in People : \/ \E s \in ScopesAsked : RequestWaitlist(p, s) \/ RequestStopped(p, s)
                       \/ Confirm(p) \/ Leave(p) \/ Stop(p) \/ Resume(p)
  \/ ReconcileSome

WaitSpec == WaitInit /\ [][WaitNext]_wvars

-----------------------------------------------------------------------------
(* "One returned ticket must not notify the entire list": however sales,   *)
(* returns, exchanges and capacity changes fall between reconciliations,   *)
(* no more people are alerted than places came free, those counted that    *)
(* were on sale when the first reconciliation ran.                         *)
AlertsWithinPlaces ==
  Cardinality(queued) <= freed

(* An entry is marked as told exactly when its alert is in the outbox: no  *)
(* one is told twice, and no one is skipped as told without a message.     *)
ToldIsQueued ==
  \A p \in People : entry[p].st \in {"notified", "converted"} <=> p \in queued

(* First come, first told: an alert passes nobody who waits longer for the *)
(* same type or for any ticket.                                            *)
FirstComeFirstTold ==
  [][\A i, j \in DOMAIN line :
       (/\ i < j /\ entry[line[i]].scope \in {Event, entry[line[j]].scope}
        /\ entry[line[i]].st = "active" /\ entry[line[j]].st = "active"
        /\ entry'[line[j]].st = "notified")
         => entry'[line[i]].st # "active"]_wvars

(* A place waiting to be announced is given up only for an alert, or       *)
(* because it is no longer free: a blocked address does not use it up.     *)
NoPlaceLost ==
  [][credits'[Event] + Cardinality(queued' \ queued) >=
       Min({credits[Event], Available[Event]})]_wvars
=============================================================================
