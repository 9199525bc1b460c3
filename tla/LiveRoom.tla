------------------------------ MODULE LiveRoom ------------------------------
(***************************************************************************)
(* A page in a multiplayer room: the room's row with the receipts of its   *)
(* actions, the dispatcher that gives one action one id across uncertain   *)
(* retries, and the poll that brings the room's state to the screen.       *)
(* The page is a player's (`send` waits for an answer before it sends      *)
(* again); the room may meanwhile be changed by others, be closed, or have *)
(* the player removed, whose receipts it keeps.                            *)
(*                                                                         *)
(* What an action does is up to the game; here it is accepted, which makes *)
(* the next state of the room, or refused.  The action's id carries its    *)
(* fingerprint, so an id is never used for two controls.  The dispatcher's *)
(* limit of forty uncertain ids is not reached.                            *)
(*                                                                         *)
(* An intent is what a person means by pressing a control: pressed again   *)
(* while the screen is the same and no answer came, it is the same intent. *)
(* `open`, `applied` and `told` follow the intents and decide nothing.     *)
(***************************************************************************)
EXTENDS Naturals

CONSTANTS
  Controls,    \* what the player can press, as fingerprints of actions
  MaxSequence, \* bound: states of the room
  MaxIntents,  \* bound: intents of the player; also ids, when nothing is wrong
  MaxLosses,   \* bound: requests without an answer
  Blips        \* reads in a row that may find a live room unavailable

ASSUME LiveRoomAssumption ==
  {MaxSequence, MaxIntents, MaxLosses, Blips} \subseteq Nat /\ MaxSequence > 0

VARIABLES
  room,       \* the row: does it exist, is it open to this player, its sequence
  receipts,   \* multiplayer_room_action_receipts: sequence by action id, or 0
  late,       \* requests the page gave up on and the server may still get
  latest,     \* sequenceRef: the sequence of the newest snapshot
  shown,      \* the dispatcher's scope: the sequence that was rendered
  generation,
  uncertain,  \* ids to use again, by control, or 0
  request,    \* the action in flight
  reading,    \* the read in flight
  failures,   \* failuresRef
  ended,      \* of the poll
  unavailable,\* of an action: markUnavailable
  nextId, losses,
  open, applied, told

server == <<room, receipts>>
action == <<uncertain, request, nextId, open, told>>
poll == <<reading, failures, ended>>
roomvars == <<room, receipts, late, latest, shown, generation, uncertain, request, reading,
              failures, ended, unavailable, nextId, losses, open, applied, told>>

Ids == 1..MaxIntents
Nothing == [at |-> "none", id |-> 0, of |-> 0, gen |-> 0, seq |-> 0]
NoRead == [at |-> "none", seq |-> 0]

(* A room that is open to the player has its row. *)
RoomRows ==
  {r \in [row : BOOLEAN, open : BOOLEAN, seq : 1..MaxSequence] : r.open => r.row}

LiveRoomTypeOK ==
  /\ room \in RoomRows
  /\ receipts \in [Ids -> 0..MaxSequence]
  /\ late \subseteq (Ids \X Ids)
  /\ latest \in 0..MaxSequence /\ shown \in 0..MaxSequence /\ generation \in Nat
  /\ uncertain \in [Controls -> {0} \cup Ids]
  /\ request = Nothing \/ request \in
       [at : {"sent", "accepted", "refused", "gone"}, id : Ids, of : Ids, control : Controls,
        gen : Nat, seq : 0..MaxSequence]
  /\ reading \in [at : {"none", "asked", "ok", "unavailable"}, seq : 0..MaxSequence]
  /\ failures \in 0..3 /\ ended \in BOOLEAN /\ unavailable \in BOOLEAN
  /\ nextId \in 1..(MaxIntents + 1) /\ losses \in 0..MaxLosses
  /\ open \in [Controls -> {0} \cup Ids]

(* A page that joined a room, or one whose room is gone. *)
Page(live) ==
  /\ room = [row |-> live, open |-> live, seq |-> 1]
  /\ receipts = [i \in Ids |-> 0] /\ late = {}
  /\ latest = (IF live THEN 1 ELSE 0) /\ shown = 1 /\ generation = 0
  /\ uncertain = [f \in Controls |-> 0]
  /\ request = Nothing /\ reading = NoRead
  /\ failures = (IF live THEN 0 ELSE 3) /\ ended = ~live /\ unavailable = FALSE
  /\ nextId = 1 /\ losses = 0
  /\ open = [f \in Controls |-> 0]
  /\ applied = [i \in Ids |-> 0] /\ told = {}
LiveRoomInit == Page(TRUE)

-----------------------------------------------------------------------------
(* The room. *)

(* transitionPostgresRoom for action `id`: under the row's lock a receipt   *)
(* answers for an action that was accepted before, whoever asks now;       *)
(* otherwise the game turns away who is no player, or decides, and what it *)
(* accepts is recorded with the state it made.                             *)
Transition(id, intent, ans, seq) ==
  \/ /\ room.row /\ receipts[id] # 0
     /\ ans = "accepted" /\ seq = receipts[id]
     /\ UNCHANGED <<server, applied>>
  \/ /\ ~room.open /\ (room.row => receipts[id] = 0)
     /\ ans = "gone" /\ seq = 0
     /\ UNCHANGED <<server, applied>>
  \/ /\ room.open /\ receipts[id] = 0
     /\ ans = "refused" /\ seq = room.seq
     /\ UNCHANGED <<server, applied>>
  \/ /\ room.open /\ receipts[id] = 0 /\ room.seq < MaxSequence
     /\ ans = "accepted" /\ seq = room.seq + 1
     /\ room' = [room EXCEPT !.seq = seq]
     /\ receipts' = [receipts EXCEPT ![id] = seq]
     /\ applied' = [applied EXCEPT ![intent] = @ + 1]

(* Another player acts, or a deadline of the game passes. *)
OthersAct ==
  /\ room.row /\ room.seq < MaxSequence
  /\ room' = [room EXCEPT !.seq = @ + 1]
  /\ UNCHANGED <<receipts, late, latest, shown, generation, action, poll, unavailable, losses, applied>>

(* deletePostgresRoom or the room's expiry; or the player is removed. *)
RoomCloses ==
  /\ \/ room.row /\ room' = [room EXCEPT !.row = FALSE, !.open = FALSE]
     \/ room.open /\ room' = [room EXCEPT !.open = FALSE]
  /\ UNCHANGED <<receipts, late, latest, shown, generation, action, poll, unavailable, losses, applied>>

-----------------------------------------------------------------------------
(* The dispatcher. *)

Over == ended \/ unavailable
ActionId(f) == IF uncertain[f] # 0 THEN uncertain[f] ELSE nextId
Intent(f) == IF open[f] # 0 THEN open[f] ELSE nextId

Press(f) ==
  /\ ~Over /\ request = Nothing /\ nextId \in Ids
  /\ request' = [at |-> "sent", id |-> ActionId(f), of |-> Intent(f), control |-> f,
                 gen |-> generation, seq |-> 0]
  /\ open' = [open EXCEPT ![f] = Intent(f)]
  /\ nextId' = IF uncertain[f] # 0 /\ open[f] # 0 THEN nextId ELSE nextId + 1
  /\ UNCHANGED <<server, late, latest, shown, generation, uncertain, poll, unavailable, losses,
                 applied, told>>

Arrives ==
  /\ request.at = "sent"
  /\ \E ans \in {"accepted", "refused", "gone"}, seq \in 0..MaxSequence :
       /\ Transition(request.id, request.of, ans, seq)
       /\ request' = [request EXCEPT !.at = ans, !.seq = seq]
  /\ UNCHANGED <<late, latest, shown, generation, uncertain, nextId, open, told, poll,
                 unavailable, losses>>

(* A request nobody waits for any more still reaches the server. *)
ArrivesLate ==
  /\ \E r \in late, ans \in {"accepted", "refused", "gone"}, seq \in 0..MaxSequence :
       /\ Transition(r[1], r[2], ans, seq)
       /\ late' = late \ {r}
  /\ UNCHANGED <<latest, shown, generation, action, poll, unavailable, losses>>

(* Mutant: no snapshot is applied while an action is in flight. *)
NewestAtRest(seq) == IF seq >= latest /\ request = Nothing THEN seq ELSE latest

(* setSnapshot: one that is older than the screen is dropped. *)
Newest(seq) == IF seq >= latest THEN seq ELSE latest

(* The answer: the id is settled, and its snapshot shown; a room that is    *)
(* gone ends the session.                                                  *)
Answered ==
  /\ request.at \in {"accepted", "refused", "gone"}
  /\ uncertain' = [uncertain EXCEPT ![request.control] = 0]
  /\ IF request.at = "gone" THEN unavailable' = TRUE /\ UNCHANGED latest
     ELSE latest' = Newest(request.seq) /\ UNCHANGED unavailable
  /\ told' = IF request.at = "accepted" THEN told \cup {request.of} ELSE told
  /\ open' = IF open[request.control] = request.of
             THEN [open EXCEPT ![request.control] = 0] ELSE open
  /\ request' = Nothing
  /\ UNCHANGED <<server, late, shown, generation, nextId, poll, losses, applied>>

(* Mutants: kept in any case; forgotten in any case. *)
KeptAlways == [uncertain EXCEPT ![request.control] = request.id]
KeptNever == [uncertain EXCEPT ![request.control] = 0]

(* The ids kept for another try: only while the screen is the one the      *)
(* action was meant for.                                                   *)
Kept == IF request.gen = generation
        THEN [uncertain EXCEPT ![request.control] = request.id] ELSE uncertain

(* The request times out or breaks off, before or after the server got it. *)
Fails ==
  /\ request # Nothing /\ losses < MaxLosses
  /\ losses' = losses + 1
  /\ uncertain' = Kept
  /\ \/ late' = late \cup {<<request.id, request.of>>} /\ request.at = "sent"
     \/ UNCHANGED late
  /\ request' = Nothing
  /\ UNCHANGED <<server, latest, shown, generation, nextId, open, told, poll, unavailable, applied>>

(* synchronize, called as the page renders: a newer state begins a new     *)
(* generation and forgets the ids kept for the old one.                    *)
Render ==
  /\ ~Over /\ shown # latest
  /\ shown' = latest /\ generation' = generation + 1
  /\ uncertain' = [f \in Controls |-> 0]
  /\ open' = [f \in Controls |-> 0]
  /\ UNCHANGED <<server, late, latest, request, nextId, told, poll, unavailable, losses, applied>>

-----------------------------------------------------------------------------
(* The poll. *)

StartRead ==
  /\ ~ended /\ reading = NoRead
  /\ reading' = [at |-> "asked", seq |-> 0]
  /\ UNCHANGED <<server, late, latest, shown, generation, action, failures, ended, unavailable,
                 losses, applied>>

(* An answer without a body, for a view that has not changed, is one with  *)
(* the sequence the page has.  A live room may be reported unavailable     *)
(* for a moment.                                                           *)
ReadRoom ==
  /\ reading.at = "asked"
  /\ \/ room.open /\ reading' = [at |-> "ok", seq |-> room.seq]
     \/ ~room.open /\ reading' = [at |-> "unavailable", seq |-> 0]
     \/ room.open /\ failures < Blips /\ reading' = [at |-> "unavailable", seq |-> 0]
  /\ UNCHANGED <<server, late, latest, shown, generation, action, failures, ended, unavailable,
                 losses, applied>>

Failures == IF reading.at = "unavailable" THEN failures + 1 ELSE 0

(* Mutant: off by one. *)
EndsEarly(n) == n >= 2

(* UNAVAILABLE_READS_BEFORE_ENDING *)
Ends(n) == n >= 3

(* resolveLiveRoomRead and what useLiveRoomSnapshot does with it. *)
ReadAnswered ==
  /\ reading.at \in {"ok", "unavailable"}
  /\ failures' = Failures
  /\ ended' = Ends(Failures)
  /\ latest' = IF ended' THEN 0 ELSE IF reading.at = "ok" THEN Newest(reading.seq) ELSE latest
  /\ reading' = NoRead
  /\ UNCHANGED <<server, late, shown, generation, action, unavailable, losses, applied>>

(* A read that never landed says nothing about the room. *)
Unreachable ==
  /\ reading # NoRead /\ losses < MaxLosses
  /\ losses' = losses + 1
  /\ reading' = NoRead
  /\ UNCHANGED <<server, late, latest, shown, generation, action, failures, ended, unavailable, applied>>

-----------------------------------------------------------------------------
LiveRoomNext ==
  \/ OthersAct \/ RoomCloses
  \/ \E f \in Controls : Press(f)
  \/ Arrives \/ ArrivesLate \/ Answered \/ Fails \/ Render
  \/ StartRead \/ ReadRoom \/ ReadAnswered \/ Unreachable

LiveRoomSpec == LiveRoomInit /\ [][LiveRoomNext]_roomvars

(* The safety poll is a timer, a request ends after eight seconds, and the *)
(* page renders what it was given.                                         *)
LiveRoomFairness ==
  /\ WF_roomvars(StartRead) /\ WF_roomvars(ReadRoom) /\ WF_roomvars(ReadAnswered)
  /\ WF_roomvars(Render)

-----------------------------------------------------------------------------
(* "Gives one logical action one ID across duplicate taps and uncertain    *)
(* network retries": however answers are lost and requests delayed, what a *)
(* person meant once happens once.                                         *)
MeantOnceHappensOnce == \A i \in Ids : applied[i] <= 1

(* "Reusing its ID ... could silently turn a legitimate second action into *)
(* an old no-op": an action that is reported accepted did happen, and was  *)
(* not answered with the receipt of an earlier one.                        *)
AcceptedHappened == \A i \in told : applied[i] >= 1

(* The session ends only for a room that is gone; a blip costs nothing.    *)
LiveRoomGoesOn == Over => ~room.open

(* Under the poll alone, whatever happens to actions: again and again the  *)
(* page shows the room as it is, or has left one that is gone.             *)
PageCatchesUp == []<>(Over \/ (room.open /\ shown = room.seq))
=============================================================================
