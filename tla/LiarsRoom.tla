------------------------------ MODULE LiarsRoom ------------------------------
(***************************************************************************)
(* One game room of `liars', mafia mode: lobby, deal, nights and days, and *)
(* the ending.  Every request is one transition of the room under its      *)
(* lock; the room owns no timers, and a phase ends on the first request    *)
(* after its deadline (`advance', which any request and any read runs).    *)
(*                                                                         *)
(* Deadlines are not modelled: a phase may end at any time, so locking a   *)
(* night choice, extending and pausing, which move its deadline, change    *)
(* nothing here.  Who is connected is not modelled either: the host's role *)
(* passes to anybody the rule allows, and those who are ready to vote may  *)
(* be the majority.  Choices that only inform (detective, lookout,         *)
(* watchers), the roles that join from nine players on, but for the        *)
(* jester, and all that is told to the players are left out.  The options  *)
(* are the defaults.  The creator's token opens the host's controls        *)
(* whoever is host.                                                        *)
(***************************************************************************)
EXTENDS Naturals, FiniteSets

CONSTANTS
  Players,
  Deals,      \* the ways a full table may be dealt: functions to Roles
  MinPlayers, \* LIARS_PLAYER_LIMITS
  Suspects,   \* bound: whom choices and ballots name
  Leads,      \* bound: who hosts, unless the role falls to another
  Leavers,    \* bound: those who leave
  MaxRounds,  \* bound; one less in every further game
  MaxGames,   \* bound
  Nobody

Roles == {"mafia", "doctor", "villager", "jester"}
Sides == {"town", "mafia", "third"}
Side == [r \in Roles |->
           CASE r = "mafia" -> "mafia" [] r = "jester" -> "third" [] OTHER -> "town"]

ASSUME LiarsAssumption ==
  /\ Deals \subseteq [Players -> Roles] /\ Nobody \notin Players \cup Roles \cup Sides
  /\ {Suspects, Leads, Leavers} \subseteq SUBSET Players
  /\ {MinPlayers, MaxRounds} \subseteq Nat /\ MaxGames \in Nat \ {0}

VARIABLES
  phase, round, game, \* gameNumber
  seats,   \* room.players
  gone,    \* those with leftAt
  alive,
  role,
  target,  \* nightTarget
  before,  \* previousNightTarget
  ballot, locked, \* vote, voteLocked
  grave,   \* graveyardVote
  runoff,  \* runoffIds; revoteUsed is runoff # {}
  ejected, \* lastEjectedName, reset with ejectedJesterId
  winner, host

choices == <<target, before>>
ballots == <<ballot, locked, runoff>>
company == <<seats, gone, host>>
liarsvars == <<phase, round, game, company, alive, role, choices, ballots, grave, ejected, winner>>

Somebody == Players \cup {Nobody}
Unmade == [p \in Players |-> Nobody]
Present == seats \ gone
Playing == {"deal", "night", "dawn", "deliberation", "vote", "verdict"}

LiarsTypeOK ==
  /\ phase \in Playing \cup {"lobby", "ending"}
  /\ round \in 0..MaxRounds /\ game \in 1..MaxGames
  /\ seats \subseteq Players /\ gone \subseteq seats /\ alive \subseteq Present
  /\ role \in [Players -> Roles \cup {Nobody}]
  /\ {target, before, ballot, grave} \subseteq [Players -> Somebody]
  /\ locked \subseteq Players /\ runoff \subseteq Players /\ Cardinality(runoff) # 1
  /\ ejected \in Somebody /\ host \in Somebody
  /\ winner \in Sides \cup {Nobody}
  /\ phase = "ending" <=> winner # Nobody

LiarsInit ==
  /\ phase = "lobby" /\ round = 0 /\ game = 1
  /\ seats = Players /\ gone = {} /\ alive = Players /\ host \in Leads
  /\ role = Unmade /\ target = Unmade /\ before = Unmade
  /\ ballot = Unmade /\ locked = {} /\ runoff = {} /\ grave = Unmade
  /\ ejected = Nobody /\ winner = Nobody

-----------------------------------------------------------------------------
(* The rules. *)

Of(side, living) == {p \in living : role[p] # Nobody /\ Side[role[p]] = side}

(* liarsDetectWinner *)
Decides(living, out) ==
  IF out # Nobody /\ role[out] = "jester" THEN "third"
  ELSE IF Of("mafia", living) = {} THEN "town"
  ELSE IF Cardinality(Of("mafia", living)) >= Cardinality(Of("town", living)) THEN "mafia"
  ELSE Nobody

(* checkWinner: the game ends, or goes on in phase `otherwise'. *)
CheckWinner(living, out, otherwise) ==
  LET w == Decides(living, out) IN
  /\ winner' = IF w = Nobody THEN winner ELSE w
  /\ phase' = IF w = Nobody THEN otherwise ELSE "ending"

FreshBallots == ballot' = Unmade /\ locked' = {}

MoreRounds == round + game <= MaxRounds

(* startRound with clearRoundState *)
StartRound ==
  /\ MoreRounds
  /\ round' = round + 1
  /\ before' = target /\ target' = Unmade
  /\ FreshBallots /\ runoff' = {}

(* Mutant: what the dead voted in the last game is kept. *)
DealtAnew == role' \in {[p \in Players |-> IF p \in seats' THEN d[p] ELSE Nobody] : d \in Deals}
             /\ UNCHANGED grave

(* dealRoles: the lineup's roles, shuffled; a table that shrank is dealt    *)
(* what it draws of the smallest lineup.                                   *)
Dealt ==
  /\ role' \in {[p \in Players |-> IF p \in seats' THEN d[p] ELSE Nobody] : d \in Deals}
  /\ grave' = Unmade

(* dealGame *)
DealGame ==
  /\ Dealt
  /\ phase' = "deal" /\ round' = 0 /\ alive' = seats' /\ ejected' = Nobody /\ winner' = Nobody
  /\ before' = Unmade
  /\ UNCHANGED <<target, ballots>>

-----------------------------------------------------------------------------
(* The lobby, and who is in the room. *)

JoinLiars(p) ==
  /\ phase = "lobby" /\ p \notin seats
  /\ seats' = seats \cup {p} /\ alive' = alive \cup {p}
  /\ host' \in IF host = Nobody THEN {p} ELSE {host, p} \* p brings the creator's token
  /\ role' = [role EXCEPT ![p] = Nobody]
  /\ target' = [target EXCEPT ![p] = Nobody] /\ before' = [before EXCEPT ![p] = Nobody]
  /\ ballot' = [ballot EXCEPT ![p] = Nobody] /\ locked' = locked \ {p}
  /\ grave' = [grave EXCEPT ![p] = Nobody]
  /\ UNCHANGED <<phase, round, game, gone, runoff, ejected, winner>>

(* game.start; those who are not ready stay behind if the host says so. *)
StartLiars ==
  /\ phase = "lobby"
  /\ seats' \in {s \in SUBSET seats : Cardinality(s) >= MinPlayers /\ (host \in seats => host \in s)}
  /\ DealGame
  /\ UNCHANGED <<game, gone, host>>

(* Mutant: whoever leaves is considered too. *)
HeirsAny(p, living) == living

(* transferHost *)
Heirs(p, living) == living \ {p}

PassedOn(p, living) ==
  host' \in IF host # p THEN {host}
            ELSE IF Heirs(p, living) = {} THEN {Nobody} ELSE Heirs(p, living)

(* Mutant: leaving does not end a game. *)
DepartQuietly(p) ==
  /\ p \in Present \cap Leavers /\ phase # "lobby"
  /\ alive' = alive \ {p} /\ gone' = gone \cup {p}
  /\ PassedOn(p, alive)
  /\ UNCHANGED <<phase, winner, round, game, seats, role, choices, ballots, grave, ejected>>

(* room.leave, or player.remove by the host. *)
Depart(p) ==
  /\ p \in Present \cap Leavers
  /\ IF phase = "lobby"
     THEN /\ seats' = seats \ {p} /\ alive' = alive \ {p}
          /\ UNCHANGED <<gone, phase, winner>>
     ELSE /\ alive' = alive \ {p} /\ gone' = gone \cup {p}
          /\ IF p \in alive THEN CheckWinner(alive', Nobody, phase) ELSE UNCHANGED <<phase, winner>>
          /\ UNCHANGED seats
  /\ PassedOn(p, alive)
  /\ UNCHANGED <<round, game, role, choices, ballots, grave, ejected>>

(* host.pass, to anybody in the room, *)
PassHost(p) ==
  /\ p \in Present \cap Leads
  /\ host' = p
  /\ UNCHANGED <<phase, round, game, seats, gone, alive, role, choices, ballots, grave, ejected,
                 winner>>

(* and host.claim by somebody living, from a host who is not connected. *)
ClaimHost(p) == host # Nobody /\ p \in alive /\ PassHost(p)

(* game.replay, in any phase and for any number of players. *)
Replay ==
  /\ game < MaxGames /\ game' = game + 1
  /\ seats' = Present /\ gone' = {}
  /\ DealGame
  /\ UNCHANGED host

(* game.lobby *)
BackToLobby ==
  /\ game < MaxGames /\ game' = game + 1
  /\ seats' = Present /\ gone' = {} /\ alive' = Present
  /\ role' = Unmade /\ phase' = "lobby" /\ round' = 0 /\ winner' = Nobody
  /\ UNCHANGED <<host, choices, ballots, grave, ejected>>

(* game.end *)
EndLiars ==
  /\ phase' = "ending" /\ winner' = IF winner = Nobody THEN "town" ELSE winner
  /\ UNCHANGED <<round, game, company, alive, role, choices, ballots, grave, ejected>>

-----------------------------------------------------------------------------
(* The night. *)

(* night.select: only the doctor may choose themselves, and nobody twice in *)
(* a row; the mafia may not choose each other.                             *)
Targetable(p) ==
  IF role[p] = "doctor" THEN alive \ {before[p]} ELSE alive \ Of("mafia", alive)

NightSelect(p) ==
  /\ phase = "night" /\ p \in alive /\ role[p] \in {"mafia", "doctor"}
  /\ \E t \in (Targetable(p) \cap Suspects) \cup {Nobody} : target' = [target EXCEPT ![p] = t]
  /\ UNCHANGED <<phase, round, game, company, alive, role, before, ballots, grave, ejected, winner>>

(* resolveNight: one of the living mafia calls (a godfather, or the first   *)
(* who joined); the doctor's choice cancels the attack.                    *)
Struck(c) == IF c = Nobody THEN {} ELSE {target[c]} \cap alive
Saved == {target[d] : d \in {p \in alive : role[p] = "doctor"}}
Callers == IF Of("mafia", alive) = {} THEN {Nobody} ELSE Of("mafia", alive)

EndNight ==
  /\ phase = "night"
  /\ \E c \in Callers : alive' = alive \ (Struck(c) \ Saved)
  /\ CheckWinner(alive', Nobody, "dawn")
  /\ UNCHANGED <<round, choices, ballots, ejected>>

-----------------------------------------------------------------------------
(* The day. *)

(* day.readyToVote by one more, who may make it the majority. *)
ReadyToVote ==
  /\ phase = "deliberation" /\ alive # {}
  /\ phase' = "vote"
  /\ UNCHANGED <<round, game, company, alive, role, choices, ballots, grave, ejected, winner>>

VoteCast(p) ==
  /\ phase = "vote" /\ p \in alive \ locked
  /\ \E t \in (alive \cap Suspects) \cup {Nobody} : ballot' = [ballot EXCEPT ![p] = t]
  /\ UNCHANGED <<phase, round, game, company, alive, role, choices, locked, runoff, grave, ejected,
                 winner>>

(* The dead may change their mind at any time, and name anybody. *)
GraveyardVote(p) ==
  /\ phase # "lobby" /\ p \in Present \ alive
  /\ \E t \in Suspects \cup {Nobody} : grave' = [grave EXCEPT ![p] = t]
  /\ UNCHANGED <<phase, round, game, company, alive, role, choices, ballots, ejected, winner>>

Tally(v, voters) == [t \in Players |-> Cardinality({p \in voters : v[p] = t})]

(* liarsPlurality and tiedIds: those with the most votes, if any. *)
Leaders(tally) == {t \in Players : tally[t] > 0 /\ \A u \in Players : tally[t] >= tally[u]}

(* graveyardBallot: one ballot more, once half the table is dead, for whom   *)
(* most of the dead name.                                                  *)
GraveyardBallot ==
  LET dead == seats \ alive
      top == Leaders(Tally(grave, dead))
  IN IF 2 * Cardinality(dead) >= Cardinality(seats) /\ Cardinality(top) = 1 THEN top ELSE {}

Ballots == [t \in Players |->
              Tally(ballot, alive)[t] + (IF t \in GraveyardBallot THEN 1 ELSE 0)]

(* Nothing reads runoffIds again: a runoff may eject anybody.              *)
Tied(top) == runoff = {} /\ Cardinality(top) > 1

(* resolveVote: a plurality ejects; the first tie of a day is voted on      *)
(* again.  Ballots that were counted are only shown, and not kept here.    *)
ResolveVote ==
  LET top == Leaders(Ballots) IN
  /\ FreshBallots
  /\ IF Tied(top)
     THEN runoff' = top /\ ejected' = Nobody /\ UNCHANGED <<phase, alive>>
     ELSE /\ ejected' \in IF Cardinality(top) = 1 THEN top ELSE {Nobody}
          /\ alive' = alive \ {ejected'}
          /\ phase' = "verdict" /\ UNCHANGED runoff

(* vote.lock: the last lock ends the vote. *)
VoteLock(p) ==
  /\ phase = "vote" /\ p \in alive \ locked
  /\ IF alive \subseteq locked \cup {p} THEN ResolveVote
     ELSE locked' = locked \cup {p} /\ UNCHANGED <<phase, alive, ballot, runoff, ejected>>
  /\ UNCHANGED <<round, game, company, role, choices, grave, winner>>

-----------------------------------------------------------------------------
(* What `advance' does when a phase's deadline is over. *)
DealOver == phase = "deal" /\ phase' = "night" /\ StartRound
            /\ UNCHANGED <<alive, ejected, winner>>
DawnOver == phase = "dawn" /\ phase' = "deliberation"
            /\ UNCHANGED <<round, alive, choices, ballots, ejected, winner>>
TalkOver == phase = "deliberation" /\ phase' = "vote"
            /\ UNCHANGED <<round, alive, choices, ballots, ejected, winner>>
VoteOver == phase = "vote" /\ ResolveVote /\ UNCHANGED <<round, choices, winner>>

(* afterVerdict *)
VerdictOver ==
  /\ phase = "verdict"
  /\ CheckWinner(alive, ejected, "night")
  /\ IF phase' = "night" THEN StartRound ELSE UNCHANGED <<round, choices, ballots>>
  /\ UNCHANGED <<alive, ejected>>

Elapse ==
  /\ DealOver \/ EndNight \/ DawnOver \/ TalkOver \/ VoteOver \/ VerdictOver
  /\ UNCHANGED <<game, company, role, grave>>

LiarsNext ==
  \/ \E p \in Players : JoinLiars(p) \/ Depart(p) \/ PassHost(p) \/ ClaimHost(p)
  \/ StartLiars \/ Replay \/ BackToLobby \/ EndLiars
  \/ \E p \in Players : NightSelect(p) \/ VoteCast(p) \/ VoteLock(p) \/ GraveyardVote(p)
  \/ ReadyToVote \/ Elapse

LiarsSpec == LiarsInit /\ [][LiarsNext]_liarsvars

-----------------------------------------------------------------------------
(* The rule "checked at dawn and again at verdict", and whenever somebody   *)
(* leaves: no day goes on in a game that is decided.                       *)
UndecidedGoesOn ==
  phase \in {"dawn", "deliberation", "vote"} => Decides(alive, Nobody) = Nobody

(* A choice counts in the round, the ballot and the game it was made in: a  *)
(* night and the talk after it begin without ballots, a runoff without      *)
(* locks of the first ballot, and who lives has no vote among the dead.    *)
ChoicesAreFresh ==
  /\ phase \in {"night", "dawn", "deliberation"} => ballot = Unmade /\ locked = {} /\ runoff = {}
  /\ phase \in Playing => \A p \in alive : grave[p] = Nobody

(* However hosts die, leave, are removed and pass the role on: the host is  *)
(* in the room.                                                            *)
HostIsHere == host \in Present \cup {Nobody}
=============================================================================
