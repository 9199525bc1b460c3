-------------------------- MODULE LiarsRoomProofs --------------------------
(***************************************************************************)
(* A game of liars, for any players, deals, hosts, rounds and games: it    *)
(* goes on only while undecided, choices do not outlive what they were     *)
(* made for, and the host is in the room.  To be inductive the properties  *)
(* need each other, the types, and that everybody seated in the lobby is   *)
(* present, which is why whoever is dealt into a game is in the room.      *)
(***************************************************************************)
EXTENDS LiarsRoom, TLAPS, FiniteSetTheorems

LobbyIsWhole == phase = "lobby" => gone = {}

(* The inductive invariant. *)
LiarsInv == LiarsTypeOK /\ UndecidedGoesOn /\ ChoicesAreFresh /\ HostIsHere /\ LobbyIsWhole

-----------------------------------------------------------------------------
(* The rules. *)

(* liarsDetectWinner names a side, or nobody; *)
LEMMA DecidesSide ==
  ASSUME NEW living, NEW out
  PROVE  Decides(living, out) \in Sides \cup {Nobody}
  BY DEF Decides, Sides

(* it depends on the roles and on who is given as living. *)
LEMMA DecidesNext ==
  ASSUME role' = role
  PROVE  Decides(alive', Nobody) = Decides(alive, Nobody)'
  BY DEF Decides, Of

(* A check of the winner ends the game, or leaves it open and undecided. *)
LEMMA WinnerChecked ==
  ASSUME NEW living, NEW out, NEW otherwise, CheckWinner(living, out, otherwise)
  PROVE  \/ phase' = "ending" /\ winner' \in Sides
         \/ phase' = otherwise /\ winner' = winner /\ Decides(living, out) = Nobody
  BY DecidesSide, LiarsAssumption DEF CheckWinner, Sides

(* Without a jester voted out, a game nobody won is one in which the living *)
(* decide nothing.                                                         *)
LEMMA UndecidedWithout ==
  ASSUME NEW living, NEW out, Decides(living, out) = Nobody
  PROVE  Decides(living, Nobody) = Nobody
  BY LiarsAssumption DEF Decides, Sides

LEMMA NoRunoff == Cardinality({}) # 1
  BY FS_EmptySet

LEMMA LiarsInitInv == LiarsInit => LiarsInv
<1> SUFFICES ASSUME LiarsInit PROVE LiarsInv
  OBVIOUS
<1>1. LiarsTypeOK
  BY LiarsAssumption, NoRunoff
     DEF LiarsInit, LiarsTypeOK, Playing, Present, Unmade, Somebody, Sides
<1>2. QED
  BY <1>1, LiarsAssumption
     DEF LiarsInit, LiarsInv, UndecidedGoesOn, ChoicesAreFresh, HostIsHere, LobbyIsWhole, Playing,
         Present, Unmade
LEMMA JoinLiarsInv ==
  ASSUME LiarsInv, NEW p \in Players, JoinLiars(p)
  PROVE  LiarsInv'
<1>1. LiarsTypeOK'
  BY LiarsAssumption, WinnerChecked, NoRunoff
     DEF LiarsInv, LiarsTypeOK, HostIsHere, LobbyIsWhole, JoinLiars, choices, ballots, company, Playing, Present, Somebody, Unmade, Sides
<1>2. UndecidedGoesOn'
  BY LiarsAssumption, WinnerChecked, DecidesNext
     DEF LiarsInv, LiarsTypeOK, UndecidedGoesOn, Decides, Of, JoinLiars, choices, ballots, company, Playing, Present, Somebody, Unmade, Sides
<1>3. ChoicesAreFresh'
  BY LiarsAssumption, WinnerChecked
     DEF LiarsInv, LiarsTypeOK, ChoicesAreFresh, JoinLiars, choices, ballots, company, Playing, Present, Somebody, Unmade, Sides
<1>4. HostIsHere' /\ LobbyIsWhole'
  BY LiarsAssumption, WinnerChecked
     DEF LiarsInv, LiarsTypeOK, HostIsHere, LobbyIsWhole, JoinLiars, choices, ballots, company, Playing, Present, Somebody, Unmade, Sides
<1>5. QED BY <1>1, <1>2, <1>3, <1>4 DEF LiarsInv

LEMMA StartLiarsInv ==
  ASSUME LiarsInv, StartLiars
  PROVE  LiarsInv'
<1>1. LiarsTypeOK'
  BY LiarsAssumption, WinnerChecked, NoRunoff
     DEF LiarsInv, LiarsTypeOK, HostIsHere, LobbyIsWhole, StartLiars, DealGame, Dealt, choices, ballots, company, Playing, Present, Somebody, Unmade, Sides
<1>2. UndecidedGoesOn'
  BY LiarsAssumption, WinnerChecked, DecidesNext
     DEF LiarsInv, LiarsTypeOK, UndecidedGoesOn, Decides, Of, StartLiars, DealGame, Dealt, choices, ballots, company, Playing, Present, Somebody, Unmade, Sides
<1>3. ChoicesAreFresh'
  BY LiarsAssumption, WinnerChecked
     DEF LiarsInv, LiarsTypeOK, ChoicesAreFresh, StartLiars, DealGame, Dealt, choices, ballots, company, Playing, Present, Somebody, Unmade, Sides
<1>4. HostIsHere' /\ LobbyIsWhole'
  <2>1. phase = "lobby" /\ phase' = "deal" /\ gone' = gone /\ host' = host
    BY DEF StartLiars, DealGame
  <2>2. host \in seats => host \in seats'
    BY DEF StartLiars
  <2>3. gone = {} /\ host \in (seats \ gone) \cup {Nobody}
    BY <2>1 DEF LiarsInv, HostIsHere, LobbyIsWhole, Present
  <2>4. QED BY <2>1, <2>2, <2>3 DEF HostIsHere, LobbyIsWhole, Present
<1>5. QED BY <1>1, <1>2, <1>3, <1>4 DEF LiarsInv

LEMMA DepartInv ==
  ASSUME LiarsInv, NEW p \in Players, Depart(p)
  PROVE  LiarsInv'
<1>1. LiarsTypeOK'
  BY LiarsAssumption, WinnerChecked, NoRunoff
     DEF LiarsInv, LiarsTypeOK, HostIsHere, LobbyIsWhole, Depart, PassedOn, Heirs, choices, ballots, company, Playing, Present, Somebody, Unmade, Sides
<1>2. UndecidedGoesOn'
  <2>1. CASE phase = "lobby"
    BY <2>1 DEF UndecidedGoesOn, Depart
  <2>2. CASE phase # "lobby" /\ p \notin alive
    <3>1. alive' = alive /\ role' = role /\ phase' = phase
      BY <2>2 DEF Depart
    <3>2. QED BY <3>1, DecidesNext DEF LiarsInv, UndecidedGoesOn
  <2>3. CASE phase # "lobby" /\ p \in alive
    <3>1. role' = role /\ CheckWinner(alive', Nobody, phase)
      BY <2>3 DEF Depart
    <3>2. phase' \in {"dawn", "deliberation", "vote"} => Decides(alive', Nobody) = Nobody
      BY <3>1, WinnerChecked
    <3>3. QED BY <3>1, <3>2, DecidesNext DEF UndecidedGoesOn
  <2>4. QED BY <2>1, <2>2, <2>3
<1>3. ChoicesAreFresh'
  BY LiarsAssumption, WinnerChecked
     DEF LiarsInv, LiarsTypeOK, ChoicesAreFresh, Depart, PassedOn, Heirs, choices, ballots, company, Playing, Present, Somebody, Unmade, Sides
<1>4. HostIsHere' /\ LobbyIsWhole'
  BY LiarsAssumption, WinnerChecked
     DEF LiarsInv, LiarsTypeOK, HostIsHere, LobbyIsWhole, Depart, PassedOn, Heirs, choices, ballots, company, Playing, Present, Somebody, Unmade, Sides
<1>5. QED BY <1>1, <1>2, <1>3, <1>4 DEF LiarsInv

LEMMA PassHostInv ==
  ASSUME LiarsInv, NEW p \in Players, PassHost(p)
  PROVE  LiarsInv'
<1>1. LiarsTypeOK'
  BY LiarsAssumption, WinnerChecked, NoRunoff
     DEF LiarsInv, LiarsTypeOK, HostIsHere, LobbyIsWhole, PassHost, choices, ballots, company, Playing, Present, Somebody, Unmade, Sides
<1>2. UndecidedGoesOn'
  BY LiarsAssumption, WinnerChecked, DecidesNext
     DEF LiarsInv, LiarsTypeOK, UndecidedGoesOn, Decides, Of, PassHost, choices, ballots, company, Playing, Present, Somebody, Unmade, Sides
<1>3. ChoicesAreFresh'
  BY LiarsAssumption, WinnerChecked
     DEF LiarsInv, LiarsTypeOK, ChoicesAreFresh, PassHost, choices, ballots, company, Playing, Present, Somebody, Unmade, Sides
<1>4. HostIsHere' /\ LobbyIsWhole'
  BY LiarsAssumption, WinnerChecked
     DEF LiarsInv, LiarsTypeOK, HostIsHere, LobbyIsWhole, PassHost, choices, ballots, company, Playing, Present, Somebody, Unmade, Sides
<1>5. QED BY <1>1, <1>2, <1>3, <1>4 DEF LiarsInv

LEMMA ReplayInv ==
  ASSUME LiarsInv, Replay
  PROVE  LiarsInv'
<1>1. LiarsTypeOK'
  BY LiarsAssumption, WinnerChecked, NoRunoff
     DEF LiarsInv, LiarsTypeOK, HostIsHere, LobbyIsWhole, Replay, DealGame, Dealt, choices, ballots, company, Playing, Present, Somebody, Unmade, Sides
<1>2. UndecidedGoesOn'
  BY LiarsAssumption, WinnerChecked, DecidesNext
     DEF LiarsInv, LiarsTypeOK, UndecidedGoesOn, Decides, Of, Replay, DealGame, Dealt, choices, ballots, company, Playing, Present, Somebody, Unmade, Sides
<1>3. ChoicesAreFresh'
  BY LiarsAssumption, WinnerChecked
     DEF LiarsInv, LiarsTypeOK, ChoicesAreFresh, Replay, DealGame, Dealt, choices, ballots, company, Playing, Present, Somebody, Unmade, Sides
<1>4. HostIsHere' /\ LobbyIsWhole'
  BY LiarsAssumption, WinnerChecked
     DEF LiarsInv, LiarsTypeOK, HostIsHere, LobbyIsWhole, Replay, DealGame, Dealt, choices, ballots, company, Playing, Present, Somebody, Unmade, Sides
<1>5. QED BY <1>1, <1>2, <1>3, <1>4 DEF LiarsInv

LEMMA BackToLobbyInv ==
  ASSUME LiarsInv, BackToLobby
  PROVE  LiarsInv'
<1>1. LiarsTypeOK'
  BY LiarsAssumption, WinnerChecked, NoRunoff
     DEF LiarsInv, LiarsTypeOK, HostIsHere, LobbyIsWhole, BackToLobby, choices, ballots, company, Playing, Present, Somebody, Unmade, Sides
<1>2. UndecidedGoesOn'
  BY LiarsAssumption, WinnerChecked, DecidesNext
     DEF LiarsInv, LiarsTypeOK, UndecidedGoesOn, Decides, Of, BackToLobby, choices, ballots, company, Playing, Present, Somebody, Unmade, Sides
<1>3. ChoicesAreFresh'
  BY LiarsAssumption, WinnerChecked
     DEF LiarsInv, LiarsTypeOK, ChoicesAreFresh, BackToLobby, choices, ballots, company, Playing, Present, Somebody, Unmade, Sides
<1>4. HostIsHere' /\ LobbyIsWhole'
  BY LiarsAssumption, WinnerChecked
     DEF LiarsInv, LiarsTypeOK, HostIsHere, LobbyIsWhole, BackToLobby, choices, ballots, company, Playing, Present, Somebody, Unmade, Sides
<1>5. QED BY <1>1, <1>2, <1>3, <1>4 DEF LiarsInv

LEMMA EndLiarsInv ==
  ASSUME LiarsInv, EndLiars
  PROVE  LiarsInv'
<1>1. LiarsTypeOK'
  BY LiarsAssumption, WinnerChecked, NoRunoff
     DEF LiarsInv, LiarsTypeOK, HostIsHere, LobbyIsWhole, EndLiars, choices, ballots, company, Playing, Present, Somebody, Unmade, Sides
<1>2. UndecidedGoesOn'
  BY LiarsAssumption, WinnerChecked, DecidesNext
     DEF LiarsInv, LiarsTypeOK, UndecidedGoesOn, Decides, Of, EndLiars, choices, ballots, company, Playing, Present, Somebody, Unmade, Sides
<1>3. ChoicesAreFresh'
  BY LiarsAssumption, WinnerChecked
     DEF LiarsInv, LiarsTypeOK, ChoicesAreFresh, EndLiars, choices, ballots, company, Playing, Present, Somebody, Unmade, Sides
<1>4. HostIsHere' /\ LobbyIsWhole'
  BY LiarsAssumption, WinnerChecked
     DEF LiarsInv, LiarsTypeOK, HostIsHere, LobbyIsWhole, EndLiars, choices, ballots, company, Playing, Present, Somebody, Unmade, Sides
<1>5. QED BY <1>1, <1>2, <1>3, <1>4 DEF LiarsInv

LEMMA NightSelectInv ==
  ASSUME LiarsInv, NEW p \in Players, NightSelect(p)
  PROVE  LiarsInv'
<1>1. LiarsTypeOK'
  BY LiarsAssumption, WinnerChecked, NoRunoff
     DEF LiarsInv, LiarsTypeOK, HostIsHere, LobbyIsWhole, NightSelect, choices, ballots, company, Playing, Present, Somebody, Unmade, Sides
<1>2. UndecidedGoesOn'
  BY LiarsAssumption, WinnerChecked, DecidesNext
     DEF LiarsInv, LiarsTypeOK, UndecidedGoesOn, Decides, Of, NightSelect, choices, ballots, company, Playing, Present, Somebody, Unmade, Sides
<1>3. ChoicesAreFresh'
  BY LiarsAssumption, WinnerChecked
     DEF LiarsInv, LiarsTypeOK, ChoicesAreFresh, NightSelect, choices, ballots, company, Playing, Present, Somebody, Unmade, Sides
<1>4. HostIsHere' /\ LobbyIsWhole'
  BY LiarsAssumption, WinnerChecked
     DEF LiarsInv, LiarsTypeOK, HostIsHere, LobbyIsWhole, NightSelect, choices, ballots, company, Playing, Present, Somebody, Unmade, Sides
<1>5. QED BY <1>1, <1>2, <1>3, <1>4 DEF LiarsInv

LEMMA EndNightInv ==
  ASSUME LiarsInv, EndNight, UNCHANGED <<game, company, role, grave>>
  PROVE  LiarsInv'
<1>1. LiarsTypeOK'
  BY LiarsAssumption, WinnerChecked, NoRunoff
     DEF LiarsInv, LiarsTypeOK, HostIsHere, LobbyIsWhole, EndNight, choices, ballots, company, Playing, Present, Somebody, Unmade, Sides
<1>2. UndecidedGoesOn'
  BY LiarsAssumption, WinnerChecked, DecidesNext
     DEF LiarsInv, LiarsTypeOK, UndecidedGoesOn, Decides, Of, EndNight, choices, ballots, company, Playing, Present, Somebody, Unmade, Sides
<1>3. ChoicesAreFresh'
  BY LiarsAssumption, WinnerChecked
     DEF LiarsInv, LiarsTypeOK, ChoicesAreFresh, EndNight, choices, ballots, company, Playing, Present, Somebody, Unmade, Sides
<1>4. HostIsHere' /\ LobbyIsWhole'
  BY LiarsAssumption, WinnerChecked
     DEF LiarsInv, LiarsTypeOK, HostIsHere, LobbyIsWhole, EndNight, choices, ballots, company, Playing, Present, Somebody, Unmade, Sides
<1>5. QED BY <1>1, <1>2, <1>3, <1>4 DEF LiarsInv

LEMMA ReadyToVoteInv ==
  ASSUME LiarsInv, ReadyToVote
  PROVE  LiarsInv'
<1>1. LiarsTypeOK'
  BY LiarsAssumption, WinnerChecked, NoRunoff
     DEF LiarsInv, LiarsTypeOK, HostIsHere, LobbyIsWhole, ReadyToVote, choices, ballots, company, Playing, Present, Somebody, Unmade, Sides
<1>2. UndecidedGoesOn'
  BY LiarsAssumption, WinnerChecked, DecidesNext
     DEF LiarsInv, LiarsTypeOK, UndecidedGoesOn, Decides, Of, ReadyToVote, choices, ballots, company, Playing, Present, Somebody, Unmade, Sides
<1>3. ChoicesAreFresh'
  BY LiarsAssumption, WinnerChecked
     DEF LiarsInv, LiarsTypeOK, ChoicesAreFresh, ReadyToVote, choices, ballots, company, Playing, Present, Somebody, Unmade, Sides
<1>4. HostIsHere' /\ LobbyIsWhole'
  BY LiarsAssumption, WinnerChecked
     DEF LiarsInv, LiarsTypeOK, HostIsHere, LobbyIsWhole, ReadyToVote, choices, ballots, company, Playing, Present, Somebody, Unmade, Sides
<1>5. QED BY <1>1, <1>2, <1>3, <1>4 DEF LiarsInv

LEMMA VoteCastInv ==
  ASSUME LiarsInv, NEW p \in Players, VoteCast(p)
  PROVE  LiarsInv'
<1>1. LiarsTypeOK'
  BY LiarsAssumption, WinnerChecked, NoRunoff
     DEF LiarsInv, LiarsTypeOK, HostIsHere, LobbyIsWhole, VoteCast, choices, ballots, company, Playing, Present, Somebody, Unmade, Sides
<1>2. UndecidedGoesOn'
  BY LiarsAssumption, WinnerChecked, DecidesNext
     DEF LiarsInv, LiarsTypeOK, UndecidedGoesOn, Decides, Of, VoteCast, choices, ballots, company, Playing, Present, Somebody, Unmade, Sides
<1>3. ChoicesAreFresh'
  BY LiarsAssumption, WinnerChecked
     DEF LiarsInv, LiarsTypeOK, ChoicesAreFresh, VoteCast, choices, ballots, company, Playing, Present, Somebody, Unmade, Sides
<1>4. HostIsHere' /\ LobbyIsWhole'
  BY LiarsAssumption, WinnerChecked
     DEF LiarsInv, LiarsTypeOK, HostIsHere, LobbyIsWhole, VoteCast, choices, ballots, company, Playing, Present, Somebody, Unmade, Sides
<1>5. QED BY <1>1, <1>2, <1>3, <1>4 DEF LiarsInv

LEMMA GraveyardVoteInv ==
  ASSUME LiarsInv, NEW p \in Players, GraveyardVote(p)
  PROVE  LiarsInv'
<1>1. LiarsTypeOK'
  BY LiarsAssumption, WinnerChecked, NoRunoff
     DEF LiarsInv, LiarsTypeOK, HostIsHere, LobbyIsWhole, GraveyardVote, choices, ballots, company, Playing, Present, Somebody, Unmade, Sides
<1>2. UndecidedGoesOn'
  BY LiarsAssumption, WinnerChecked, DecidesNext
     DEF LiarsInv, LiarsTypeOK, UndecidedGoesOn, Decides, Of, GraveyardVote, choices, ballots, company, Playing, Present, Somebody, Unmade, Sides
<1>3. ChoicesAreFresh'
  BY LiarsAssumption, WinnerChecked
     DEF LiarsInv, LiarsTypeOK, ChoicesAreFresh, GraveyardVote, choices, ballots, company, Playing, Present, Somebody, Unmade, Sides
<1>4. HostIsHere' /\ LobbyIsWhole'
  BY LiarsAssumption, WinnerChecked
     DEF LiarsInv, LiarsTypeOK, HostIsHere, LobbyIsWhole, GraveyardVote, choices, ballots, company, Playing, Present, Somebody, Unmade, Sides
<1>5. QED BY <1>1, <1>2, <1>3, <1>4 DEF LiarsInv

(* host.claim passes the role on as host.pass does. *)
LEMMA ClaimHostInv ==
  ASSUME LiarsInv, NEW p \in Players, ClaimHost(p)
  PROVE  LiarsInv'
  BY PassHostInv DEF ClaimHost

-----------------------------------------------------------------------------
(* The vote, and what the clock ends. *)

LEMMA LeadersArePlayers ==
  ASSUME NEW tally
  PROVE  Leaders(tally) \subseteq Players
  BY DEF Leaders

(* A vote is followed by a first runoff among two or more, or by a verdict. *)
LEMMA VoteResolved ==
  ASSUME LiarsTypeOK, ResolveVote
  PROVE  /\ ballot' = Unmade /\ locked' = {}
         /\ runoff' \subseteq Players /\ ejected' \in Somebody
         /\ \/ /\ phase' = phase /\ alive' = alive /\ Cardinality(runoff') # 1
            \/ /\ phase' = "verdict" /\ alive' \subseteq alive /\ runoff' = runoff
<1> DEFINE top == Leaders(Ballots)
<1>1. top \subseteq Players
  BY LeadersArePlayers
<1>2. ballot' = Unmade /\ locked' = {}
  BY DEF ResolveVote, FreshBallots
<1>3. CASE Tied(top)
  <2>1. runoff' = top /\ ejected' = Nobody /\ phase' = phase /\ alive' = alive
    BY <1>3 DEF ResolveVote
  <2>2. Cardinality(top) # 1
    <3>1. Cardinality(top) > 1
      BY <1>3 DEF Tied
    <3>2. QED BY <3>1
  <2>3. QED BY <1>1, <1>2, <2>1, <2>2 DEF Somebody
<1>4. CASE ~Tied(top)
  <2>1. /\ ejected' \in IF Cardinality(top) = 1 THEN top ELSE {Nobody}
        /\ alive' = alive \ {ejected'} /\ phase' = "verdict" /\ runoff' = runoff
    BY <1>4 DEF ResolveVote
  <2>2. QED BY <1>1, <1>2, <2>1 DEF Somebody, LiarsTypeOK
<1>5. QED BY <1>3, <1>4

(* What a round that begins leaves. *)
LEMMA RoundStarted ==
  ASSUME LiarsTypeOK, StartRound
  PROVE  /\ round' \in 0..MaxRounds /\ before' = target
         /\ target' = Unmade /\ ballot' = Unmade /\ locked' = {} /\ runoff' = {}
  BY LiarsAssumption DEF LiarsTypeOK, StartRound, MoreRounds, FreshBallots

LEMMA UnmadeIsAChoice == Unmade \in [Players -> Somebody]
  BY DEF Unmade, Somebody

(* The last lock or the deadline: the ballots are counted. *)
LEMMA ResolveVoteInv ==
  ASSUME LiarsInv, phase = "vote", ResolveVote,
         UNCHANGED <<round, game, company, role, choices, grave, winner>>
  PROVE  LiarsInv'
<1>1. LiarsTypeOK'
  BY VoteResolved, UnmadeIsAChoice
     DEF LiarsInv, LiarsTypeOK, choices, company, Playing, Present, Sides
<1>2. UndecidedGoesOn'
  BY VoteResolved, DecidesNext DEF LiarsInv, UndecidedGoesOn
<1>3. ChoicesAreFresh'
  BY VoteResolved DEF LiarsInv, ChoicesAreFresh, Playing
<1>4. HostIsHere' /\ LobbyIsWhole'
  BY VoteResolved DEF LiarsInv, HostIsHere, LobbyIsWhole, company, Present
<1>5. QED BY <1>1, <1>2, <1>3, <1>4 DEF LiarsInv

LEMMA VoteLockInv ==
  ASSUME LiarsInv, NEW p \in Players, VoteLock(p)
  PROVE  LiarsInv'
<1>1. CASE alive \subseteq locked \cup {p}
  <2>1. phase = "vote" /\ ResolveVote /\ UNCHANGED <<round, game, company, role, choices, grave, winner>>
    BY <1>1 DEF VoteLock
  <2>2. QED BY <2>1, ResolveVoteInv
<1>2. CASE ~(alive \subseteq locked \cup {p})
  <2>1. /\ phase = "vote" /\ locked' = locked \cup {p}
        /\ UNCHANGED <<phase, alive, ballot, runoff, ejected, round, game, company, role, choices,
                       grave, winner>>
    BY <1>2 DEF VoteLock
  <2>2. LiarsTypeOK'
    BY <2>1 DEF LiarsInv, LiarsTypeOK, choices, company, Playing, Present, Somebody
  <2>3. UndecidedGoesOn'
    BY <2>1, DecidesNext DEF LiarsInv, UndecidedGoesOn
  <2>4. ChoicesAreFresh' /\ HostIsHere' /\ LobbyIsWhole'
    BY <2>1 DEF LiarsInv, ChoicesAreFresh, HostIsHere, LobbyIsWhole, company, Present, Playing
  <2>5. QED BY <2>2, <2>3, <2>4 DEF LiarsInv
<1>3. QED BY <1>1, <1>2

(* The phases whose end decides nothing. *)
LEMMA PhaseOverInv ==
  ASSUME LiarsInv, DealOver \/ DawnOver \/ TalkOver, UNCHANGED <<game, company, role, grave>>
  PROVE  LiarsInv'
<1>1. CASE DealOver
  <2>1. LiarsTypeOK'
    BY <1>1, RoundStarted, UnmadeIsAChoice, NoRunoff
       DEF LiarsInv, LiarsTypeOK, DealOver, company, Playing, Present
  <2>2. UndecidedGoesOn' /\ ChoicesAreFresh' /\ HostIsHere' /\ LobbyIsWhole'
    BY <1>1, RoundStarted
       DEF LiarsInv, UndecidedGoesOn, ChoicesAreFresh, HostIsHere, LobbyIsWhole, DealOver, company,
           Playing, Present
  <2>3. QED BY <2>1, <2>2 DEF LiarsInv
<1>2. CASE DawnOver \/ TalkOver
  <2>1. /\ UNCHANGED <<round, game, company, alive, role, choices, ballots, grave, ejected, winner>>
        /\ phase' \in {"deliberation", "vote"} /\ phase \in {"dawn", "deliberation"}
    BY <1>2 DEF DawnOver, TalkOver
  <2>2. LiarsTypeOK'
    BY <2>1 DEF LiarsInv, LiarsTypeOK, choices, ballots, company, Playing, Present, Somebody
  <2>3. UndecidedGoesOn'
    BY <2>1, DecidesNext DEF LiarsInv, UndecidedGoesOn
  <2>4. ChoicesAreFresh' /\ HostIsHere' /\ LobbyIsWhole'
    BY <2>1 DEF LiarsInv, ChoicesAreFresh, HostIsHere, LobbyIsWhole, company, ballots, Present, Playing
  <2>5. QED BY <2>2, <2>3, <2>4 DEF LiarsInv
<1>3. QED BY <1>1, <1>2

LEMMA VerdictOverInv ==
  ASSUME LiarsInv, VerdictOver, UNCHANGED <<game, company, role, grave>>
  PROVE  LiarsInv'
<1>1. \/ phase' = "ending" /\ winner' \in Sides
      \/ phase' = "night" /\ winner' = winner
  BY WinnerChecked DEF VerdictOver
<1>2. phase = "verdict" /\ alive' = alive /\ ejected' = ejected
  BY DEF VerdictOver
<1>3. CASE phase' = "night"
  <2>1. StartRound /\ winner' = winner
    BY <1>1, <1>3 DEF VerdictOver
  <2>2. LiarsTypeOK'
    BY <1>2, <1>3, <2>1, RoundStarted, UnmadeIsAChoice, NoRunoff
       DEF LiarsInv, LiarsTypeOK, company, Playing, Present
  <2>3. UndecidedGoesOn' /\ ChoicesAreFresh' /\ HostIsHere' /\ LobbyIsWhole'
    BY <1>2, <1>3, <2>1, RoundStarted
       DEF LiarsInv, UndecidedGoesOn, ChoicesAreFresh, HostIsHere, LobbyIsWhole, company, Playing,
           Present
  <2>4. QED BY <2>2, <2>3 DEF LiarsInv
<1>4. CASE phase' = "ending"
  <2>1. UNCHANGED <<round, choices, ballots>> /\ winner' \in Sides
    BY <1>1, <1>4 DEF VerdictOver
  <2>2. LiarsTypeOK'
    BY <1>2, <1>4, <2>1, LiarsAssumption
       DEF LiarsInv, LiarsTypeOK, choices, ballots, company, Playing, Present, Somebody
  <2>3. UndecidedGoesOn' /\ ChoicesAreFresh' /\ HostIsHere' /\ LobbyIsWhole'
    BY <1>2, <1>4, <2>1
       DEF LiarsInv, UndecidedGoesOn, ChoicesAreFresh, HostIsHere, LobbyIsWhole, company, Playing,
           Present
  <2>4. QED BY <2>2, <2>3 DEF LiarsInv
<1>5. QED BY <1>1, <1>3, <1>4

LEMMA ElapseInv ==
  ASSUME LiarsInv, Elapse
  PROVE  LiarsInv'
<1>1. UNCHANGED <<game, company, role, grave>>
  BY DEF Elapse
<1>2. CASE DealOver \/ DawnOver \/ TalkOver
  BY <1>1, <1>2, PhaseOverInv
<1>3. CASE EndNight
  BY <1>1, <1>3, EndNightInv
<1>4. CASE VoteOver
  <2>1. phase = "vote" /\ ResolveVote /\ UNCHANGED <<round, choices, winner>>
    BY <1>4 DEF VoteOver
  <2>2. QED BY <1>1, <2>1, ResolveVoteInv
<1>5. CASE VerdictOver
  BY <1>1, <1>5, VerdictOverInv
<1>6. QED BY <1>2, <1>3, <1>4, <1>5 DEF Elapse

-----------------------------------------------------------------------------
LEMMA LiarsNextInv ==
  ASSUME LiarsInv, [LiarsNext]_liarsvars
  PROVE  LiarsInv'
<1>1. CASE \E p \in Players : JoinLiars(p) \/ Depart(p) \/ PassHost(p) \/ ClaimHost(p)
  BY <1>1, JoinLiarsInv, DepartInv, PassHostInv, ClaimHostInv
<1>2. CASE StartLiars \/ Replay \/ BackToLobby \/ EndLiars
  BY <1>2, StartLiarsInv, ReplayInv, BackToLobbyInv, EndLiarsInv
<1>3. CASE \E p \in Players : NightSelect(p) \/ VoteCast(p) \/ VoteLock(p) \/ GraveyardVote(p)
  BY <1>3, NightSelectInv, VoteCastInv, VoteLockInv, GraveyardVoteInv
<1>4. CASE ReadyToVote
  BY <1>4, ReadyToVoteInv
<1>5. CASE Elapse
  BY <1>5, ElapseInv
<1>6. CASE UNCHANGED liarsvars
  <2>1. UNCHANGED <<phase, round, game, seats, gone, host, alive, role, target, before, ballot, locked,
                    runoff, grave, ejected, winner>>
    BY <1>6 DEF liarsvars, company, choices, ballots
  <2>2. UndecidedGoesOn'
    BY <2>1, DecidesNext DEF LiarsInv, UndecidedGoesOn
  <2>3. LiarsTypeOK'
    BY <2>1 DEF LiarsInv, LiarsTypeOK, Playing, Present, Somebody
  <2>4. ChoicesAreFresh' /\ HostIsHere' /\ LobbyIsWhole'
    BY <2>1 DEF LiarsInv, ChoicesAreFresh, HostIsHere, LobbyIsWhole, Present, Playing
  <2>5. QED BY <2>2, <2>3, <2>4 DEF LiarsInv
<1>7. QED BY <1>1, <1>2, <1>3, <1>4, <1>5, <1>6 DEF LiarsNext

LEMMA LiarsInvAlways == LiarsSpec => []LiarsInv
<1>1. LiarsInv /\ [LiarsNext]_liarsvars => LiarsInv'
  BY LiarsNextInv
<1>2. QED BY LiarsInitInv, <1>1, PTL DEF LiarsSpec

(* The room's state is what its columns and the phase machine allow: the    *)
(* living are in the room, a runoff has candidates, and a game has a winner *)
(* exactly when it is in its ending.                                       *)
THEOREM LiarsTypeCorrect == LiarsSpec => []LiarsTypeOK
<1>1. LiarsInv => LiarsTypeOK
  BY DEF LiarsInv
<1>2. QED BY LiarsInvAlways, <1>1, PTL

(* checkWinner is run wherever somebody stops living: no day goes on in a   *)
(* game that the living have decided.                                      *)
THEOREM NoDecidedGameGoesOn == LiarsSpec => []UndecidedGoesOn
<1>1. LiarsInv => UndecidedGoesOn
  BY DEF LiarsInv
<1>2. QED BY LiarsInvAlways, <1>1, PTL

(* clearRoundState and dealRoles reset what was chosen: no ballot, lock or  *)
(* vote among the dead is counted in another round or game than its own.   *)
THEOREM NoStaleChoices == LiarsSpec => []ChoicesAreFresh
<1>1. LiarsInv => ChoicesAreFresh
  BY DEF LiarsInv
<1>2. QED BY LiarsInvAlways, <1>1, PTL

(* transferHost, host.pass and host.claim hand the role to somebody in the  *)
(* room, and somebody who goes hands it on.                                *)
THEOREM TheHostIsHere == LiarsSpec => []HostIsHere
<1>1. LiarsInv => HostIsHere
  BY DEF LiarsInv
<1>2. QED BY LiarsInvAlways, <1>1, PTL
=============================================================================
