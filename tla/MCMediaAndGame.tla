--------------------------- MODULE MCMediaAndGame ---------------------------
(* A transfer's file, with the ledger's operations named by its attempts'   *)
(* tokens; and a table of four (the smallest real one has five).  Each part *)
(* is explored with the other at rest.                                     *)
EXTENDS TransferMedia, LiarsRoom
CONSTANTS w1, p1, p2, p3, p4

AttemptTokens == 1..MaxTokens

TwoDeals ==
  {[p \in Players |-> CASE p = p1 -> "mafia" [] p = p2 -> "doctor" [] OTHER -> "villager"],
   [p \in Players |-> CASE p = p1 -> "doctor" [] p = p2 -> "jester" [] p = p3 -> "mafia"
                        [] OTHER -> "villager"]}

(* The types of the parts, with what ties one column to another: leases to  *)
(* claims, attempts to their limit, an ending to its winner.               *)
TypesOK == OpsTypeOK /\ MediaTypeOK /\ LiarsTypeOK

VARIABLE part

MediaSteps == part = "media" /\ MediaNext /\ UNCHANGED <<liarsvars, part>>

(* A table starts when it is full.  A game that ended is followed into the  *)
(* next one, by way of the lobby or not, up to its first vote; a host ends  *)
(* a game early while it is dealt.  The role of host passes to p2 while p2  *)
(* lives, and to anybody else then.                                        *)
GameSteps ==
  /\ part = "game"
  /\ LiarsNext
  /\ phase = "lobby" /\ game = 1 => phase' # "lobby"
  /\ phase = "ending" => game' = 2
  /\ game' # game => phase = "ending"
  /\ game' = 2 => phase' # "vote"
  /\ phase # "deal" /\ phase' = "ending"
       => winner' \in {Decides(alive', ejected), Decides(alive', Nobody)}
  /\ host' # host /\ p2 \in alive' => host' \in Leads \cup {p2}
  /\ UNCHANGED <<mvars, part>>

MCInit == MediaInit /\ LiarsInit /\ part \in {"media", "game"}
MCSpec == MCInit /\ [][MediaSteps \/ GameSteps]_<<mvars, liarsvars, part>>
=============================================================================
