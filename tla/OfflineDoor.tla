----------------------------- MODULE OfflineDoor -----------------------------
(***************************************************************************)
(* The door scanner's page: it redeems tickets at the server while there   *)
(* is a signal, decides from its downloaded manifest while there is none,  *)
(* and replays what it let in once the signal is back.                     *)
(*                                                                         *)
(* A page keeps its shift as React state, in a ref the handlers read, and   *)
(* in the tab's session storage.  A render draws the state; its passive    *)
(* effects run later, and write the shift that was drawn, not the latest,  *)
(* to the ref and the storage.  The scans and replays in progress          *)
(* interleave with both at every await, so a scan may be decided between   *)
(* a render and its effects.                                               *)
(*                                                                         *)
(* A queue has a code once, because whom the page let in it does not let   *)
(* in again.  Queues are sets: a replay takes their entries in any order,  *)
(* the order of the scans among them.                                      *)
(***************************************************************************)
EXTENDS Naturals, FiniteSets

CONSTANTS
  Codes,    \* access references, which a ticket's QR code carries
  Devices,  \* pages of the scanner
  MaxJobs,  \* bound: scans and replays in progress at once on a page
  MaxIn,    \* bound: offline admissions of one code on one page
  MaxLapses \* bound: codes that lose their force

VARIABLES
  row,       \* the server: what redeeming a code does, and whether it was done
  page,      \* per device, the page
  job,       \* per device, the scans and replays in progress
  letIn,     \* per device, how often each code was let in without the server
  refused,   \* per device, the codes a replay was refused
  unsaved,   \* per device, the admissions a reload lost before they were stored
  between    \* per device, the admissions between a render and its effects

history == <<unsaved, between>>
doorvars == <<row, page, job, letIn, refused, history>>

Jobs == 1..MaxJobs
NewShift(manifest) == [manifest |-> manifest, admitted |-> {}, queue |-> {}]
IdleJob == [kind |-> "idle", code |-> {}, todo |-> {}, synced |-> {}]

(* The copies are shifts of this event, and what is queued in one was let  *)
(* in; with no render to come the state is the one drawn, and with no      *)
(* effect to come either, so is the ref; a replay in progress has an entry *)
(* to send.                                                                *)
DoorTypeOK ==
  /\ row \in [Codes -> [status : {"valid", "refused"}, redeemed : BOOLEAN]]
  /\ \A d \in Devices :
       /\ {page[d].online, page[d].lit, page[d].shown, page[d].signal, page[d].dirty} \subseteq BOOLEAN
       /\ page[d].due \in {"no", "online", "shift"}
       /\ ~page[d].dirty => page[d].state = page[d].drawn
       /\ ~page[d].dirty /\ page[d].due # "shift" => page[d].ref = page[d].drawn
       /\ \A s \in {page[d].state, page[d].drawn, page[d].ref, page[d].saved} :
            /\ s.manifest \cup s.admitted \subseteq Codes
            /\ s.queue \subseteq s.admitted
       /\ \A j \in Jobs : /\ job[d][j].kind \in {"idle", "call", "hash", "sync"}
                          /\ job[d][j].kind = "sync" => job[d][j].todo # {}

DoorInit ==
  /\ row = [c \in Codes |-> [status |-> "valid", redeemed |-> FALSE]]
  /\ page = [d \in Devices |->
       [state |-> NewShift(Codes), drawn |-> NewShift(Codes), ref |-> NewShift(Codes),
        saved |-> NewShift({}), dirty |-> FALSE, due |-> "no",
        online |-> TRUE, lit |-> TRUE, shown |-> TRUE, signal |-> TRUE]]
  /\ job = [d \in Devices |-> [j \in Jobs |-> IdleJob]]
  /\ letIn = [d \in Devices |-> [c \in Codes |-> 0]]
  /\ refused = [d \in Devices |-> {}]
  /\ unsaved = [d \in Devices |-> {}] /\ between = [d \in Devices |-> {}]

-----------------------------------------------------------------------------
(* The server. *)

(* redeemTicket *)
Redeemed(c) == IF row[c].status = "valid" THEN [row EXCEPT ![c].redeemed = TRUE] ELSE row

(* buildDoorManifest: the valid tickets, those inside included. *)
Manifest == {c \in Codes : row[c].status = "valid"}

(* The code loses its force: a refund, a transfer, a dispute. *)
CodeLapses(c) ==
  /\ row[c].status = "valid" /\ Cardinality(Codes \ Manifest) < MaxLapses
  /\ row' = [row EXCEPT ![c].status = "refused"]
  /\ UNCHANGED <<page, job, letIn, refused, history>>

-----------------------------------------------------------------------------
(* The page. *)

SetPage(d, p) == page' = [page EXCEPT ![d] = p]
Free(d, j) == job[d][j] = IdleJob /\ \A i \in 1..(j - 1) : job[d][i] # IdleJob
SetJob(d, j, x) == job' = [job EXCEPT ![d][j] = x]

(* A replay starts for the queue in the ref, when the page shows that it   *)
(* is online again and the browser agrees.                                 *)
Replays(d, p) == p.signal /\ p.ref.queue # {}
StartReplay(d, p) ==
  IF Replays(d, p)
    THEN \E j \in Jobs : /\ Free(d, j)
                         /\ SetJob(d, j, [IdleJob EXCEPT !.kind = "sync", !.todo = p.ref.queue])
    ELSE UNCHANGED job

(* Mutant: the admissions are not stored either. *)
StoredQueue(s) == [s EXCEPT !.manifest = {}, !.admitted = {}]

(* The manifest is not stored. *)
Stored(s) == [s EXCEPT !.manifest = {}]

(* The page is drawn: the effects of the last time it was have run, and it *)
(* keeps which of its two dependencies changed.                            *)
Render(d) ==
  LET p == page[d] IN
  /\ p.due = "no" /\ (p.dirty \/ p.online # p.lit)
  /\ SetPage(d, [p EXCEPT !.drawn = p.state, !.lit = p.online, !.dirty = FALSE,
                          !.due = IF p.dirty THEN "shift" ELSE "online"])
  /\ UNCHANGED <<row, job, letIn, refused, history>>

(* The passive effects of a render, with the values it drew: the shift goes *)
(* to the ref and to the storage, which may refuse it; then comes the replay.  *)
Effects(d) ==
  LET p == page[d]
      q == [p EXCEPT !.ref = IF p.due = "shift" THEN p.drawn ELSE @,
                     !.shown = p.lit, !.due = "no"] IN
  /\ p.due # "no"
  /\ \E saved \in {p.saved} \cup (IF p.due = "shift" THEN {Stored(p.drawn)} ELSE {}) :
       SetPage(d, [q EXCEPT !.saved = saved])
  /\ IF p.lit /\ ~p.shown THEN StartReplay(d, q) ELSE UNCHANGED job
  /\ UNCHANGED <<row, letIn, refused, history>>

(* The browser's "online" and "offline" events. *)
SignalChanges(d) ==
  /\ SetPage(d, [page[d] EXCEPT !.signal = ~@, !.online = ~page[d].signal])
  /\ UNCHANGED <<row, job, letIn, refused, history>>

(* Mutant: a new manifest starts a new shift. *)
AppliedFresh(s, manifest) == NewShift(manifest)

(* applyManifest keeps whom the page let in. *)
Applied(s, manifest) == [s EXCEPT !.manifest = manifest]

(* refresh: the page hears from the server. *)
Refresh(d) ==
  /\ SetPage(d, [page[d] EXCEPT !.state = Applied(@, Manifest), !.dirty = TRUE,
                                !.online = @ \/ page[d].signal])
  /\ UNCHANGED <<row, job, letIn, refused, history>>

-----------------------------------------------------------------------------
(* handleScan *)

Scan(d, j, c) ==
  /\ Free(d, j)
  /\ SetJob(d, j, [IdleJob EXCEPT !.kind = IF page[d].signal THEN "call" ELSE "hash",
                                  !.code = {c}])
  /\ UNCHANGED <<row, page, letIn, refused, history>>

(* The server answers, and its verdict stands; a scanner whose link was    *)
(* turned off redeems nothing.                                             *)
ScanAnswered(d, j) ==
  /\ job[d][j].kind = "call"
  /\ \E c \in job[d][j].code : row' \in {row, Redeemed(c)}
  /\ SetJob(d, j, IdleJob)
  /\ UNCHANGED <<page, letIn, refused, history>>

(* No answer, carried out or not: the manifest decides. *)
ScanUnanswered(d, j) ==
  /\ job[d][j].kind = "call"
  /\ \E c \in job[d][j].code : row' \in {row, Redeemed(c)}
  /\ SetPage(d, [page[d] EXCEPT !.online = FALSE])
  /\ SetJob(d, j, [job[d][j] EXCEPT !.kind = "hash"])
  /\ UNCHANGED <<letIn, refused, history>>

(* The handler writes the ref and the state, whatever the ref holds then. *)
Decided(p, s, redraw) == [p EXCEPT !.ref = s, !.state = s, !.dirty = redraw]

(* recordOfflineScan, once the code is hashed, decides by the ref.  A      *)
(* refusal too makes the state what the ref is, an update that is not      *)
(* rendered yet included; it is drawn again unless the ref is the very     *)
(* shift that was drawn.                                                   *)
ScanDecided(d, j) ==
  /\ job[d][j].kind = "hash"
  /\ \E c \in job[d][j].code :
       LET p == page[d]
           s == p.ref IN
       IF c \in s.manifest /\ c \notin s.admitted
         THEN /\ letIn[d][c] < MaxIn
              /\ SetPage(d, Decided(p, [s EXCEPT !.admitted = @ \cup {c},
                                                 !.queue = @ \cup {c}], TRUE))
              /\ letIn' = [letIn EXCEPT ![d][c] = @ + 1]
              /\ between' = IF p.due = "shift" THEN [between EXCEPT ![d] = @ \cup {c}] ELSE between
         ELSE /\ \E other \in {FALSE, p.due = "shift"} :
                   SetPage(d, Decided(p, s, s # p.drawn \/ other))
              /\ UNCHANGED <<letIn, between>>
  /\ SetJob(d, j, IdleJob)
  /\ UNCHANGED <<row, refused, unsaved>>

-----------------------------------------------------------------------------
(* syncQueue *)

(* Mutant: the whole queue is dropped after a replay. *)
ClearedAll(s, synced) == [s EXCEPT !.queue = {}]

(* clearSynced *)
Cleared(s, synced) == [s EXCEPT !.queue = @ \ synced]

(* The server answers for an entry, whatever its verdict; after the last   *)
(* one, the entries that were answered leave the queue.  The refresh that  *)
(* follows is a request of its own, which may fail.                        *)
ReplayAnswered(d, j) ==
  /\ job[d][j].kind = "sync"
  /\ \E c \in job[d][j].todo :
       LET x == [job[d][j] EXCEPT !.todo = @ \ {c}, !.synced = @ \cup {c}] IN
       /\ row' = Redeemed(c)
       /\ refused' = IF row[c].status = "valid" THEN refused
                      ELSE [refused EXCEPT ![d] = @ \cup {c}]
       /\ IF x.todo # {}
            THEN SetJob(d, j, x) /\ UNCHANGED page
            ELSE /\ SetJob(d, j, IdleJob)
                 /\ SetPage(d, [page[d] EXCEPT !.state = Cleared(@, x.synced), !.dirty = TRUE])
  /\ UNCHANGED <<letIn, history>>

(* The link was turned off, or no answer came: the rest stays queued, and  *)
(* the state is left alone when nothing was answered.                      *)
ReplayStops(d, j) ==
  /\ job[d][j].kind = "sync"
  /\ \E c \in job[d][j].todo : row' \in {row, Redeemed(c)}
  /\ \E online \in {page[d].online, FALSE} :
       SetPage(d, [page[d] EXCEPT !.online = online,
                                  !.state = Cleared(@, job[d][j].synced),
                                  !.dirty = @ \/ job[d][j].synced # {}])
  /\ SetJob(d, j, IdleJob)
  /\ UNCHANGED <<letIn, refused, history>>

-----------------------------------------------------------------------------
(* The page is loaded again, and drawn for the first time: a new manifest  *)
(* and the shift that was stored, whose queue the effects will replay.     *)
(* Whatever was in progress is gone.                                       *)
Reload(d) ==
  LET shift == Applied(page[d].saved, Manifest)
      p == [page[d] EXCEPT !.state = shift, !.drawn = shift, !.ref = shift,
                           !.dirty = FALSE, !.due = "shift",
                           !.online = TRUE, !.lit = TRUE, !.shown = FALSE]
      known == page[d].state.admitted \cup page[d].ref.admitted IN
  /\ page[d].signal
  /\ SetPage(d, p)
  /\ job' = [job EXCEPT ![d] = [j \in Jobs |-> IdleJob]]
  /\ unsaved' = [unsaved EXCEPT ![d] = @ \cup (known \ shift.admitted)]
  /\ UNCHANGED <<row, letIn, refused, between>>

DoorNext ==
  \/ \E c \in Codes : CodeLapses(c)
  \/ \E d \in Devices :
       \/ Render(d) \/ Effects(d) \/ SignalChanges(d) \/ Refresh(d) \/ Reload(d)
       \/ \E j \in Jobs :
            \/ \E c \in Codes : Scan(d, j, c)
            \/ ScanAnswered(d, j) \/ ScanUnanswered(d, j) \/ ScanDecided(d, j)
            \/ ReplayAnswered(d, j) \/ ReplayStops(d, j)

DoorSpec == DoorInit /\ [][DoorNext]_doorvars

-----------------------------------------------------------------------------
(* "Those people are already inside, and forgetting that would let the     *)
(* same ticket admit twice": without the server a page lets a code in      *)
(* once, through every refresh, replay, render and reload, unless a reload *)
(* came before the admission was stored, or the scan was decided between a *)
(* render and its effects.                                                 *)
OfflineOnce ==
  \A d \in Devices, c \in Codes : letIn[d][c] > 1 => c \in unsaved[d] \cup between[d]

(* "Drop entries the server has now accepted, preserving anything still    *)
(* pending": whoever was let in without the server is in the queue, or is  *)
(* checked in at the server, or was refused by it when the replay came;    *)
(* although scans go on during a replay, replays overlap and stop half-way *)
(* and pages are reloaded.  The exceptions are those of OfflineOnce.       *)
NothingUnsent ==
  \A d \in Devices, c \in Codes :
    letIn[d][c] > 0 => \/ c \in page[d].state.queue
                       \/ row[c].redeemed
                       \/ c \in refused[d]
                       \/ c \in unsaved[d] \cup between[d]
=============================================================================
