------------------------- MODULE OfflineDoorProofs -------------------------
(***************************************************************************)
(* The scanner's page, for any codes, pages, handlers in progress and      *)
(* number of scans.  The argument is that an admission is in the ref, which *)
(* a scan is decided from, in the state, and in the shift an effect is     *)
(* about to write to the ref, so that no refresh, replay or render forgets *)
(* it, unless it was made before that effect ran; and that in each of the  *)
(* four copies it leaves the queue only for an answer of the server.       *)
(***************************************************************************)
EXTENDS OfflineDoor, TLAPS

Shift == [manifest : SUBSET Codes, admitted : SUBSET Codes, queue : SUBSET Codes]
PageRow == [state : Shift, drawn : Shift, ref : Shift, saved : Shift,
            dirty : BOOLEAN, due : {"no", "online", "shift"},
            online : BOOLEAN, lit : BOOLEAN, shown : BOOLEAN, signal : BOOLEAN]
JobRow == [kind : {"idle", "call", "hash", "sync"}, code : SUBSET Codes,
           todo : SUBSET Codes, synced : SUBSET Codes]
CodeRow == [status : {"valid", "refused"}, redeemed : BOOLEAN]

Rows ==
  /\ row \in [Codes -> CodeRow]
  /\ page \in [Devices -> PageRow]
  /\ job \in [Devices -> [Jobs -> JobRow]]
  /\ letIn \in [Devices -> [Codes -> Nat]]
  /\ refused \in [Devices -> SUBSET Codes]
  /\ unsaved \in [Devices -> SUBSET Codes] /\ between \in [Devices -> SUBSET Codes]

(* The server gave its verdict on what the page asked it to redeem. *)
Answered(d, c) == row[c].redeemed \/ c \in refused[d]

(* In each copy, whom the page let in is queued or answered. *)
Kept(d, s) ==
  /\ s.queue \subseteq s.admitted
  /\ \A c \in s.admitted : c \in s.queue \/ Answered(d, c)

KeptPage(d, p) == Kept(d, p.state) /\ Kept(d, p.drawn) /\ Kept(d, p.ref) /\ Kept(d, p.saved)

(* With no render to come the state is the one drawn; with no effect to    *)
(* come either, so is the ref.                                             *)
Settled(p) ==
  /\ ~p.dirty => p.state = p.drawn
  /\ ~p.dirty /\ p.due # "shift" => p.ref = p.drawn

Copies == \A d \in Devices : Settled(page[d]) /\ KeptPage(d, page[d])

(* A replay has an entry to send, and what it counts as sent was answered. *)
Replay(d, x) ==
  /\ x.kind = "sync" => x.todo # {}
  /\ \A c \in x.synced : Answered(d, c)

Replaying == \A d \in Devices, j \in Jobs : Replay(d, job[d][j])

(* The page knows that it let c in, and no effect will make it forget. *)
Knows(p, c) ==
  /\ c \in p.state.admitted /\ c \in p.ref.admitted
  /\ p.due = "shift" => c \in p.drawn.admitted

(* It knows whom it let in, once, unless a reload or an effect lost it. *)
Remembered ==
  \A d \in Devices, c \in Codes :
    \/ c \in unsaved[d] \/ c \in between[d]
    \/ letIn[d][c] <= 1 /\ (letIn[d][c] > 0 => Knows(page[d], c))

DoorInv == Rows /\ Copies /\ Replaying /\ Remembered

-----------------------------------------------------------------------------
(* Records of the page. *)
LEMMA IdleRow == IdleJob \in JobRow /\ IdleJob.kind = "idle" /\ IdleJob.todo = {} /\ IdleJob.synced = {}
  BY DEF IdleJob, JobRow

LEMMA RowsOf ==
  ASSUME Rows, NEW d \in Devices
  PROVE  /\ page[d] \in PageRow /\ refused[d] \in SUBSET Codes
         /\ unsaved[d] \in SUBSET Codes /\ between[d] \in SUBSET Codes
         /\ page[d].state \in Shift /\ page[d].drawn \in Shift
         /\ page[d].ref \in Shift /\ page[d].saved \in Shift
         /\ job[d] \in [Jobs -> JobRow] /\ letIn[d] \in [Codes -> Nat]
  BY DEF Rows, PageRow

(* What the server answered stays answered. *)
AnswersStay == \A d \in Devices, c \in Codes : Answered(d, c) => Answered(d, c)'

LEMMA RedeemedKeeps ==
  ASSUME Rows, NEW c \in Codes
  PROVE  /\ Redeemed(c) \in [Codes -> CodeRow]
         /\ \A b \in Codes : row[b].redeemed => Redeemed(c)[b].redeemed
         /\ row[c].status = "valid" => Redeemed(c)[c].redeemed
         /\ \A b \in Codes : Redeemed(c)[b].status = row[b].status
  BY DEF Redeemed, Rows, CodeRow

LEMMA RedeemingAnswers ==
  ASSUME Rows, NEW C \in SUBSET Codes, \E c \in C : row' \in {row, Redeemed(c)},
         UNCHANGED refused
  PROVE  row' \in [Codes -> CodeRow] /\ AnswersStay
<1>1. PICK c \in C : row' \in {row, Redeemed(c)}
  OBVIOUS
<1>2. c \in Codes
  OBVIOUS
<1>3. row' \in [Codes -> CodeRow] /\ \A b \in Codes : row[b].redeemed => row'[b].redeemed
  BY <1>1, <1>2, RedeemedKeeps DEF Rows
<1>4. QED BY <1>3 DEF AnswersStay, Answered

(* The same of a copy and of a handler, once the step is done. *)
KeptThen(d, s) ==
  /\ s.queue \subseteq s.admitted
  /\ \A c \in s.admitted : c \in s.queue \/ Answered(d, c)'
KeptPageThen(d, p) ==
  KeptThen(d, p.state) /\ KeptThen(d, p.drawn) /\ KeptThen(d, p.ref) /\ KeptThen(d, p.saved)
ReplayThen(d, x) ==
  /\ x.kind = "sync" => x.todo # {}
  /\ \A c \in x.synced : Answered(d, c)'

LEMMA KeptStays ==
  ASSUME NEW d \in Devices, NEW s \in Shift, Kept(d, s), AnswersStay
  PROVE  KeptThen(d, s)
  BY DEF Kept, KeptThen, AnswersStay, Shift

LEMMA ReplayStays ==
  ASSUME NEW d \in Devices, NEW x \in JobRow, Replay(d, x), AnswersStay
  PROVE  ReplayThen(d, x)
  BY DEF Replay, ReplayThen, AnswersStay, JobRow

(* A handler is set: the others of the page go on. *)
LEMMA JobsSet ==
  ASSUME DoorInv, NEW d \in Devices, NEW j \in Jobs, AnswersStay,
         NEW x \in JobRow, ReplayThen(d, x), SetJob(d, j, x)
  PROVE  \E y \in [Jobs -> JobRow] : /\ job' = [job EXCEPT ![d] = y]
                                     /\ \A i \in Jobs : ReplayThen(d, y[i])
<1> DEFINE y == [job[d] EXCEPT ![j] = x]
<1>1. job[d] \in [Jobs -> JobRow] /\ \A i \in Jobs : Replay(d, job[d][i])
  BY RowsOf DEF DoorInv, Replaying
<1>2. y \in [Jobs -> JobRow] /\ job' = [job EXCEPT ![d] = y]
  BY <1>1 DEF SetJob, DoorInv, Rows
<1>3. \A i \in Jobs : ReplayThen(d, job[d][i])
  BY <1>1, ReplayStays
<1>4. \A i \in Jobs : y[i] = IF i = j THEN x ELSE job[d][i]
  BY <1>1
<1>5. \A i \in Jobs : ReplayThen(d, y[i])
  <2> HIDE DEF y
  <2> SUFFICES ASSUME NEW i \in Jobs PROVE ReplayThen(d, y[i])
    OBVIOUS
  <2>1. CASE i = j
    BY <1>4, <2>1
  <2>2. CASE i # j
    BY <1>3, <1>4, <2>2
  <2>3. QED BY <2>1, <2>2
<1>6. QED BY <1>2, <1>5

LEMMA JobsStay ==
  ASSUME DoorInv, NEW d \in Devices, AnswersStay, UNCHANGED job
  PROVE  \E y \in [Jobs -> JobRow] : /\ job' = [job EXCEPT ![d] = y]
                                     /\ \A i \in Jobs : ReplayThen(d, y[i])
<1>1. job[d] \in [Jobs -> JobRow] /\ \A i \in Jobs : Replay(d, job[d][i])
  BY RowsOf DEF DoorInv, Replaying
<1>2. \A i \in Jobs : ReplayThen(d, job[d][i])
  BY <1>1, ReplayStays
<1>3. job' = [job EXCEPT ![d] = job[d]]
  BY DEF DoorInv, Rows
<1>4. QED BY <1>1, <1>2, <1>3

LEMMA IdleReplays ==
  ASSUME NEW d \in Devices
  PROVE  ReplayThen(d, IdleJob)
  BY IdleRow DEF ReplayThen

(* The replay of what the ref has queued. *)
LEMMA ReplayStarts ==
  ASSUME NEW d \in Devices, NEW q \in SUBSET Codes, q # {}
  PROVE  /\ [IdleJob EXCEPT !.kind = "sync", !.todo = q] \in JobRow
         /\ ReplayThen(d, [IdleJob EXCEPT !.kind = "sync", !.todo = q])
  BY DEF IdleJob, JobRow, ReplayThen

-----------------------------------------------------------------------------
(* A step of one page: the server answers more, the page becomes p and the *)
(* handlers x.                                                             *)
LEMMA PageStep ==
  ASSUME DoorInv, NEW d \in Devices, AnswersStay, row' \in [Codes -> CodeRow],
         refused' \in [Devices -> SUBSET Codes],
         NEW p \in PageRow, page' = [page EXCEPT ![d] = p], Settled(p), KeptPageThen(d, p),
         NEW x \in [Jobs -> JobRow], job' = [job EXCEPT ![d] = x],
         \A j \in Jobs : ReplayThen(d, x[j]),
         letIn' \in [Devices -> [Codes -> Nat]],
         unsaved' \in [Devices -> SUBSET Codes], between' \in [Devices -> SUBSET Codes],
         \A e \in Devices \ {d} : /\ letIn'[e] = letIn[e]
                                  /\ unsaved'[e] = unsaved[e] /\ between'[e] = between[e],
         \A c \in Codes : \/ c \in unsaved'[d] \/ c \in between'[d]
                          \/ letIn'[d][c] <= 1 /\ (letIn'[d][c] > 0 => Knows(p, c))
  PROVE  DoorInv'
<1>1. page' \in [Devices -> PageRow] /\ page'[d] = p
      /\ \A e \in Devices \ {d} : page'[e] = page[e]
  BY DEF DoorInv, Rows
<1>2. job' \in [Devices -> [Jobs -> JobRow]] /\ job'[d] = x
      /\ \A e \in Devices \ {d} : job'[e] = job[e]
  BY DEF DoorInv, Rows
<1>3. Rows'
  BY <1>1, <1>2 DEF Rows
<1>4. Copies'
  <2> SUFFICES ASSUME NEW e \in Devices PROVE Settled(page[e])' /\ KeptPage(e, page[e])'
    BY DEF Copies
  <2>1. CASE e = d
    BY <1>1, <2>1 DEF Settled, KeptPage, KeptPageThen, Kept, KeptThen, Answered
  <2>2. CASE e # d
    <3>1. /\ page'[e] = page[e] /\ page[e].state \in Shift /\ page[e].drawn \in Shift
          /\ page[e].ref \in Shift /\ page[e].saved \in Shift
      BY <1>1, <2>2, RowsOf DEF DoorInv
    <3>2. Settled(page[e]) /\ KeptPage(e, page[e])
      BY DEF DoorInv, Copies
    <3>3. QED BY <3>1, <3>2 DEF Settled, KeptPage, Kept, AnswersStay, Shift
  <2>3. QED BY <2>1, <2>2
<1>5. Replaying'
  <2> SUFFICES ASSUME NEW e \in Devices, NEW j \in Jobs PROVE Replay(e, job[e][j])'
    BY DEF Replaying
  <2>1. CASE e = d
    <3>1. ReplayThen(d, x[j])
      OBVIOUS
    <3>2. QED BY <1>2, <2>1, <3>1 DEF Replay, ReplayThen, Answered
  <2>2. CASE e # d
    <3>1. job'[e][j] = job[e][j] /\ job[e][j] \in JobRow /\ Replay(e, job[e][j])
      BY <1>2, <2>2 DEF DoorInv, Rows, Replaying
    <3>2. QED BY <3>1 DEF Replay, AnswersStay, JobRow
  <2>3. QED BY <2>1, <2>2
<1>6. Remembered'
  <2> SUFFICES ASSUME NEW e \in Devices, NEW c \in Codes
               PROVE  \/ c \in unsaved'[e] \/ c \in between'[e]
                      \/ letIn'[e][c] <= 1 /\ (letIn'[e][c] > 0 => Knows(page'[e], c))
    BY DEF Remembered, Knows
  <2>1. CASE e = d
    BY <1>1, <2>1
  <2>2. CASE e # d
    BY <1>1, <2>2 DEF DoorInv, Remembered
  <2>3. QED BY <2>1, <2>2
<1>7. QED BY <1>3, <1>4, <1>5, <1>6 DEF DoorInv

(* The same, when nobody is let in and nothing is lost. *)
LEMMA QuietStep ==
  ASSUME DoorInv, NEW d \in Devices, AnswersStay, row' \in [Codes -> CodeRow],
         refused' \in [Devices -> SUBSET Codes], UNCHANGED <<letIn, unsaved, between>>,
         NEW p \in PageRow, page' = [page EXCEPT ![d] = p], Settled(p), KeptPageThen(d, p),
         \A c \in Codes : Knows(page[d], c) => Knows(p, c),
         NEW x \in [Jobs -> JobRow], job' = [job EXCEPT ![d] = x],
         \A j \in Jobs : ReplayThen(d, x[j])
  PROVE  DoorInv'
<1>1. /\ letIn' \in [Devices -> [Codes -> Nat]]
      /\ unsaved' \in [Devices -> SUBSET Codes] /\ between' \in [Devices -> SUBSET Codes]
  BY DEF DoorInv, Rows
<1>2. \A c \in Codes : \/ c \in unsaved'[d] \/ c \in between'[d]
                       \/ letIn'[d][c] <= 1 /\ (letIn'[d][c] > 0 => Knows(p, c))
  BY DEF DoorInv, Remembered
<1>3. \A e \in Devices \ {d} : /\ letIn'[e] = letIn[e]
                               /\ unsaved'[e] = unsaved[e] /\ between'[e] = between[e]
  OBVIOUS
<1>4. QED BY <1>1, <1>2, <1>3, PageStep

-----------------------------------------------------------------------------
(* Steps of the server alone. *)
LEMMA NothingAnswered ==
  ASSUME UNCHANGED <<row, refused>>
  PROVE  AnswersStay
  BY DEF AnswersStay, Answered

LEMMA LapseInv ==
  ASSUME DoorInv, NEW c \in Codes, CodeLapses(c)
  PROVE  DoorInv'
<1>1. row' \in [Codes -> CodeRow] /\ \A b \in Codes : row'[b].redeemed = row[b].redeemed
  BY DEF CodeLapses, DoorInv, Rows, CodeRow
<1>2. UNCHANGED <<page, job, letIn, refused, unsaved, between>>
  BY DEF CodeLapses, history
<1>3. Rows'
  BY <1>1, <1>2 DEF DoorInv, Rows
<1>4. \A d \in Devices, b \in Codes : Answered(d, b)' <=> Answered(d, b)
  BY <1>1, <1>2 DEF Answered
<1>5. Copies'
  BY <1>2, <1>4, RowsOf DEF DoorInv, Copies, Settled, KeptPage, Kept, Shift
<1>6. Replaying'
  BY <1>2, <1>4 DEF DoorInv, Rows, Replaying, Replay, JobRow
<1>7. Remembered'
  BY <1>2 DEF DoorInv, Remembered, Knows
<1>8. QED BY <1>3, <1>5, <1>6, <1>7 DEF DoorInv

-----------------------------------------------------------------------------
(* The page's copies and its network. *)
LEMMA CopiesOf ==
  ASSUME DoorInv, NEW d \in Devices
  PROVE  /\ page[d] \in PageRow /\ page[d].state \in Shift /\ page[d].drawn \in Shift
         /\ page[d].ref \in Shift /\ page[d].saved \in Shift
         /\ Settled(page[d]) /\ KeptPage(d, page[d])
         /\ AnswersStay => KeptPageThen(d, page[d])
<1>1. /\ page[d] \in PageRow /\ page[d].state \in Shift /\ page[d].drawn \in Shift
      /\ page[d].ref \in Shift /\ page[d].saved \in Shift
  BY RowsOf DEF DoorInv
<1>2. Settled(page[d]) /\ KeptPage(d, page[d])
  BY DEF DoorInv, Copies
<1>3. QED BY <1>1, <1>2, KeptStays DEF KeptPage, KeptPageThen

LEMMA ManifestIsCodes == Manifest \in SUBSET Codes
  BY DEF Manifest

(* A new manifest, or none, changes nothing of an admission. *)
LEMMA AppliedKeeps ==
  ASSUME NEW d \in Devices, NEW s \in Shift, NEW m \in SUBSET Codes
  PROVE  /\ Applied(s, m) \in Shift /\ Applied(s, m).admitted = s.admitted
         /\ Applied(s, m).queue = s.queue
         /\ KeptThen(d, s) => KeptThen(d, Applied(s, m))
         /\ Stored(s) \in Shift /\ Stored(s).admitted = s.admitted
         /\ KeptThen(d, s) => KeptThen(d, Stored(s))
  BY DEF Applied, Stored, Shift, KeptThen

LEMMA ReplayOfPage ==
  ASSUME DoorInv, NEW d \in Devices, AnswersStay, NEW p \in PageRow, StartReplay(d, p)
  PROVE  \E y \in [Jobs -> JobRow] : /\ job' = [job EXCEPT ![d] = y]
                                     /\ \A i \in Jobs : ReplayThen(d, y[i])
<1>1. CASE Replays(d, p)
  <2> DEFINE x == [IdleJob EXCEPT !.kind = "sync", !.todo = p.ref.queue]
  <2>1. p.ref.queue \in SUBSET Codes /\ p.ref.queue # {}
    BY <1>1 DEF Replays, PageRow, Shift
  <2>2. PICK j \in Jobs : SetJob(d, j, x)
    BY <1>1 DEF StartReplay
  <2>3. x \in JobRow /\ ReplayThen(d, x)
    BY <2>1, ReplayStarts
  <2> HIDE DEF x
  <2>4. QED BY <2>2, <2>3, JobsSet
<1>2. CASE ~Replays(d, p)
  BY <1>2, JobsStay DEF StartReplay
<1>3. QED BY <1>1, <1>2

LEMMA RenderInv ==
  ASSUME DoorInv, NEW d \in Devices, Render(d)
  PROVE  DoorInv'
<1> DEFINE due == IF page[d].dirty THEN "shift" ELSE "online"
           p == [page[d] EXCEPT !.drawn = page[d].state, !.lit = page[d].online,
                                !.dirty = FALSE, !.due = due]
<1>1. UNCHANGED <<row, job, letIn, refused, unsaved, between>>
      /\ page' = [page EXCEPT ![d] = p] /\ page[d].due = "no"
  BY DEF Render, SetPage, history
<1>2. AnswersStay /\ row' \in [Codes -> CodeRow] /\ refused' \in [Devices -> SUBSET Codes]
  BY <1>1, NothingAnswered DEF DoorInv, Rows
<1>3. PICK y \in [Jobs -> JobRow] : /\ job' = [job EXCEPT ![d] = y]
                                   /\ \A i \in Jobs : ReplayThen(d, y[i])
  BY <1>1, <1>2, JobsStay
<1>4. /\ page[d] \in PageRow /\ page[d].state \in Shift
      /\ Settled(page[d]) /\ KeptPageThen(d, page[d])
  BY <1>2, CopiesOf
<1>5. due \in {"online", "shift"} /\ (due # "shift" => ~page[d].dirty)
  OBVIOUS
<1> HIDE DEF due
<1>6. /\ p \in PageRow /\ p.state = page[d].state /\ p.drawn = page[d].state
      /\ p.ref = page[d].ref /\ p.saved = page[d].saved /\ p.due = due /\ p.dirty = FALSE
  BY <1>4, <1>5 DEF PageRow
<1> HIDE DEF p
<1>7. Settled(p)
  BY <1>1, <1>4, <1>5, <1>6 DEF Settled
<1>8. KeptPageThen(d, p)
  BY <1>4, <1>6 DEF KeptPageThen
<1>9. \A c \in Codes : Knows(page[d], c) => Knows(p, c)
  BY <1>6 DEF Knows
<1>10. QED BY <1>1, <1>2, <1>3, <1>6, <1>7, <1>8, <1>9, QuietStep

LEMMA EffectsInv ==
  ASSUME DoorInv, NEW d \in Devices, Effects(d)
  PROVE  DoorInv'
<1> DEFINE ref == IF page[d].due = "shift" THEN page[d].drawn ELSE page[d].ref
           q == [page[d] EXCEPT !.ref = ref, !.shown = page[d].lit, !.due = "no"]
<1>1. UNCHANGED <<row, letIn, refused, unsaved, between>>
  BY DEF Effects, history
<1>2. AnswersStay /\ row' \in [Codes -> CodeRow] /\ refused' \in [Devices -> SUBSET Codes]
  BY <1>1, NothingAnswered DEF DoorInv, Rows
<1>3. PICK saved \in {Stored(page[d].drawn), page[d].saved} : SetPage(d, [q EXCEPT !.saved = saved])
  BY DEF Effects
<1>4. /\ page[d] \in PageRow /\ page[d].drawn \in Shift /\ page[d].ref \in Shift
      /\ page[d].saved \in Shift /\ Settled(page[d]) /\ KeptPageThen(d, page[d])
  BY <1>2, CopiesOf
<1>5. saved \in Shift /\ KeptThen(d, saved)
  BY <1>3, <1>4, AppliedKeeps DEF KeptPageThen
<1>6. ref \in Shift /\ KeptThen(d, ref) /\ (~page[d].dirty => ref = page[d].drawn)
      /\ \A c \in Codes : Knows(page[d], c) => c \in ref.admitted
  BY <1>4 DEF KeptPageThen, Settled, Knows
<1> HIDE DEF ref
<1> DEFINE p == [q EXCEPT !.saved = saved]
<1>7. /\ q \in PageRow /\ p \in PageRow /\ page' = [page EXCEPT ![d] = p]
      /\ p.state = page[d].state /\ p.drawn = page[d].drawn /\ p.ref = ref /\ p.saved = saved
      /\ p.due = "no" /\ p.dirty = page[d].dirty
  BY <1>3, <1>4, <1>5, <1>6 DEF SetPage, PageRow
<1>8. \E y \in [Jobs -> JobRow] : /\ job' = [job EXCEPT ![d] = y]
                                  /\ \A i \in Jobs : ReplayThen(d, y[i])
  <2>1. StartReplay(d, q) \/ UNCHANGED job
    BY DEF Effects, ref
  <2> HIDE DEF q
  <2>2. QED BY <1>2, <1>7, <2>1, ReplayOfPage, JobsStay
<1> HIDE DEF p
<1>9. Settled(p)
  BY <1>4, <1>6, <1>7 DEF Settled
<1>10. KeptPageThen(d, p)
  BY <1>4, <1>5, <1>6, <1>7 DEF KeptPageThen
<1>11. \A c \in Codes : Knows(page[d], c) => Knows(p, c)
  BY <1>6, <1>7 DEF Knows
<1>12. QED BY <1>1, <1>2, <1>7, <1>8, <1>9, <1>10, <1>11, QuietStep

LEMMA SignalInv ==
  ASSUME DoorInv, NEW d \in Devices, SignalChanges(d)
  PROVE  DoorInv'
<1>1. UNCHANGED <<row, job, letIn, refused, unsaved, between>>
  BY DEF SignalChanges, history
<1>2. AnswersStay /\ row' \in [Codes -> CodeRow] /\ refused' \in [Devices -> SUBSET Codes]
  BY <1>1, NothingAnswered DEF DoorInv, Rows
<1>3. PICK y \in [Jobs -> JobRow] : /\ job' = [job EXCEPT ![d] = y]
                                   /\ \A i \in Jobs : ReplayThen(d, y[i])
  BY <1>1, <1>2, JobsStay
<1> DEFINE p == [page[d] EXCEPT !.signal = ~@, !.online = ~page[d].signal]
<1>4. page[d] \in PageRow /\ Settled(page[d]) /\ KeptPageThen(d, page[d])
  BY <1>2, CopiesOf
<1>5. /\ p \in PageRow /\ page' = [page EXCEPT ![d] = p]
      /\ p.state = page[d].state /\ p.drawn = page[d].drawn /\ p.ref = page[d].ref
      /\ p.saved = page[d].saved /\ p.due = page[d].due /\ p.dirty = page[d].dirty
  BY <1>4, Zenon DEF SignalChanges, SetPage, PageRow
<1> HIDE DEF p
<1>6. Settled(p) /\ KeptPageThen(d, p) /\ \A c \in Codes : Knows(page[d], c) => Knows(p, c)
  BY <1>4, <1>5 DEF Settled, KeptPageThen, Knows
<1>7. QED BY <1>1, <1>2, <1>3, <1>5, <1>6, QuietStep

LEMMA RefreshInv ==
  ASSUME DoorInv, NEW d \in Devices, Refresh(d)
  PROVE  DoorInv'
<1>1. UNCHANGED <<row, job, letIn, refused, unsaved, between>>
  BY DEF Refresh, history
<1>2. AnswersStay /\ row' \in [Codes -> CodeRow] /\ refused' \in [Devices -> SUBSET Codes]
  BY <1>1, NothingAnswered DEF DoorInv, Rows
<1>3. PICK y \in [Jobs -> JobRow] : /\ job' = [job EXCEPT ![d] = y]
                                   /\ \A i \in Jobs : ReplayThen(d, y[i])
  BY <1>1, <1>2, JobsStay
<1> DEFINE s == Applied(page[d].state, Manifest)
           a == page[d].online \/ page[d].signal
           p == [page[d] EXCEPT !.state = s, !.dirty = TRUE, !.online = a]
<1>4. page[d] \in PageRow /\ page[d].state \in Shift /\ KeptPageThen(d, page[d])
  BY <1>2, CopiesOf
<1>5. s \in Shift /\ s.admitted = page[d].state.admitted /\ KeptThen(d, s)
  BY <1>4, ManifestIsCodes, AppliedKeeps DEF KeptPageThen
<1>6. page' = [page EXCEPT ![d] = p]
  BY DEF Refresh, SetPage
<1>7. a \in BOOLEAN
  OBVIOUS
<1> HIDE DEF s, a
<1>8. /\ p \in PageRow /\ p.state = s /\ p.drawn = page[d].drawn /\ p.ref = page[d].ref
      /\ p.saved = page[d].saved /\ p.due = page[d].due /\ p.dirty
  BY <1>4, <1>5, <1>7 DEF PageRow
<1> HIDE DEF p
<1>9. Settled(p) /\ KeptPageThen(d, p) /\ \A c \in Codes : Knows(page[d], c) => Knows(p, c)
  BY <1>4, <1>5, <1>8 DEF Settled, KeptPageThen, Knows
<1>10. QED BY <1>1, <1>2, <1>3, <1>6, <1>8, <1>9, QuietStep

-----------------------------------------------------------------------------
(* Scans. *)
LEMMA PageStays ==
  ASSUME DoorInv, NEW d \in Devices, UNCHANGED page
  PROVE  page' = [page EXCEPT ![d] = page[d]]
  BY DEF DoorInv, Rows

(* A handler moves, and the server may have redeemed a code. *)
LEMMA HandlerMoves ==
  ASSUME DoorInv, NEW d \in Devices, NEW j \in Jobs, AnswersStay, row' \in [Codes -> CodeRow],
         refused' \in [Devices -> SUBSET Codes], UNCHANGED <<page, letIn, unsaved, between>>,
         NEW x \in JobRow, ReplayThen(d, x), SetJob(d, j, x)
  PROVE  DoorInv'
<1>1. PICK y \in [Jobs -> JobRow] : /\ job' = [job EXCEPT ![d] = y]
                                   /\ \A i \in Jobs : ReplayThen(d, y[i])
  BY JobsSet
<1>2. /\ page[d] \in PageRow /\ Settled(page[d]) /\ KeptPageThen(d, page[d])
      /\ page' = [page EXCEPT ![d] = page[d]]
  BY CopiesOf, PageStays
<1>3. QED BY <1>1, <1>2, QuietStep

LEMMA ScanInv ==
  ASSUME DoorInv, NEW d \in Devices, NEW j \in Jobs, NEW c \in Codes, Scan(d, j, c)
  PROVE  DoorInv'
<1> DEFINE kind == IF page[d].signal THEN "call" ELSE "hash"
           x == [IdleJob EXCEPT !.kind = kind, !.code = {c}]
<1>1. UNCHANGED <<row, page, letIn, refused, unsaved, between>> /\ SetJob(d, j, x)
  BY DEF Scan, history
<1>2. AnswersStay /\ row' \in [Codes -> CodeRow] /\ refused' \in [Devices -> SUBSET Codes]
  BY <1>1, NothingAnswered DEF DoorInv, Rows
<1>3. kind \in {"call", "hash"}
  OBVIOUS
<1> HIDE DEF kind
<1>4. x \in JobRow /\ ReplayThen(d, x)
  BY <1>3 DEF IdleJob, JobRow, ReplayThen
<1> HIDE DEF x
<1>5. QED BY <1>1, <1>2, <1>4, HandlerMoves

LEMMA AnsweredInv ==
  ASSUME DoorInv, NEW d \in Devices, NEW j \in Jobs, ScanAnswered(d, j)
  PROVE  DoorInv'
<1>1. job[d][j].code \in SUBSET Codes
  BY DEF DoorInv, Rows, JobRow
<1>2. /\ \E c \in job[d][j].code : row' \in {row, Redeemed(c)}
      /\ SetJob(d, j, IdleJob) /\ UNCHANGED <<page, letIn, refused, unsaved, between>>
  BY DEF ScanAnswered, history
<1>3. row' \in [Codes -> CodeRow] /\ AnswersStay /\ refused' \in [Devices -> SUBSET Codes]
  BY <1>1, <1>2, RedeemingAnswers DEF DoorInv, Rows
<1>4. QED BY <1>2, <1>3, IdleRow, IdleReplays, HandlerMoves

LEMMA UnansweredInv ==
  ASSUME DoorInv, NEW d \in Devices, NEW j \in Jobs, ScanUnanswered(d, j)
  PROVE  DoorInv'
<1>1. job[d][j] \in JobRow /\ job[d][j].code \in SUBSET Codes /\ Replay(d, job[d][j])
  BY DEF DoorInv, Rows, JobRow, Replaying
<1> DEFINE x == [job[d][j] EXCEPT !.kind = "hash"]
           p == [page[d] EXCEPT !.online = FALSE]
<1>2. /\ \E c \in job[d][j].code : row' \in {row, Redeemed(c)}
      /\ SetJob(d, j, x) /\ page' = [page EXCEPT ![d] = p] /\ UNCHANGED <<letIn, refused, unsaved, between>>
  BY DEF ScanUnanswered, SetPage, history
<1>3. row' \in [Codes -> CodeRow] /\ AnswersStay /\ refused' \in [Devices -> SUBSET Codes]
  BY <1>1, <1>2, RedeemingAnswers DEF DoorInv, Rows
<1>4. x \in JobRow /\ x.kind = "hash" /\ x.synced = job[d][j].synced
  BY <1>1 DEF JobRow
<1>5. ReplayThen(d, x)
  BY <1>1, <1>3, <1>4, ReplayStays DEF ReplayThen
<1>6. page[d] \in PageRow /\ Settled(page[d]) /\ KeptPageThen(d, page[d])
  BY <1>3, CopiesOf
<1>7. /\ p \in PageRow /\ p.state = page[d].state /\ p.drawn = page[d].drawn /\ p.ref = page[d].ref
      /\ p.saved = page[d].saved /\ p.due = page[d].due /\ p.dirty = page[d].dirty
  BY <1>6 DEF PageRow
<1> HIDE DEF x, p
<1>8. PICK y \in [Jobs -> JobRow] : /\ job' = [job EXCEPT ![d] = y]
                                   /\ \A i \in Jobs : ReplayThen(d, y[i])
  BY <1>2, <1>3, <1>4, <1>5, JobsSet
<1>9. Settled(p) /\ KeptPageThen(d, p) /\ \A c \in Codes : Knows(page[d], c) => Knows(p, c)
  BY <1>6, <1>7 DEF Settled, KeptPageThen, Knows
<1>10. QED BY <1>2, <1>3, <1>7, <1>8, <1>9, QuietStep

(* The handler makes s the ref and the state. *)
LEMMA DecidedRow ==
  ASSUME NEW p \in PageRow, NEW s \in Shift, NEW redraw \in BOOLEAN
  PROVE  /\ Decided(p, s, redraw) \in PageRow
         /\ Decided(p, s, redraw).state = s /\ Decided(p, s, redraw).ref = s
         /\ Decided(p, s, redraw).drawn = p.drawn /\ Decided(p, s, redraw).saved = p.saved
         /\ Decided(p, s, redraw).due = p.due /\ Decided(p, s, redraw).dirty = redraw
  BY DEF Decided, PageRow

LEMMA DecidedInv ==
  ASSUME DoorInv, NEW d \in Devices, NEW j \in Jobs, ScanDecided(d, j)
  PROVE  DoorInv'
<1>1. UNCHANGED <<row, refused, unsaved>> /\ SetJob(d, j, IdleJob)
  BY DEF ScanDecided
<1>2. AnswersStay /\ row' \in [Codes -> CodeRow] /\ refused' \in [Devices -> SUBSET Codes]
  BY <1>1, NothingAnswered DEF DoorInv, Rows
<1>3. PICK y \in [Jobs -> JobRow] : /\ job' = [job EXCEPT ![d] = y]
                                   /\ \A i \in Jobs : ReplayThen(d, y[i])
  BY <1>1, <1>2, IdleRow, IdleReplays, JobsSet
<1>4. /\ page[d] \in PageRow /\ page[d].ref \in Shift /\ KeptPageThen(d, page[d])
  BY <1>2, CopiesOf
<1>5. job[d][j].code \in SUBSET Codes
  BY DEF DoorInv, Rows, JobRow
<1>6. PICK c \in job[d][j].code :
        IF c \in page[d].ref.manifest /\ c \notin page[d].ref.admitted
          THEN /\ SetPage(d, Decided(page[d], [page[d].ref EXCEPT !.admitted = @ \cup {c},
                                                                 !.queue = @ \cup {c}], TRUE))
               /\ letIn' = [letIn EXCEPT ![d][c] = @ + 1]
               /\ between' = IF page[d].due = "shift"
                               THEN [between EXCEPT ![d] = @ \cup {c}] ELSE between
          ELSE /\ \E other \in {FALSE, page[d].due = "shift"} :
                    SetPage(d, Decided(page[d], page[d].ref,
                                       page[d].ref # page[d].drawn \/ other))
               /\ UNCHANGED <<letIn, between>>
  BY DEF ScanDecided
<1>7. CASE c \in page[d].ref.manifest /\ c \notin page[d].ref.admitted
  <2> DEFINE s == [page[d].ref EXCEPT !.admitted = @ \cup {c}, !.queue = @ \cup {c}]
             p == Decided(page[d], s, TRUE)
  <2>1. /\ s \in Shift /\ s.admitted = page[d].ref.admitted \cup {c}
        /\ s.queue = page[d].ref.queue \cup {c}
    BY <1>4, <1>5 DEF Shift
  <2>2. page' = [page EXCEPT ![d] = p] /\ letIn' = [letIn EXCEPT ![d][c] = @ + 1]
    BY <1>6, <1>7 DEF SetPage
  <2> HIDE DEF s
  <2>3. KeptThen(d, s)
    BY <1>4, <2>1 DEF KeptThen, KeptPageThen
  <2>4. /\ p \in PageRow /\ p.state = s /\ p.ref = s /\ p.saved = page[d].saved
        /\ p.drawn = page[d].drawn /\ p.due = page[d].due /\ p.dirty
    BY <1>4, <2>1, DecidedRow
  <2> HIDE DEF p
  <2>5. /\ letIn' \in [Devices -> [Codes -> Nat]]
        /\ \A e \in Devices \ {d} : letIn'[e] = letIn[e]
        /\ letIn'[d][c] = letIn[d][c] + 1
        /\ \A b \in Codes \ {c} : letIn'[d][b] = letIn[d][b]
    BY <1>5, <2>2 DEF DoorInv, Rows
  <2>6. /\ between' \in [Devices -> SUBSET Codes]
        /\ \A e \in Devices \ {d} : between'[e] = between[e]
        /\ between[d] \subseteq between'[d]
        /\ page[d].due = "shift" => c \in between'[d]
    <3>1. between \in [Devices -> SUBSET Codes] /\ c \in Codes
      BY <1>5 DEF DoorInv, Rows
    <3>2. CASE page[d].due = "shift"
      <4> DEFINE B == between[d] \cup {c}
      <4>1. between' = [between EXCEPT ![d] = B]
        BY <1>6, <1>7, <3>2
      <4>2. B \in SUBSET Codes /\ c \in B /\ between[d] \subseteq B
        BY <3>1
      <4> HIDE DEF B
      <4>3. QED BY <3>1, <4>1, <4>2
    <3>3. CASE page[d].due # "shift"
      BY <1>6, <1>7, <3>1, <3>3
    <3>4. QED BY <3>2, <3>3
  <2>7. letIn[d] \in [Codes -> Nat]
    BY RowsOf DEF DoorInv
  <2>8. ASSUME NEW b \in Codes
        PROVE  \/ b \in unsaved'[d] \/ b \in between'[d]
               \/ letIn'[d][b] <= 1 /\ (letIn'[d][b] > 0 => Knows(p, b))
    <3>1. \/ b \in unsaved[d] \/ b \in between[d]
          \/ letIn[d][b] <= 1 /\ (letIn[d][b] > 0 => Knows(page[d], b))
      BY DEF DoorInv, Remembered
    <3>2. CASE b = c
      <4>1. b \in unsaved[d] \/ b \in between[d] \/ letIn[d][b] = 0
        BY <1>7, <2>7, <3>1, <3>2 DEF Knows
      <4>2. page[d].due # "shift" => Knows(p, c)
        BY <2>1, <2>4 DEF Knows
      <4>3. QED BY <1>1, <2>5, <2>6, <3>2, <4>1, <4>2
    <3>3. CASE b # c
      <4>1. Knows(page[d], b) => Knows(p, b)
        BY <2>1, <2>4 DEF Knows
      <4>2. QED BY <1>1, <2>5, <2>6, <3>1, <3>3, <4>1
    <3>4. QED BY <3>2, <3>3
  <2>9. /\ unsaved' \in [Devices -> SUBSET Codes]
        /\ \A e \in Devices \ {d} : /\ letIn'[e] = letIn[e]
                                    /\ unsaved'[e] = unsaved[e] /\ between'[e] = between[e]
    BY <1>1, <2>5, <2>6 DEF DoorInv, Rows
  <2>10. Settled(p) /\ KeptPageThen(d, p)
    BY <1>4, <2>3, <2>4 DEF Settled, KeptPageThen
  <2>11. QED BY <1>2, <1>3, <2>2, <2>4, <2>5, <2>6, <2>8, <2>9, <2>10, PageStep
<1>8. CASE ~(c \in page[d].ref.manifest /\ c \notin page[d].ref.admitted)
  <2>1. PICK other \in BOOLEAN :
          page' = [page EXCEPT ![d] = Decided(page[d], page[d].ref,
                                              page[d].ref # page[d].drawn \/ other)]
    BY <1>6, <1>8 DEF SetPage
  <2> DEFINE redraw == page[d].ref # page[d].drawn \/ other
             p == Decided(page[d], page[d].ref, redraw)
  <2>2. page' = [page EXCEPT ![d] = p] /\ UNCHANGED <<letIn, between>>
    BY <1>6, <1>8, <2>1
  <2>3. redraw \in BOOLEAN /\ (~redraw => page[d].ref = page[d].drawn)
    OBVIOUS
  <2> HIDE DEF redraw
  <2>4. /\ p \in PageRow /\ p.state = page[d].ref /\ p.ref = page[d].ref
        /\ p.drawn = page[d].drawn /\ p.saved = page[d].saved
        /\ p.due = page[d].due /\ p.dirty = redraw
    BY <1>4, <2>3, DecidedRow
  <2> HIDE DEF p
  <2>5. Settled(p) /\ KeptPageThen(d, p)
    BY <1>4, <2>3, <2>4 DEF Settled, KeptPageThen
  <2>6. \A b \in Codes : Knows(page[d], b) => Knows(p, b)
    BY <2>4 DEF Knows
  <2>7. QED BY <1>1, <1>2, <1>3, <2>2, <2>4, <2>5, <2>6, QuietStep
<1>9. QED BY <1>7, <1>8

-----------------------------------------------------------------------------
(* Replays. *)

(* What was answered leaves the queue. *)
LEMMA ClearedKeeps ==
  ASSUME NEW d \in Devices, NEW s \in Shift, NEW S \in SUBSET Codes,
         \A c \in S : Answered(d, c)', KeptThen(d, s)
  PROVE  Cleared(s, S) \in Shift /\ Cleared(s, S).admitted = s.admitted /\ KeptThen(d, Cleared(s, S))
<1>1. /\ Cleared(s, S) \in Shift /\ Cleared(s, S).admitted = s.admitted
      /\ Cleared(s, S).queue = s.queue \ S
  BY DEF Cleared, Shift
<1>2. QED BY <1>1 DEF KeptThen

(* A replay ends, and clears the queue of the state. *)
LEMMA ReplayEnds ==
  ASSUME DoorInv, NEW d \in Devices, NEW j \in Jobs, AnswersStay, row' \in [Codes -> CodeRow],
         refused' \in [Devices -> SUBSET Codes], UNCHANGED <<letIn, unsaved, between>>,
         SetJob(d, j, IdleJob), NEW S \in SUBSET Codes, \A c \in S : Answered(d, c)',
         NEW a \in BOOLEAN, NEW redraw \in BOOLEAN,
         page[d].dirty \/ S # {} => redraw,
         page' = [page EXCEPT ![d] = [page[d] EXCEPT !.online = a, !.dirty = redraw,
                                                     !.state = Cleared(page[d].state, S)]]
  PROVE  DoorInv'
<1>1. PICK y \in [Jobs -> JobRow] : /\ job' = [job EXCEPT ![d] = y]
                                   /\ \A i \in Jobs : ReplayThen(d, y[i])
  BY IdleRow, IdleReplays, JobsSet
<1> DEFINE s == Cleared(page[d].state, S)
           p == [page[d] EXCEPT !.online = a, !.dirty = redraw, !.state = s]
<1>2. /\ page[d] \in PageRow /\ page[d].state \in Shift
      /\ Settled(page[d]) /\ KeptPageThen(d, page[d])
  BY CopiesOf
<1>3. s \in Shift /\ s.admitted = page[d].state.admitted /\ KeptThen(d, s)
  BY <1>2, ClearedKeeps DEF KeptPageThen
<1>4. S = {} => s = page[d].state
  BY <1>2 DEF Cleared, Shift
<1>5. page' = [page EXCEPT ![d] = p]
  OBVIOUS
<1> HIDE DEF s
<1>6. /\ p \in PageRow /\ p.state = s /\ p.drawn = page[d].drawn /\ p.ref = page[d].ref
      /\ p.saved = page[d].saved /\ p.due = page[d].due /\ p.dirty = redraw
  BY <1>2, <1>3 DEF PageRow
<1> HIDE DEF p
<1>7. Settled(p)
  BY <1>2, <1>4, <1>6 DEF Settled
<1>8. KeptPageThen(d, p) /\ \A c \in Codes : Knows(page[d], c) => Knows(p, c)
  BY <1>2, <1>3, <1>6 DEF KeptPageThen, Knows
<1>9. QED BY <1>1, <1>5, <1>6, <1>7, <1>8, QuietStep

LEMMA ReplayAnsweredInv ==
  ASSUME DoorInv, NEW d \in Devices, NEW j \in Jobs, ReplayAnswered(d, j)
  PROVE  DoorInv'
<1>1. job[d][j] \in JobRow /\ Replay(d, job[d][j])
  BY DEF DoorInv, Rows, Replaying
<1>2. job[d][j].todo \in SUBSET Codes /\ job[d][j].synced \in SUBSET Codes
  BY <1>1 DEF JobRow
<1>3. PICK c \in job[d][j].todo :
        LET x == [job[d][j] EXCEPT !.todo = @ \ {c}, !.synced = @ \cup {c}] IN
        /\ row' = Redeemed(c)
        /\ refused' = IF row[c].status = "valid" THEN refused
                       ELSE [refused EXCEPT ![d] = @ \cup {c}]
        /\ IF x.todo # {}
             THEN SetJob(d, j, x) /\ UNCHANGED page
             ELSE /\ SetJob(d, j, IdleJob)
                  /\ SetPage(d, [page[d] EXCEPT !.state = Cleared(@, x.synced), !.dirty = TRUE])
  BY DEF ReplayAnswered
<1>4. UNCHANGED <<letIn, unsaved, between>> /\ c \in Codes
  BY <1>2 DEF ReplayAnswered, history
<1> DEFINE x == [job[d][j] EXCEPT !.todo = @ \ {c}, !.synced = @ \cup {c}]
<1>5. /\ x \in JobRow /\ x.todo = job[d][j].todo \ {c} /\ x.synced = job[d][j].synced \cup {c}
  BY <1>1, <1>4 DEF JobRow
<1>6. /\ row' \in [Codes -> CodeRow] /\ refused' \in [Devices -> SUBSET Codes]
      /\ AnswersStay /\ Answered(d, c)'
  <2>1. row' \in [Codes -> CodeRow] /\ refused' \in [Devices -> SUBSET Codes]
    BY <1>3, <1>4, RedeemedKeeps DEF DoorInv, Rows
  <2>2. \A b \in Codes : row[b].redeemed => row'[b].redeemed
    BY <1>3, <1>4, RedeemedKeeps DEF DoorInv
  <2>3. \A e \in Devices : refused[e] \subseteq refused'[e]
    BY <1>3 DEF DoorInv, Rows
  <2>4. CASE row[c].status = "valid"
    BY <1>3, <1>4, <2>1, <2>2, <2>3, <2>4, RedeemedKeeps DEF AnswersStay, Answered, DoorInv
  <2>5. CASE row[c].status # "valid"
    <3>1. c \in refused'[d]
      BY <1>3, <2>5 DEF DoorInv, Rows
    <3>2. QED BY <2>1, <2>2, <2>3, <3>1 DEF AnswersStay, Answered
  <2>6. QED BY <2>4, <2>5
<1>7. \A b \in x.synced : Answered(d, b)'
  BY <1>1, <1>2, <1>5, <1>6 DEF Replay, AnswersStay
<1>8. CASE x.todo # {}
  <2>1. SetJob(d, j, x) /\ UNCHANGED page
    BY <1>3, <1>8
  <2>2. ReplayThen(d, x)
    BY <1>7, <1>8 DEF ReplayThen
  <2> HIDE DEF x
  <2>3. QED BY <1>4, <1>5, <1>6, <2>1, <2>2, HandlerMoves
<1>9. CASE x.todo = {}
  <2> DEFINE a == page[d].online
             r == Cleared(page[d].state, x.synced)
  <2>1. SetJob(d, j, IdleJob) /\ page' = [page EXCEPT ![d] = [page[d] EXCEPT !.state = r, !.dirty = TRUE]]
    BY <1>3, <1>9 DEF SetPage
  <2>2. x.synced \in SUBSET Codes
    BY <1>5 DEF JobRow
  <2>3. page[d] \in PageRow /\ a \in BOOLEAN
    BY CopiesOf DEF PageRow
  <2> HIDE DEF x, r
  <2>4. [page[d] EXCEPT !.state = r, !.dirty = TRUE]
          = [page[d] EXCEPT !.online = a, !.dirty = TRUE, !.state = r]
    BY <2>3 DEF PageRow
  <2> HIDE DEF a
  <2>5. page' = [page EXCEPT ![d] = [page[d] EXCEPT !.online = a, !.dirty = TRUE,
                                                     !.state = Cleared(page[d].state, x.synced)]]
    BY <2>1, <2>4 DEF r
  <2>6. QED BY <1>4, <1>6, <1>7, <2>1, <2>2, <2>3, <2>5, ReplayEnds
<1>10. QED BY <1>8, <1>9

LEMMA ReplayStopsInv ==
  ASSUME DoorInv, NEW d \in Devices, NEW j \in Jobs, ReplayStops(d, j)
  PROVE  DoorInv'
<1>1. job[d][j] \in JobRow /\ Replay(d, job[d][j])
  BY DEF DoorInv, Rows, Replaying
<1>2. job[d][j].todo \in SUBSET Codes /\ job[d][j].synced \in SUBSET Codes
  BY <1>1 DEF JobRow
<1>3. /\ \E c \in job[d][j].todo : row' \in {row, Redeemed(c)}
      /\ SetJob(d, j, IdleJob) /\ UNCHANGED <<letIn, refused, unsaved, between>>
  BY DEF ReplayStops, history
<1>4. row' \in [Codes -> CodeRow] /\ AnswersStay /\ refused' \in [Devices -> SUBSET Codes]
  BY <1>2, <1>3, RedeemingAnswers DEF DoorInv, Rows
<1>5. \A b \in job[d][j].synced : Answered(d, b)'
  BY <1>1, <1>2, <1>4 DEF Replay, AnswersStay
<1> DEFINE redraw == page[d].dirty \/ job[d][j].synced # {}
<1>6. PICK a \in {page[d].online, FALSE} :
        page' = [page EXCEPT ![d] = [page[d] EXCEPT !.online = a, !.dirty = redraw,
                                       !.state = Cleared(page[d].state, job[d][j].synced)]]
  <2>1. PICK a \in {page[d].online, FALSE} :
          page' = [page EXCEPT ![d] = [page[d] EXCEPT !.online = a,
                                         !.state = Cleared(@, job[d][j].synced),
                                         !.dirty = redraw]]
    BY DEF ReplayStops, SetPage
  <2> DEFINE r == Cleared(page[d].state, job[d][j].synced)
  <2>2. page[d] \in PageRow
    BY CopiesOf
  <2>3. page' = [page EXCEPT ![d] = [page[d] EXCEPT !.online = a, !.state = r, !.dirty = redraw]]
    BY <2>1
  <2> HIDE DEF r, redraw
  <2>4. [page[d] EXCEPT !.online = a, !.state = r, !.dirty = redraw]
          = [page[d] EXCEPT !.online = a, !.dirty = redraw, !.state = r]
    BY <2>2 DEF PageRow
  <2>5. page' = [page EXCEPT ![d] = [page[d] EXCEPT !.online = a, !.dirty = redraw, !.state = r]]
    BY <2>3, <2>4
  <2>6. QED BY <2>1, <2>5 DEF r
<1>7. a \in BOOLEAN /\ redraw \in BOOLEAN /\ (page[d].dirty \/ job[d][j].synced # {} => redraw)
  BY CopiesOf DEF PageRow
<1> HIDE DEF redraw
<1>8. QED BY <1>2, <1>3, <1>4, <1>5, <1>6, <1>7, ReplayEnds

-----------------------------------------------------------------------------
(* What was stored is what the page goes on from; what was not is lost. *)
LEMMA ReloadInv ==
  ASSUME DoorInv, NEW d \in Devices, Reload(d)
  PROVE  DoorInv'
<1> DEFINE s == Applied(page[d].saved, Manifest)
           p == [page[d] EXCEPT !.state = s, !.drawn = s, !.ref = s,
                                !.dirty = FALSE, !.due = "shift",
                                !.online = TRUE, !.lit = TRUE, !.shown = FALSE]
           known == page[d].state.admitted \cup page[d].ref.admitted
           y == [j \in Jobs |-> IdleJob]
<1>1. /\ page' = [page EXCEPT ![d] = p] /\ job' = [job EXCEPT ![d] = y]
      /\ unsaved' = [unsaved EXCEPT ![d] = @ \cup (known \ s.admitted)]
      /\ UNCHANGED <<row, letIn, refused, between>>
  BY DEF Reload, SetPage
<1>2. AnswersStay /\ row' \in [Codes -> CodeRow] /\ refused' \in [Devices -> SUBSET Codes]
      /\ letIn' \in [Devices -> [Codes -> Nat]] /\ between' \in [Devices -> SUBSET Codes]
  BY <1>1, NothingAnswered DEF DoorInv, Rows
<1>3. /\ page[d] \in PageRow /\ page[d].saved \in Shift /\ KeptThen(d, page[d].saved)
      /\ page[d].state \in Shift /\ page[d].ref \in Shift
  BY <1>2, CopiesOf DEF KeptPageThen
<1>4. s \in Shift /\ s.admitted = page[d].saved.admitted /\ KeptThen(d, s)
  BY <1>3, ManifestIsCodes, AppliedKeeps
<1>5. known \in SUBSET Codes /\ \A c \in Codes : Knows(page[d], c) => c \in known
  BY <1>3 DEF Shift, Knows
<1> HIDE DEF s, known
<1>6. /\ p \in PageRow /\ p.state = s /\ p.drawn = s /\ p.ref = s /\ p.saved = page[d].saved
  BY <1>3, <1>4 DEF PageRow
<1> HIDE DEF p
<1>7. /\ unsaved' \in [Devices -> SUBSET Codes]
      /\ unsaved'[d] = unsaved[d] \cup (known \ s.admitted)
      /\ \A e \in Devices \ {d} : unsaved'[e] = unsaved[e]
  BY <1>1, <1>5 DEF DoorInv, Rows
<1>8. y \in [Jobs -> JobRow] /\ \A j \in Jobs : ReplayThen(d, y[j])
  BY IdleRow, IdleReplays
<1> HIDE DEF y
<1>9. ASSUME NEW c \in Codes
      PROVE  \/ c \in unsaved'[d] \/ c \in between'[d]
             \/ letIn'[d][c] <= 1 /\ (letIn'[d][c] > 0 => Knows(p, c))
  <2>1. \/ c \in unsaved[d] \/ c \in between[d]
        \/ letIn[d][c] <= 1 /\ (letIn[d][c] > 0 => Knows(page[d], c))
    BY DEF DoorInv, Remembered
  <2>2. Knows(page[d], c) => c \in unsaved'[d] \/ Knows(p, c)
    BY <1>5, <1>6, <1>7 DEF Knows
  <2>3. QED BY <1>1, <1>7, <2>1, <2>2
<1>10. Settled(p) /\ KeptPageThen(d, p)
  BY <1>3, <1>4, <1>6 DEF Settled, KeptPageThen
<1>11. \A e \in Devices \ {d} : /\ letIn'[e] = letIn[e]
                                /\ unsaved'[e] = unsaved[e] /\ between'[e] = between[e]
  BY <1>1, <1>7
<1>12. QED BY <1>1, <1>2, <1>6, <1>7, <1>8, <1>9, <1>10, <1>11, PageStep

-----------------------------------------------------------------------------
LEMMA DoorInitInv == DoorInit => DoorInv
<1> SUFFICES ASSUME DoorInit PROVE DoorInv
  OBVIOUS
<1>1. NewShift(Codes) \in Shift /\ NewShift({}) \in Shift
  BY DEF NewShift, Shift
<1>2. \A d \in Devices : page[d] \in PageRow
  BY <1>1 DEF DoorInit, PageRow
<1>3. Rows
  BY <1>2, IdleRow DEF DoorInit, Rows, CodeRow
<1>4. Copies
  BY DEF DoorInit, NewShift, Copies, Settled, KeptPage, Kept
<1>5. Replaying /\ Remembered
  BY IdleRow DEF DoorInit, Replaying, Replay, Remembered
<1>6. QED BY <1>3, <1>4, <1>5 DEF DoorInv

LEMMA DoorInvInductive == DoorInv /\ [DoorNext]_doorvars => DoorInv'
<1> SUFFICES ASSUME DoorInv, [DoorNext]_doorvars PROVE DoorInv'
  OBVIOUS
<1>1. CASE UNCHANGED doorvars
  BY <1>1 DEF doorvars, history, DoorInv, Rows, Copies, Settled, KeptPage, Kept,
              Replaying, Replay, Answered, Remembered, Knows
<1>2. ASSUME NEW c \in Codes, CodeLapses(c) PROVE DoorInv'
  BY <1>2, LapseInv
<1>3. ASSUME NEW d \in Devices, Render(d) \/ Effects(d) \/ SignalChanges(d) \/ Refresh(d) \/ Reload(d)
      PROVE  DoorInv'
  BY <1>3, RenderInv, EffectsInv, SignalInv, RefreshInv, ReloadInv
<1>4. ASSUME NEW d \in Devices, NEW j \in Jobs, NEW c \in Codes, Scan(d, j, c) PROVE DoorInv'
  BY <1>4, ScanInv
<1>5. ASSUME NEW d \in Devices, NEW j \in Jobs,
             ScanAnswered(d, j) \/ ScanUnanswered(d, j) \/ ScanDecided(d, j)
      PROVE  DoorInv'
  BY <1>5, AnsweredInv, UnansweredInv, DecidedInv
<1>6. ASSUME NEW d \in Devices, NEW j \in Jobs, ReplayAnswered(d, j) \/ ReplayStops(d, j)
      PROVE  DoorInv'
  BY <1>6, ReplayAnsweredInv, ReplayStopsInv
<1>7. QED BY <1>1, <1>2, <1>3, <1>4, <1>5, <1>6 DEF DoorNext

LEMMA DoorInvariant == DoorSpec => []DoorInv
<1>1. QED BY DoorInitInv, DoorInvInductive, PTL DEF DoorSpec

(* The copies of a page are shifts of the event, whoever is queued in one   *)
(* was let in, the state and the ref are the shift that was drawn when no   *)
(* render and no effect is to come, and a replay has an entry to send.      *)
THEOREM DoorTypeCorrect == DoorSpec => []DoorTypeOK
<1>1. DoorInv => DoorTypeOK
  <2> SUFFICES ASSUME DoorInv PROVE DoorTypeOK
    OBVIOUS
  <2>1. row \in [Codes -> [status : {"valid", "refused"}, redeemed : BOOLEAN]]
    BY DEF DoorInv, Rows, CodeRow
  <2>2. ASSUME NEW d \in Devices
        PROVE  /\ {page[d].online, page[d].lit, page[d].shown, page[d].signal,
                   page[d].dirty} \subseteq BOOLEAN
               /\ page[d].due \in {"no", "online", "shift"}
               /\ ~page[d].dirty => page[d].state = page[d].drawn
               /\ ~page[d].dirty /\ page[d].due # "shift" => page[d].ref = page[d].drawn
    BY CopiesOf DEF PageRow, Settled
  <2>3. ASSUME NEW d \in Devices,
               NEW s \in {page[d].state, page[d].drawn, page[d].ref, page[d].saved}
        PROVE  s.manifest \cup s.admitted \subseteq Codes /\ s.queue \subseteq s.admitted
    BY CopiesOf DEF Shift, KeptPage, Kept
  <2>4. ASSUME NEW d \in Devices, NEW j \in Jobs
        PROVE  /\ job[d][j].kind \in {"idle", "call", "hash", "sync"}
               /\ job[d][j].kind = "sync" => job[d][j].todo # {}
    BY DEF DoorInv, Rows, JobRow, Replaying, Replay
  <2>5. QED BY <2>1, <2>2, <2>3, <2>4 DEF DoorTypeOK
<1>2. QED BY <1>1, DoorInvariant, PTL

(* recordOfflineScan lets a code in once: no refresh, replay, render or      *)
(* effect forgets whom the page let in, nor a reload after the storage, but  *)
(* for the scans decided between a render and its effects.                   *)
THEOREM LetInOnce == DoorSpec => []OfflineOnce
<1>1. DoorInv => OfflineOnce
  BY DEF DoorInv, Rows, Remembered, OfflineOnce
<1>2. QED BY <1>1, DoorInvariant, PTL

(* clearSynced drops from the queue only what the server gave its verdict   *)
(* on: whoever was let in is still queued, or checked in, or was refused.   *)
THEOREM NothingLeftUnsent == DoorSpec => []NothingUnsent
<1>1. DoorInv => NothingUnsent
  <2> SUFFICES ASSUME DoorInv, NEW d \in Devices, NEW c \in Codes, letIn[d][c] > 0,
                      c \notin unsaved[d] \cup between[d]
               PROVE  c \in page[d].state.queue \/ row[c].redeemed \/ c \in refused[d]
    BY DEF NothingUnsent
  <2>1. c \in page[d].state.admitted
    BY DEF DoorInv, Remembered, Knows
  <2>2. QED BY <2>1 DEF DoorInv, Copies, KeptPage, Kept, Answered
<1>2. QED BY <1>1, DoorInvariant, PTL
=============================================================================
