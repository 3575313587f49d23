-------------------------- MODULE LabGatewayProofs --------------------------
(***************************************************************************)
(* Theorems about LabGateway, for any quota of captures and any number of  *)
(* rounds: one trial at a time, work and paid requests on record before    *)
(* they happen, claims that are earned, and a gateway that an effect       *)
(* nobody settled keeps closed, whatever save fails and wherever the       *)
(* process stops.                                                          *)
(***************************************************************************)
EXTENDS LabGateway, TLAPS

Statuses == Active \cup Blocked \cup {"COMPLETED", "CANCELLED"}
Places == {"idle", "start", "done", "failed", "ended"} \cup InTrial
Removed == [at |-> "removed", effect |-> FALSE]
Opened == [at : {"open"}, effect : BOOLEAN]
Boxes == {NoBox, Removed} \cup Opened
Entries == [status : Statuses]
XWorking == {"start", "running", "ask", "answer", "reserve", "trial", "finish"}

Types ==
    /\ place \in [Runs -> Places] /\ box \in [Runs -> Boxes]
    /\ process \in {"up", "closing", "down"} /\ paid \in BOOLEAN
    /\ mem \in Seq(Entries) /\ disk \in Seq(Entries)
    /\ x \in Sessions \cup {None} /\ xdisk \in Sessions \cup {None}
    /\ xpc \in XWorking \cup {"none", "failed", "ended"}
    /\ seal \in BOOLEAN /\ sent \in Nat

(* The strengthening, by what it is about.  Where a trial is says what     *)
(* there is of its sandbox.                                                *)
TrialOK(r) ==
    /\ place[r] \in {"idle", "start", "initialize"} => box[r] = NoBox
    /\ place[r] = "dispatch" => box[r] \in Opened
    /\ place[r] = "done" => box[r] = Removed

TrialsOK == \A r \in Runs : TrialOK(r)

(* Both copies of the captures' ledger: at most one session is at work.    *)
OneActive(s) ==
    \A i, j \in DOMAIN s : s[i].status \in Active /\ s[j].status \in Active => i = j

Ledgers ==
    /\ Len(disk) <= Len(mem) /\ Len(mem) <= Quota
    /\ OneActive(mem) /\ OneActive(disk)

(* What a copy of a ledger claims of a capture is true of its sandbox.     *)
EntryOK(s, i) ==
    i \in DOMAIN s =>
        /\ s[i].status = "COMPLETED" => box[i] = Removed
        /\ s[i].status \in {"ACCEPTED", "CANCELLED"} => box[i] = NoBox

(* Both copies know of every executor, and where it is.                    *)
CaptureOK(i) ==
    /\ EntryOK(mem, i) /\ EntryOK(disk, i)
    /\ place[i] # "idle" => i \in DOMAIN disk
    /\ place[i] = "start" =>
         mem[i].status \in {"ACCEPTED", "CANCELLED"} /\ disk[i].status \in {"ACCEPTED", "CANCELLED"}
    /\ place[i] \in InTrial \cup {"done"} =>
         mem[i].status \in {"RUNNING", "CANCEL_REQUESTED"}
         /\ disk[i].status \in {"RUNNING", "CANCEL_REQUESTED"}

CapturesOK == \A i \in Captures : CaptureOK(i)

(* A copy of the exploration: its counts are in order, its settled claims  *)
(* leave nothing open, and every round's sandbox is as it says.            *)
RowOK(y) ==
    y # None =>
        /\ seal
        /\ y.trials <= y.reserved /\ y.reserved <= y.asked
        /\ y.asked <= Rounds /\ y.asked <= y.trials + 1 /\ sent <= y.asked
        /\ y.status \in {"COMPLETED", "CANCELLED"} => y.known /\ y.reserved = y.trials
        /\ y.status = "COMPLETED" => y.trials = Rounds /\ sent = Rounds
        /\ \A n \in 1 .. Rounds :
             /\ n <= y.trials => box[Round(n)] = Removed
             /\ n > y.reserved => box[Round(n)] = NoBox

RowsOK ==
    /\ RowOK(x) /\ RowOK(xdisk)
    /\ x = None => xdisk = None
    /\ xdisk = None => sent = 0 /\ \A n \in 1 .. Rounds : box[Round(n)] = NoBox

(* While the thread works both copies count the same, and what they count  *)
(* is where the thread is.                                                 *)
SameWork ==
    xpc \in XWorking =>
        /\ xdisk # None
        /\ xdisk.asked = x.asked /\ xdisk.known = x.known
        /\ xdisk.reserved = x.reserved /\ xdisk.trials = x.trials
        /\ sent = x.asked
        /\ x.status \in Active \cup {"INCONCLUSIVE"}
        /\ x.known = (xpc # "answer")
        /\ xpc \in {"start", "running"} => x.asked = 0
        /\ xpc \in {"start", "running", "ask"} => x.asked = x.trials /\ x.trials < Rounds
        /\ xpc \in {"answer", "reserve"} => x.asked = x.trials + 1 /\ x.reserved = x.trials
        /\ xpc = "trial" => x.asked = x.trials + 1 /\ x.reserved = x.trials + 1
        /\ xpc = "finish" => x.trials = Rounds

RoundsOK ==
    \A n \in 1 .. Rounds : LET p == place[Round(n)] IN
        /\ p # "start"
        /\ p \in InTrial \cup {"done"} => xpc = "trial" /\ n = x.reserved
        /\ p = "failed" => xpc = "failed"

(* The two modes, and the process under them.                              *)
Modes ==
    /\ xpc \in XWorking => ~CapturesAre(Active)
    /\ xpc # "none" => paid /\ x # None /\ process # "down"
    /\ process = "down" => \A r \in Runs : ~ThreadAlive(place[r])

LabInd ==
    /\ Types /\ TrialsOK /\ Ledgers /\ CapturesOK /\ RowsOK /\ SameWork /\ RoundsOK /\ Modes

(* The runs are the captures and, after them, the rounds.                  *)
LEMMA RunSets ==
    /\ \A i \in Captures : i \in Runs /\ i \in Nat \ {0} /\ i <= Quota
    /\ \A n \in 1 .. Rounds : Round(n) \in Runs /\ Round(n) \notin Captures
    /\ \A n, m \in 1 .. Rounds : Round(n) = Round(m) => n = m
    /\ \A r \in Runs : r \in Captures \/ \E n \in 1 .. Rounds : r = Round(n)
<1>1. \A r \in Runs : r \in Captures \/ \E n \in 1 .. Rounds : r = Round(n)
  <2>1. SUFFICES ASSUME NEW r \in Runs, r \notin Captures
                 PROVE  \E n \in 1 .. Rounds : r = Round(n)
    OBVIOUS
  <2>2. r - Quota \in 1 .. Rounds /\ r = Round(r - Quota)
    BY <2>1, LabConstants DEF Captures, Round
  <2> QED BY <2>2
<1> QED BY <1>1, LabConstants DEF Captures, Round

(* A ledger's entries are the captures that were reserved.                 *)
LEMMA Entries1 ==
    ASSUME NEW s \in Seq(Entries), NEW i \in DOMAIN s
    PROVE  i \in 1 .. Len(s) /\ s[i] \in Entries /\ s[i].status \in Statuses
<1>1. i \in 1 .. Len(s) /\ s[i] \in Entries
  OBVIOUS
<1> QED BY <1>1 DEF Entries

\* The ledgers list captures, the one on disk never more than the one in memory.
LEMMA EntriesAreCaptures ==
    ASSUME Types, Ledgers
    PROVE  /\ DOMAIN mem = 1 .. Len(mem) /\ DOMAIN mem \subseteq Captures
           /\ DOMAIN disk = 1 .. Len(disk) /\ DOMAIN disk \subseteq DOMAIN mem
<1>1. /\ Len(mem) \in Nat /\ Len(disk) \in Nat
      /\ DOMAIN mem = 1 .. Len(mem) /\ DOMAIN disk = 1 .. Len(disk)
  BY DEF Types
<1> QED BY <1>1, LabConstants DEF Ledgers, Captures

(* What a step of a trial does to it, and that it does it to no other.     *)
LEMMA TrialMoves ==
    ASSUME Types, TrialsOK, NEW r \in Runs, TrialStep(r) \/ TrialFails(r)
    PROVE  /\ place' \in [Runs -> Places] /\ box' \in [Runs -> Boxes] /\ TrialsOK'
           /\ \A q \in Runs : q # r => place'[q] = place[q] /\ box'[q] = box[q]
           /\ place[r] \in InTrial
           /\ TrialFails(r) => place'[r] = "failed"
           /\ TrialStep(r) => place'[r] \in {"dispatch", "settle", "cleanup", "done"}
<1> USE DEF TrialsOK, TrialOK, Types, Places, InTrial, Boxes, Opened, Removed, NoBox, At
<1>1. CASE Initialize(r)
  <2>1. place[r] = "initialize" /\ place'[r] = "dispatch" /\ ~TrialFails(r)
    BY <1>1 DEF Initialize, TrialFails
  <2> QED BY <1>1, <2>1 DEF Initialize
<1>2. CASE Dispatch(r)
  <2>1. place[r] = "dispatch" /\ place'[r] = "settle" /\ ~TrialFails(r)
    BY <1>2 DEF Dispatch, TrialFails
  <2>2. box' \in [Runs -> Boxes]
    <3> DEFINE b == [box[r] EXCEPT !.effect = TRUE]
    <3>1. box[r] \in Opened BY <2>1
    <3>2. b \in Boxes BY <3>1
    <3>3. box' = [box EXCEPT ![r] = b] BY <1>2 DEF Dispatch
    <3> HIDE DEF b, Boxes
    <3> QED BY <3>2, <3>3
  <2> QED BY <1>2, <2>1, <2>2 DEF Dispatch
<1>3. CASE Settle(r)
  <2>1. place[r] = "settle" /\ place'[r] = "cleanup" /\ ~TrialFails(r)
    BY <1>3 DEF Settle, TrialFails
  <2> QED BY <1>3, <2>1 DEF Settle
<1>4. CASE CleanUp(r)
  <2>1. place[r] = "cleanup" /\ place'[r] = "done" /\ ~TrialFails(r)
    BY <1>4 DEF CleanUp, TrialFails
  <2> QED BY <1>4, <2>1 DEF CleanUp
<1>5. CASE TrialFails(r)
  <2>1. place[r] \in InTrial /\ place'[r] = "failed"
    BY <1>5 DEF TrialFails
  <2>2. ~TrialStep(r)
    BY <2>1 DEF TrialStep, Initialize, Dispatch, Settle, CleanUp
  <2>3. PICK left \in LeftBehind(r) : box' = [box EXCEPT ![r] = left]
    BY <1>5 DEF TrialFails
  <2>4. left \in Boxes
    <3>1. CASE place[r] = "initialize"
      <4>1. left \in {NoBox, [at |-> "open", effect |-> FALSE]} BY <3>1, <2>3 DEF LeftBehind
      <4>2. [at |-> "open", effect |-> FALSE] \in [at : {"open"}, effect : BOOLEAN]
        OBVIOUS
      <4> QED BY ONLY <4>1, <4>2 DEF Boxes, Opened, NoBox
    <3>2. CASE place[r] = "dispatch"
      <4>1. left \in [at : {"open"}, effect : BOOLEAN] BY <3>2, <2>3 DEF LeftBehind
      <4> QED BY <4>1
    <3>3. CASE place[r] = "settle"
      <4>1. left = box[r] BY <3>3, <2>3 DEF LeftBehind
      <4> QED BY <4>1
    <3>4. CASE place[r] = "cleanup"
      <4>1. left \in [at : {"open"}, effect : BOOLEAN] \cup {[at |-> "removed", effect |-> FALSE]}
        BY <3>4, <2>3 DEF LeftBehind
      <4> QED BY <4>1
    <3> QED BY <2>1, <3>1, <3>2, <3>3, <3>4
  <2> QED BY <1>5, <2>1, <2>2, <2>3, <2>4 DEF TrialFails
<1> QED BY <1>1, <1>2, <1>3, <1>4, <1>5 DEF TrialStep

(* What rewriting one entry's status leaves of the ledger.                 *)
LEMMA SetStatusKeeps ==
    ASSUME Types, NEW i \in DOMAIN mem, NEW s \in Statuses, SetStatus(i, s)
    PROVE  /\ mem' \in Seq(Entries) /\ Len(mem') = Len(mem) /\ DOMAIN mem' = DOMAIN mem
           /\ mem'[i].status = s
           /\ \A j \in DOMAIN mem : j # i => mem'[j] = mem[j]
<1>1. mem[i] \in Entries
  BY Entries1 DEF Types
<1>2. [mem[i] EXCEPT !.status = s] \in Entries
  BY <1>1 DEF Entries
<1>3. mem' = [mem EXCEPT ![i] = [mem[i] EXCEPT !.status = s]]
  BY DEF SetStatus
<1>4. [mem[i] EXCEPT !.status = s].status = s
  BY <1>1 DEF Entries
<1>5. mem' \in Seq(Entries) /\ Len(mem') = Len(mem) /\ DOMAIN mem' = DOMAIN mem
  BY <1>2, <1>3 DEF Types
<1> QED BY <1>3, <1>4, <1>5 DEF Types

(* A step that is about one capture only has to leave that one in order.   *)
LEMMA OtherCaptures ==
    ASSUME LabInd, NEW j \in Captures, place'[j] = place[j], box'[j] = box[j],
           Types', Ledgers', disk' = disk \/ disk' = mem',
           j \in DOMAIN mem' <=> j \in DOMAIN mem,
           j \in DOMAIN mem => mem'[j] = mem[j]
    PROVE  CaptureOK(j)'
<1>1. CaptureOK(j) /\ DOMAIN disk \subseteq DOMAIN mem
  BY EntriesAreCaptures DEF LabInd, CapturesOK
<1>2. (DOMAIN disk \subseteq DOMAIN mem)'
  BY EntriesAreCaptures, LabConstants DEF Types, Ledgers
<1>3. CASE disk' = disk
  BY <1>1, <1>3 DEF CaptureOK, EntryOK, InTrial
<1>4. CASE disk' = mem'
  BY <1>1, <1>4 DEF CaptureOK, EntryOK, InTrial
<1> QED BY <1>3, <1>4

\* What touches neither the exploration nor its rounds keeps all that is said of
\* them.
LEMMA ExplorationStays ==
    ASSUME LabInd, UNCHANGED explorationVars,
           \A n \in 1 .. Rounds :
               place'[Round(n)] = place[Round(n)] /\ box'[Round(n)] = box[Round(n)]
    PROVE  RowsOK' /\ SameWork' /\ RoundsOK'
<1>1. RowOK(x)' /\ RowOK(xdisk)'
  <2>1. RowOK(x) /\ RowOK(xdisk)
    BY DEF LabInd, RowsOK
  <2>2. RowOK(x)'
    BY <2>1 DEF RowOK, explorationVars
  <2>3. RowOK(xdisk)'
    BY <2>1 DEF RowOK, explorationVars
  <2> QED BY <2>2, <2>3
<1>2. RowsOK'
  BY <1>1 DEF LabInd, RowsOK, explorationVars
<1>3. SameWork'
  BY DEF LabInd, SameWork, explorationVars
<1>4. RoundsOK'
  BY DEF LabInd, RoundsOK, explorationVars
<1> QED BY <1>2, <1>3, <1>4

\* A step of one capture's thread or of a request about it preserves the
\* invariant if it keeps that capture in order and does not start work beside an
\* exploration.
LEMMA OneCaptureMoves ==
    ASSUME LabInd, NEW i \in Captures, Types', TrialsOK', Ledgers', CaptureOK(i)',
           \A q \in Runs : q # i => place'[q] = place[q] /\ box'[q] = box[q],
           \A j \in Captures : j # i =>
               /\ j \in DOMAIN mem' <=> j \in DOMAIN mem
               /\ j \in DOMAIN mem => mem'[j] = mem[j],
           disk' = disk \/ disk' = mem',
           UNCHANGED <<process, paid, explorationVars>>, process # "down",
           xpc \in XWorking => ~CapturesAre(Active)'
    PROVE  LabInd'
<1>1. CapturesOK'
  <2>1. SUFFICES ASSUME NEW j \in Captures, j # i PROVE CaptureOK(j)'
    BY LabConstants DEF CapturesOK, Captures
  <2>2. place'[j] = place[j] /\ box'[j] = box[j]
    BY <2>1, RunSets
  <2> QED BY <2>1, <2>2, OtherCaptures
<1>2. \A n \in 1 .. Rounds : place'[Round(n)] = place[Round(n)] /\ box'[Round(n)] = box[Round(n)]
  BY RunSets
<1>3. RowsOK' /\ SameWork' /\ RoundsOK'
  BY <1>2, ExplorationStays
<1>4. Modes'
  BY DEF LabInd, Modes, explorationVars
<1> QED BY <1>1, <1>3, <1>4 DEF LabInd

(* Rewriting a session's status, saved or not, wakes no settled session.   *)
LEMMA StatusMoves ==
    ASSUME LabInd, NEW i \in DOMAIN mem, NEW s \in Statuses, SetStatus(i, s),
           s \in Active => Status(i) \in Active, Saved \/ NotSaved
    PROVE  /\ mem' \in Seq(Entries) /\ disk' \in Seq(Entries) /\ Ledgers'
           /\ DOMAIN mem' = DOMAIN mem /\ mem'[i].status = s
           /\ \A j \in DOMAIN mem : j # i => mem'[j] = mem[j]
           /\ disk' = disk \/ disk' = mem'
           /\ ~CapturesAre(Active) => ~CapturesAre(Active)'
           /\ i \in Captures /\ (i \in DOMAIN disk => i \in DOMAIN disk')
<1>1. Types /\ Ledgers
  BY DEF LabInd
<1>2. mem' \in Seq(Entries) /\ Len(mem') = Len(mem) /\ DOMAIN mem' = DOMAIN mem
      /\ mem'[i].status = s /\ \A j \in DOMAIN mem : j # i => mem'[j] = mem[j]
  BY <1>1, SetStatusKeeps
<1>3. disk' = disk \/ disk' = mem'
  BY DEF Saved, NotSaved
<1>4. OneActive(mem')
  BY <1>1, <1>2 DEF OneActive, Ledgers, Status
<1>5. Ledgers' /\ disk' \in Seq(Entries)
  <2>1. CASE disk' = disk
    BY <2>1, <1>1, <1>2, <1>4 DEF Ledgers, Types, OneActive
  <2>2. CASE disk' = mem'
    <3>1. Len(mem) \in Nat BY <1>1 DEF Types
    <3> QED BY <3>1, <2>2, <1>1, <1>2, <1>4 DEF Ledgers, OneActive
  <2> QED BY <1>3, <2>1, <2>2
<1>6. ~CapturesAre(Active) => ~CapturesAre(Active)'
  BY <1>2 DEF CapturesAre, Status
<1>7. DOMAIN mem \subseteq Captures /\ DOMAIN disk \subseteq DOMAIN mem
  BY <1>1, EntriesAreCaptures
<1> QED BY <1>2, <1>3, <1>5, <1>6, <1>7

LEMMA CreateKeeps == ASSUME LabInd, Create PROVE LabInd'
<1>1. /\ process = "up" /\ MayCreate /\ mem' = Append(mem, [status |-> "ACCEPTED"])
      /\ UNCHANGED <<box, process, paid, explorationVars>>
  BY DEF Create
<1>2. /\ Types /\ Ledgers /\ TrialsOK /\ Len(mem) \in Nat /\ DOMAIN mem = 1 .. Len(mem)
      /\ DOMAIN disk = 1 .. Len(disk)
  BY DEF LabInd, Types
<1>0. PICK i \in Captures : i = Len(mem) + 1
  <2>1. Len(mem) < Quota BY <1>1 DEF MayCreate
  <2>2. Len(mem) + 1 \in Captures BY <2>1, <1>2, LabConstants DEF Captures
  <2> QED BY <2>2
<1>3. i \in Captures /\ i \in Runs /\ i \notin DOMAIN mem /\ i \notin DOMAIN disk
  BY <1>0, <1>2, RunSets, EntriesAreCaptures
<1>4. place[i] = "idle" /\ box[i] = NoBox
  BY <1>2, <1>3 DEF LabInd, CapturesOK, CaptureOK, TrialsOK, TrialOK
<1>5. /\ mem' \in Seq(Entries) /\ Len(mem') = i /\ DOMAIN mem' = 1 .. i
      /\ mem'[i] = [status |-> "ACCEPTED"] /\ \A j \in DOMAIN mem : mem'[j] = mem[j]
  <2>1. [status |-> "ACCEPTED"] \in Entries
    BY DEF Entries, Statuses, Active
  <2> QED BY <1>1, <1>2, <1>0, <2>1 DEF Types
<1>6. ~CapturesAre(Active)
  BY <1>1 DEF MayCreate, CapturesAre
<1>7. OneActive(mem')
  <2>1. SUFFICES ASSUME NEW a \in DOMAIN mem', NEW b \in DOMAIN mem',
                        mem'[a].status \in Active, mem'[b].status \in Active
                 PROVE  a = b
    BY DEF OneActive
  <2>2. a \notin DOMAIN mem /\ b \notin DOMAIN mem
    BY <1>5, <1>6, <2>1 DEF CapturesAre, Status
  <2> QED BY <1>2, <1>5, <1>0, <2>2
<1>8. ~(xpc \in XWorking)
  <2>1. SUFFICES ASSUME xpc \in XWorking PROVE FALSE
    OBVIOUS
  <2>2. paid /\ x # None /\ x.status \in Active \cup {"INCONCLUSIVE"}
    BY <2>1 DEF LabInd, Modes, SameWork, XWorking
  <2> QED BY <1>1, <2>2 DEF MayCreate, ExplorationIs, Blocked
<1>9. disk' = disk \/ disk' = mem'
  BY DEF Create, Saved, NotSaved
<1>10. Ledgers' /\ disk' \in Seq(Entries)
  <2>1. i <= Quota BY <1>3, RunSets
  <2>2. CASE disk' = disk
    BY <2>1, <2>2, <1>2, <1>5, <1>7, <1>0 DEF Ledgers, Types, OneActive
  <2>3. CASE disk' = mem'
    BY <2>1, <2>3, <1>2, <1>5, <1>7, <1>0 DEF Ledgers, OneActive
  <2> QED BY <1>9, <2>2, <2>3
<1>11. /\ \A q \in Runs : q # i => place'[q] = place[q] /\ box'[q] = box[q]
       /\ place' \in [Runs -> Places] /\ place'[i] \in {"idle", "start"}
       /\ place'[i] = "start" => disk' = mem'
  <2>1. CASE Saved /\ At(Len(mem'), "start")
    BY <2>1, <1>1, <1>2, <1>3, <1>5 DEF Types, Saved, At, Places
  <2>2. CASE UNCHANGED place
    BY <2>2, <1>1, <1>2, <1>4 DEF Types
  <2> QED BY <2>1, <2>2 DEF Create
<1>12. Types' /\ TrialsOK'
  <2>1. Types' BY <1>1, <1>2, <1>5, <1>10, <1>11 DEF Types, explorationVars
  <2>2. TrialsOK' BY <1>1, <1>2, <1>4, <1>11 DEF TrialsOK, TrialOK
  <2> QED BY <2>1, <2>2
<1>13. CaptureOK(i)'
  <2>1. EntryOK(mem, i)' BY <1>1, <1>4, <1>5 DEF EntryOK
  <2>2. EntryOK(disk, i)'
    BY <1>1, <1>3, <1>4, <1>5, <1>9 DEF EntryOK
  <2>3. CASE place'[i] = "idle"
    BY <2>1, <2>2, <2>3 DEF CaptureOK, InTrial
  <2>4. CASE place'[i] = "start"
    BY <2>1, <2>2, <2>4, <1>3, <1>5, <1>11, <1>2 DEF CaptureOK, InTrial
  <2> QED BY <1>11, <2>3, <2>4
<1> QED BY <1>1, <1>2, <1>3, <1>5, <1>8, <1>9, <1>10, <1>11, <1>12, <1>13, OneCaptureMoves

(* An executor's session is in both copies, and its process is there.      *)
LEMMA ExecutorsAreKnown ==
    ASSUME LabInd, NEW i \in Captures, place[i] \notin {"idle", "ended"}
    PROVE  /\ i \in Runs /\ i \in DOMAIN mem /\ i \in DOMAIN disk
           /\ process # "down" /\ CaptureOK(i) /\ TrialOK(i)
           /\ mem[i].status \in Statuses /\ disk[i].status \in Statuses
<1>1. i \in Runs BY RunSets
<1>2. CaptureOK(i) /\ TrialOK(i) BY <1>1 DEF LabInd, CapturesOK, TrialsOK
<1>3. i \in DOMAIN disk BY <1>2 DEF CaptureOK
<1>4. i \in DOMAIN mem BY <1>3, EntriesAreCaptures DEF LabInd
<1>5. process # "down"
  BY <1>1 DEF LabInd, Types, Places, InTrial, Modes, ThreadAlive
<1>6. mem[i].status \in Statuses /\ disk[i].status \in Statuses
  BY <1>3, <1>4, Entries1 DEF LabInd, Types
<1> QED BY <1>1, <1>2, <1>3, <1>4, <1>5, <1>6

(* Only the place of a run changes.                                        *)
LEMMA PlaceMoves ==
    ASSUME Types, NEW r \in Runs, NEW p \in Places, At(r, p)
    PROVE  /\ place' \in [Runs -> Places] /\ place'[r] = p
           /\ \A q \in Runs : q # r => place'[q] = place[q]
BY DEF Types, At

LEMMA StartKeeps == ASSUME LabInd, NEW i \in Captures, Start(i) PROVE LabInd'
<1>1. place[i] = "start" /\ UNCHANGED <<box, process, paid, explorationVars>>
  BY DEF Start
<1>2. /\ i \in Runs /\ i \in DOMAIN mem /\ i \in DOMAIN disk
      /\ process # "down" /\ CaptureOK(i) /\ TrialOK(i)
  BY <1>1, ExecutorsAreKnown
<1>3. Types /\ TrialsOK /\ Ledgers /\ Modes /\ box[i] = NoBox
  BY <1>1, <1>2 DEF LabInd, TrialOK
<1>4. mem[i].status \in {"ACCEPTED", "CANCELLED"}
  BY <1>1, <1>2 DEF CaptureOK
<1>5. "ended" \in Places /\ "failed" \in Places /\ "initialize" \in Places /\ "RUNNING" \in Statuses
  BY DEF Places, InTrial, Statuses, Active
<1>6. CASE Status(i) = "CANCELLED" /\ At(i, "ended") /\ UNCHANGED captureVars
  <2>1. /\ place' \in [Runs -> Places] /\ place'[i] = "ended"
        /\ \A q \in Runs : q # i => place'[q] = place[q]
    BY <1>2, <1>3, <1>5, <1>6, PlaceMoves
  <2>2. Types' /\ TrialsOK'
    BY <1>1, <1>3, <1>6, <2>1 DEF Types, TrialsOK, TrialOK, captureVars, explorationVars
  <2>3. Ledgers' BY <1>3, <1>6 DEF Ledgers, OneActive, captureVars
  <2>4. CaptureOK(i)'
    BY <1>1, <1>2, <1>6, <2>1 DEF CaptureOK, EntryOK, InTrial, captureVars
  <2>5. xpc \in XWorking => ~CapturesAre(Active)'
    BY <1>3, <1>6 DEF Modes, CapturesAre, Status, captureVars
  <2>6. mem' = mem /\ disk' = disk BY <1>6 DEF captureVars
  <2> QED BY <1>1, <1>2, <2>1, <2>2, <2>3, <2>4, <2>5, <2>6, OneCaptureMoves
<1>7. CASE /\ Status(i) # "CANCELLED" /\ SetStatus(i, "RUNNING")
           /\ \/ Saved /\ At(i, "initialize")
              \/ NotSaved /\ At(i, "failed")
  <2>1. Status(i) \in Active /\ (Saved \/ NotSaved)
    BY <1>4, <1>7 DEF Status, Active
  <2>2. /\ mem' \in Seq(Entries) /\ disk' \in Seq(Entries) /\ Ledgers'
        /\ DOMAIN mem' = DOMAIN mem /\ mem'[i].status = "RUNNING"
        /\ \A j \in DOMAIN mem : j # i => mem'[j] = mem[j]
        /\ disk' = disk \/ disk' = mem'
        /\ ~CapturesAre(Active) => ~CapturesAre(Active)'
        /\ i \in DOMAIN disk'
    BY <1>2, <1>5, <1>7, <2>1, StatusMoves
  <2>3. /\ place' \in [Runs -> Places] /\ place'[i] \in {"initialize", "failed"}
        /\ \A q \in Runs : q # i => place'[q] = place[q]
    BY <1>2, <1>3, <1>5, <1>7, PlaceMoves
  <2>4. place'[i] = "initialize" => disk' = mem'
    <3>1. CASE NotSaved /\ At(i, "failed")
      BY <3>1, <1>2, <1>3, <1>5, PlaceMoves
    <3> QED BY <3>1, <1>7 DEF Saved
  <2>5. Types' /\ TrialsOK'
    BY <1>1, <1>3, <2>2, <2>3 DEF Types, TrialsOK, TrialOK, explorationVars
  <2>6. CaptureOK(i)'
    <3>1. EntryOK(mem, i)' BY <2>2 DEF EntryOK
    <3>2. EntryOK(disk, i)'
      BY <1>1, <1>2, <2>2 DEF EntryOK, CaptureOK
    <3> QED BY <3>1, <3>2, <1>2, <2>2, <2>3, <2>4 DEF CaptureOK, InTrial
  <2>7. xpc \in XWorking => ~CapturesAre(Active)'
    BY <1>3, <2>2 DEF Modes
  <2> QED BY <1>1, <1>2, <2>2, <2>3, <2>5, <2>6, <2>7, OneCaptureMoves
<1> QED BY <1>6, <1>7 DEF Start

LEMMA CaptureTrialKeeps ==
    ASSUME LabInd, NEW i \in Captures, CaptureStep(i) \/ CaptureFails(i) PROVE LabInd'
<1>1. TrialStep(i) \/ TrialFails(i)
  BY DEF CaptureStep, CaptureFails
<1>2. /\ mem' = mem /\ (disk' = disk \/ disk' = mem')
      /\ UNCHANGED <<process, paid, explorationVars>>
  BY DEF CaptureStep, CaptureFails, captureVars
<1>3. Types /\ TrialsOK /\ Ledgers /\ Modes /\ i \in Runs
  BY RunSets DEF LabInd
<1>4. /\ place' \in [Runs -> Places] /\ box' \in [Runs -> Boxes] /\ TrialsOK'
      /\ \A q \in Runs : q # i => place'[q] = place[q] /\ box'[q] = box[q]
      /\ place[i] \in InTrial /\ place'[i] \in {"failed", "dispatch", "settle", "cleanup", "done"}
  BY <1>1, <1>3, TrialMoves
<1>5. /\ i \in DOMAIN mem /\ i \in DOMAIN disk /\ process # "down" /\ CaptureOK(i)
  BY <1>4, ExecutorsAreKnown DEF InTrial
<1>6. mem[i].status \in {"RUNNING", "CANCEL_REQUESTED"}
      /\ disk[i].status \in {"RUNNING", "CANCEL_REQUESTED"}
  BY <1>4, <1>5 DEF CaptureOK
<1>7. Types'
  BY <1>2, <1>3, <1>4 DEF Types, explorationVars
<1>8. Ledgers'
  BY <1>2, <1>3 DEF Ledgers, OneActive, Types
<1>9. CaptureOK(i)'
  BY <1>2, <1>4, <1>5, <1>6 DEF CaptureOK, EntryOK, InTrial
<1>10. xpc \in XWorking => ~CapturesAre(Active)'
  BY <1>2, <1>3 DEF Modes, CapturesAre, Status
<1> QED BY <1>2, <1>3, <1>4, <1>5, <1>7, <1>8, <1>9, <1>10, OneCaptureMoves

(* A step that rewrites the status of one session, wherever its executor   *)
(* is then.                                                                *)
LEMMA StatusStepKeeps ==
    ASSUME LabInd, NEW i \in DOMAIN mem, NEW s \in Statuses, SetStatus(i, s),
           s \in Active => Status(i) \in Active, Saved \/ NotSaved,
           UNCHANGED <<box, process, paid, explorationVars>>, process # "down",
           place' \in [Runs -> Places], \A q \in Runs : q # i => place'[q] = place[q],
           TrialOK(i)', CaptureOK(i)'
    PROVE  LabInd'
<1>1. Types /\ TrialsOK /\ Modes
  BY DEF LabInd
<1>2. /\ mem' \in Seq(Entries) /\ disk' \in Seq(Entries) /\ Ledgers'
      /\ DOMAIN mem' = DOMAIN mem
      /\ \A j \in DOMAIN mem : j # i => mem'[j] = mem[j]
      /\ (disk' = disk \/ disk' = mem')
      /\ (~CapturesAre(Active) => ~CapturesAre(Active)')
      /\ i \in Captures
  BY StatusMoves
<1>3. Types' BY <1>1, <1>2 DEF Types, explorationVars
<1>4. TrialsOK' BY <1>1 DEF TrialsOK, TrialOK
<1>5. xpc \in XWorking => ~CapturesAre(Active)' BY <1>1, <1>2 DEF Modes
<1> QED BY <1>2, <1>3, <1>4, <1>5, OneCaptureMoves

(* The same, where both copies may say the new status and no executor      *)
(* depends on it.                                                          *)
LEMMA EntryMoves ==
    ASSUME LabInd, NEW i \in DOMAIN mem, NEW s \in Statuses, SetStatus(i, s), box' = box,
           s = "COMPLETED" => box[i] = Removed,
           s \in {"ACCEPTED", "CANCELLED"} => box[i] = NoBox,
           disk' = disk \/ disk' = mem'
    PROVE  EntryOK(mem, i)' /\ EntryOK(disk, i)'
<1>1. mem'[i].status = s
  BY SetStatusKeeps DEF LabInd
<1>2. EntryOK(mem, i)'
  BY <1>1 DEF EntryOK
<1>3. EntryOK(disk, i)
  BY EntriesAreCaptures DEF LabInd, CapturesOK, CaptureOK
<1>4. EntryOK(disk, i)'
  BY <1>1, <1>3 DEF EntryOK
<1> QED BY <1>2, <1>4

LEMMA RecordFailureKeeps ==
    ASSUME LabInd, NEW i \in Captures, RecordFailure(i) PROVE LabInd'
<1>1. /\ place[i] = "failed" /\ SetStatus(i, "RECONCILE_REQUIRED") /\ (Saved \/ NotSaved)
      /\ At(i, "ended") /\ UNCHANGED <<box, process, paid, explorationVars>>
  BY DEF RecordFailure
<1>2. /\ i \in Runs /\ i \in DOMAIN mem /\ i \in DOMAIN disk /\ process # "down"
  BY <1>1, ExecutorsAreKnown
<1>3. /\ "RECONCILE_REQUIRED" \in Statuses \ Active /\ "ended" \in Places
  BY DEF Statuses, Places, Active, Blocked
<1>4. /\ place' \in [Runs -> Places] /\ place'[i] = "ended"
      /\ \A q \in Runs : q # i => place'[q] = place[q]
  BY <1>1, <1>2, <1>3, PlaceMoves DEF LabInd
<1>5. (disk' = disk \/ disk' = mem') /\ i \in DOMAIN disk'
  BY <1>1, <1>2, <1>3, StatusMoves
<1>6. EntryOK(mem, i)' /\ EntryOK(disk, i)'
  BY <1>1, <1>2, <1>3, <1>5, EntryMoves
<1>7. CaptureOK(i)' /\ TrialOK(i)'
  BY <1>4, <1>5, <1>6 DEF CaptureOK, TrialOK, InTrial
<1> QED BY <1>1, <1>2, <1>3, <1>4, <1>7, StatusStepKeeps

LEMMA FinishKeeps == ASSUME LabInd, NEW i \in Captures, Finish(i) PROVE LabInd'
<1>1. place[i] = "done" /\ UNCHANGED <<box, process, paid, explorationVars>>
  BY DEF Finish
<1>2. /\ i \in Runs /\ i \in DOMAIN mem /\ i \in DOMAIN disk /\ process # "down"
      /\ CaptureOK(i) /\ TrialOK(i)
  BY <1>1, ExecutorsAreKnown
<1>3. /\ "COMPLETED" \in Statuses \ Active /\ "ended" \in Places /\ "failed" \in Places
  BY DEF Statuses, Places, Active, Blocked
<1>4. PICK p \in {"ended", "failed"} : At(i, p)
  BY <1>1 DEF Finish
<1>5. /\ place' \in [Runs -> Places] /\ place'[i] = p
      /\ \A q \in Runs : q # i => place'[q] = place[q]
  BY <1>2, <1>3, <1>4, PlaceMoves DEF LabInd
<1>6. box[i] = Removed
  BY <1>1, <1>2 DEF TrialOK
<1>7. TrialOK(i)'
  BY <1>5 DEF TrialOK
<1>8. CASE SetStatus(i, "COMPLETED") /\ (Saved \/ NotSaved)
  <2>1. (disk' = disk \/ disk' = mem') /\ i \in DOMAIN disk'
    BY <1>2, <1>3, <1>8, StatusMoves
  <2>2. EntryOK(mem, i)' /\ EntryOK(disk, i)'
    BY <1>1, <1>2, <1>3, <1>6, <1>8, <2>1, EntryMoves
  <2>3. CaptureOK(i)'
    BY <1>5, <2>1, <2>2 DEF CaptureOK, InTrial
  <2> QED BY <1>1, <1>2, <1>3, <1>5, <1>7, <1>8, <2>3, StatusStepKeeps
<1>9. CASE At(i, "failed") /\ UNCHANGED captureVars
  <2>1. mem' = mem /\ disk' = disk BY <1>9 DEF captureVars
  <2>2. CaptureOK(i)'
    BY <1>1, <1>2, <1>5, <2>1 DEF CaptureOK, EntryOK, InTrial
  <2>3. Types' /\ TrialsOK'
    BY <1>1, <1>5, <1>7, <2>1 DEF LabInd, Types, TrialsOK, TrialOK, explorationVars
  <2>4. Ledgers' /\ (xpc \in XWorking => ~CapturesAre(Active)')
    BY <2>1 DEF LabInd, Ledgers, OneActive, Modes, CapturesAre, Status
  <2> QED BY <1>1, <1>2, <1>5, <2>1, <2>2, <2>3, <2>4, OneCaptureMoves
<1> QED BY <1>1, <1>8, <1>9 DEF Finish

LEMMA CancelKeeps == ASSUME LabInd, NEW i \in Captures, Cancel(i) PROVE LabInd'
<1>1. /\ i \in DOMAIN mem /\ Status(i) \in Active /\ process # "down" /\ (Saved \/ NotSaved)
      /\ UNCHANGED <<place, box, process, paid, explorationVars>>
  BY DEF Cancel, Serving, trialVars
<1>2. i \in Runs /\ CaptureOK(i) /\ TrialOK(i)
  BY RunSets DEF LabInd, CapturesOK, TrialsOK
<1>3. TrialOK(i)' /\ place' \in [Runs -> Places]
  BY <1>1, <1>2 DEF TrialOK, LabInd, Types
<1>4. PICK s \in {"CANCELLED", "CANCEL_REQUESTED"} :
          /\ SetStatus(i, s)
          /\ s = "CANCELLED" <=> Status(i) = "ACCEPTED"
  BY DEF Cancel
<1>5. s \in Statuses /\ (s \in Active => Status(i) \in Active)
  BY <1>1 DEF Statuses, Active
<1>6. /\ DOMAIN mem' = DOMAIN mem /\ mem'[i].status = s
      /\ (disk' = disk \/ disk' = mem') /\ (i \in DOMAIN disk => i \in DOMAIN disk')
  BY <1>1, <1>4, <1>5, StatusMoves
<1>7. EntryOK(mem, i)' /\ EntryOK(disk, i)'
  <2>1. Status(i) = "ACCEPTED" => box[i] = NoBox
    BY <1>1, <1>2 DEF CaptureOK, EntryOK, Status
  <2> QED BY <1>1, <1>4, <1>5, <1>6, <2>1, EntryMoves
<1>8. CaptureOK(i)'
  <2>1. place[i] = "start" => s = "CANCELLED"
    BY <1>1, <1>2, <1>4 DEF CaptureOK, Status, Active
  <2>2. place[i] \in InTrial \cup {"done"} => s = "CANCEL_REQUESTED"
    BY <1>1, <1>2, <1>4 DEF CaptureOK, Status, Active
  <2>3. CASE disk' = disk
    BY <1>1, <1>2, <1>6, <1>7, <2>1, <2>2, <2>3 DEF CaptureOK
  <2>4. CASE disk' = mem'
    BY <1>1, <1>2, <1>6, <1>7, <2>1, <2>2, <2>4 DEF CaptureOK
  <2> QED BY <1>6, <2>3, <2>4
<1> QED BY <1>1, <1>3, <1>4, <1>5, <1>8, StatusStepKeeps

LEMMA GetKeeps == ASSUME LabInd, NEW i \in Captures, Get(i) PROVE LabInd'
<1>1. /\ i \in DOMAIN mem /\ Status(i) = "COMPLETED" /\ process # "down" /\ (Saved \/ NotSaved)
      /\ SetStatus(i, "INCONCLUSIVE")
      /\ UNCHANGED <<place, box, process, paid, explorationVars>>
  BY DEF Get, Serving, trialVars
<1>2. i \in Runs /\ CaptureOK(i) /\ TrialOK(i)
  BY RunSets DEF LabInd, CapturesOK, TrialsOK
<1>3. TrialOK(i)' /\ place' \in [Runs -> Places]
  BY <1>1, <1>2 DEF TrialOK, LabInd, Types
<1>4. "INCONCLUSIVE" \in Statuses \ Active
  BY DEF Statuses, Active, Blocked
<1>5. (disk' = disk \/ disk' = mem') /\ (i \in DOMAIN disk => i \in DOMAIN disk')
  BY <1>1, <1>4, StatusMoves
<1>6. EntryOK(mem, i)' /\ EntryOK(disk, i)'
  BY <1>1, <1>4, <1>5, EntryMoves
<1>7. place[i] # "start" /\ place[i] \notin InTrial \cup {"done"}
  BY <1>1, <1>2 DEF CaptureOK, Status
<1>8. CaptureOK(i)'
  BY <1>1, <1>2, <1>5, <1>6, <1>7 DEF CaptureOK
<1> QED BY <1>1, <1>3, <1>4, <1>8, StatusStepKeeps

(* The exploration's side: a step of it leaves the captures as they are.   *)
LEMMA CapturesStay ==
    ASSUME LabInd, UNCHANGED captureVars,
           \A q \in Captures : place'[q] = place[q] /\ box'[q] = box[q]
    PROVE  /\ Ledgers' /\ CapturesOK'
           /\ CapturesAre(Active)' <=> CapturesAre(Active)
<1>1. mem' = mem /\ disk' = disk BY DEF captureVars
<1>2. Ledgers' BY <1>1 DEF LabInd, Ledgers, OneActive
<1>3. CapturesOK'
  <2>1. SUFFICES ASSUME NEW j \in Captures PROVE CaptureOK(j)'
    BY DEF CapturesOK
  <2> QED BY <1>1 DEF LabInd, CapturesOK, CaptureOK, EntryOK
<1> QED BY <1>1, <1>2, <1>3 DEF CapturesAre, Status

(* While the exploration has a thread there is a session and a process.    *)
LEMMA ThreadIsThere ==
    ASSUME LabInd, xpc # "none"
    PROVE  /\ x \in Sessions /\ x # None /\ process # "down" /\ paid
           /\ Types /\ TrialsOK /\ RowOK(x) /\ RowOK(xdisk) /\ seal
BY LabConstants DEF LabInd, Types, Modes, RowsOK, RowOK

\* Likewise for a step of the exploration's thread.
LEMMA ExplorationMoves ==
    ASSUME LabInd, UNCHANGED <<process, paid, captureVars>>, process # "down",
           \A q \in Captures : place'[q] = place[q] /\ box'[q] = box[q],
           Types', TrialsOK', RowsOK', SameWork', RoundsOK',
           xpc' # "none" => paid /\ x' # None,
           xpc' \in XWorking => xpc \in XWorking \/ ~CapturesAre(Active)
    PROVE  LabInd'
<1>1. Ledgers' /\ CapturesOK' /\ (CapturesAre(Active)' <=> CapturesAre(Active))
  BY CapturesStay DEF captureVars
<1>2. Modes'
  BY <1>1 DEF LabInd, Modes
<1> QED BY <1>1, <1>2 DEF LabInd

(* Copies of the session that differ in a field or two.                    *)
LEMMA SessionStatus ==
    ASSUME NEW y \in Sessions, NEW s \in Statuses
    PROVE  LET z == [y EXCEPT !.status = s] IN
           /\ z \in Sessions /\ z.status = s
           /\ z.asked = y.asked /\ z.known = y.known
           /\ z.reserved = y.reserved /\ z.trials = y.trials
           /\ z.cancel = y.cancel
BY DEF Sessions, Statuses

\* What a cancellation writes into a session.
LEMMA SessionCancelled ==
    ASSUME NEW y \in Sessions, NEW s \in Statuses
    PROVE  LET z == [y EXCEPT !.status = s, !.cancel = TRUE] IN
           /\ z \in Sessions /\ z.status = s
           /\ z.asked = y.asked /\ z.known = y.known
           /\ z.reserved = y.reserved /\ z.trials = y.trials
<1> DEFINE w == [y EXCEPT !.status = s]
<1>1. /\ w \in Sessions /\ w.status = s
      /\ w.asked = y.asked /\ w.known = y.known
      /\ w.reserved = y.reserved /\ w.trials = y.trials
  BY SessionStatus
<1>2. [y EXCEPT !.status = s, !.cancel = TRUE] = [w EXCEPT !.cancel = TRUE]
  OBVIOUS
<1> HIDE DEF w
<1> QED BY <1>1, <1>2 DEF Sessions

\* What a paid request writes into a session before it is sent.
LEMMA SessionAsks ==
    ASSUME NEW y \in Sessions
    PROVE  LET z == [y EXCEPT !.asked = @ + 1, !.known = FALSE] IN
           /\ z \in Sessions /\ z.status = y.status
           /\ z.asked = y.asked + 1 /\ z.known = FALSE
           /\ z.reserved = y.reserved /\ z.trials = y.trials
<1> DEFINE w == [y EXCEPT !.asked = @ + 1]
<1>1. /\ w \in Sessions /\ w.status = y.status /\ w.asked = y.asked + 1
      /\ w.reserved = y.reserved /\ w.trials = y.trials
  BY DEF Sessions
<1>2. [y EXCEPT !.asked = @ + 1, !.known = FALSE] = [w EXCEPT !.known = FALSE]
  OBVIOUS
<1> HIDE DEF w
<1> QED BY <1>1, <1>2 DEF Sessions

\* What its answer writes.
LEMMA SessionKnows ==
    ASSUME NEW y \in Sessions
    PROVE  LET z == [y EXCEPT !.known = TRUE] IN
           /\ z \in Sessions /\ z.status = y.status
           /\ z.asked = y.asked /\ z.known = TRUE
           /\ z.reserved = y.reserved /\ z.trials = y.trials
BY DEF Sessions

\* What a reserved and what a finished round write.
LEMMA SessionCounts ==
    ASSUME NEW y \in Sessions
    PROVE  /\ LET z == [y EXCEPT !.reserved = @ + 1] IN
              /\ z \in Sessions /\ z.status = y.status
              /\ z.asked = y.asked /\ z.known = y.known
              /\ z.reserved = y.reserved + 1 /\ z.trials = y.trials
           /\ LET z == [y EXCEPT !.trials = @ + 1] IN
              /\ z \in Sessions /\ z.status = y.status
              /\ z.asked = y.asked /\ z.known = y.known
              /\ z.reserved = y.reserved /\ z.trials = y.trials + 1
BY DEF Sessions

\* A save of the exploration that succeeds or fails keeps both copies in order.
LEMMA RowsMove ==
    ASSUME LabInd, x' \in Sessions, RowOK(x)', UNCHANGED <<box, seal, sent>>,
           xdisk' = x' \/ xdisk' = xdisk
    PROVE  RowsOK' /\ xdisk' \in Sessions \cup {None} /\ x' # None
<1>1. RowOK(xdisk) /\ Types
  BY DEF LabInd, RowsOK
<1>2. RowOK(xdisk)'
  <2>1. CASE xdisk' = xdisk BY <1>1, <2>1 DEF RowOK
  <2>2. CASE xdisk' = x' BY <2>2 DEF RowOK
  <2> QED BY <2>1, <2>2
<1>3. x' # None BY LabConstants
<1> QED BY <1>1, <1>2, <1>3 DEF LabInd, RowsOK, Types

(* A session whose counts stay is in order if its status claims no more    *)
(* than they do.                                                           *)
LEMMA StatusRow ==
    ASSUME LabInd, x \in Sessions, RowOK(x), UNCHANGED <<box, seal, sent>>,
           x'.asked = x.asked, x'.known = x.known,
           x'.reserved = x.reserved, x'.trials = x.trials,
           x'.status \in {"COMPLETED", "CANCELLED"} => x.known /\ x.reserved = x.trials,
           x'.status = "COMPLETED" => x.trials = Rounds /\ sent = Rounds
    PROVE  RowOK(x)'
<1>1. x # None BY LabConstants
<1> QED BY <1>1 DEF RowOK

(* Outside a trial and a failure no round has an executor.                 *)
LEMMA QuietRounds ==
    ASSUME LabInd, xpc \notin {"trial", "failed"}, place' = place
    PROVE  RoundsOK'
BY DEF LabInd, RoundsOK

\* What leaves the trials alone keeps what is said of them.
LEMMA TrialsStay ==
    ASSUME LabInd, UNCHANGED trialVars
    PROVE  /\ TrialsOK' /\ place' \in [Runs -> Places] /\ box' \in [Runs -> Boxes]
           /\ \A q \in Captures : place'[q] = place[q] /\ box'[q] = box[q]
BY DEF LabInd, TrialsOK, TrialOK, trialVars, Types

LEMMA XStopsKeeps ==
    ASSUME LabInd, NEW p \in {"start", "ask", "reserve"}, XStops(p) PROVE LabInd'
<1>1. /\ xpc = p /\ x' = [x EXCEPT !.status = "CANCELLED"]
      /\ (xdisk' = x' \/ xdisk' = xdisk) /\ xpc' \in {"ended", "failed"}
      /\ UNCHANGED <<trialVars, process, paid, captureVars, seal, sent>>
  BY DEF XStops, XSaved, XNotSaved
<1>2. /\ x \in Sessions /\ x # None /\ process # "down" /\ paid
      /\ Types /\ TrialsOK /\ RowOK(x) /\ RowOK(xdisk) /\ seal
  BY <1>1, ThreadIsThere
<1>3. "CANCELLED" \in Statuses BY DEF Statuses
<1>4. /\ x' \in Sessions /\ x'.status = "CANCELLED"
      /\ x'.asked = x.asked /\ x'.known = x.known
      /\ x'.reserved = x.reserved /\ x'.trials = x.trials
  BY <1>1, <1>2, <1>3, SessionStatus
<1>5. x.known /\ x.reserved = x.trials
  <2>1. SameWork /\ xpc \in XWorking BY <1>1 DEF LabInd, XWorking
  <2>2. x.trials <= x.reserved /\ x.reserved <= x.asked
    BY <1>2 DEF RowOK
  <2>3. x.asked \in Nat /\ x.reserved \in Nat /\ x.trials \in Nat /\ x.known \in BOOLEAN
    BY <1>2 DEF Sessions
  <2>4. x.known BY <1>1, <2>1, <2>3 DEF SameWork
  <2>5. CASE p = "start"
    BY <1>1, <2>1, <2>2, <2>3, <2>5 DEF SameWork
  <2>6. CASE p = "ask"
    BY <1>1, <2>1, <2>2, <2>3, <2>6 DEF SameWork
  <2>7. CASE p = "reserve"
    BY <1>1, <2>1, <2>2, <2>3, <2>7 DEF SameWork
  <2> QED BY <2>4, <2>5, <2>6, <2>7
<1>6. /\ TrialsOK' /\ place' \in [Runs -> Places] /\ box' \in [Runs -> Boxes]
      /\ \A q \in Captures : place'[q] = place[q] /\ box'[q] = box[q]
  BY <1>1, TrialsStay
<1>7. UNCHANGED <<place, box>> BY <1>1 DEF trialVars
<1>8. RowOK(x)' BY <1>1, <1>2, <1>4, <1>5, <1>7, StatusRow
<1>9. RowsOK' /\ xdisk' \in Sessions \cup {None} /\ x' # None
  BY <1>1, <1>4, <1>7, <1>8, RowsMove
<1>10. Types' BY <1>1, <1>2, <1>4, <1>6, <1>9 DEF Types, captureVars
<1>11. RoundsOK' BY <1>1, <1>7, QuietRounds
<1>12. xpc' \notin XWorking BY <1>1 DEF XWorking
<1>13. SameWork' BY <1>12 DEF SameWork
<1> QED BY <1>1, <1>2, <1>6, <1>9, <1>10, <1>11, <1>12, <1>13, ExplorationMoves

LEMMA XStartKeeps == ASSUME LabInd, XStart PROVE LabInd'
<1>1. /\ xpc = "start" /\ xpc' = "running"
      /\ UNCHANGED <<x, xdisk, trialVars, sent, process, paid, captureVars, seal>>
  BY DEF XStart, XGoesOn, XThread
<1>2. /\ x \in Sessions /\ x # None /\ process # "down" /\ paid
      /\ Types /\ TrialsOK /\ RowOK(x) /\ RowOK(xdisk) /\ seal
  BY <1>1, ThreadIsThere
<1>3. /\ TrialsOK' /\ place' \in [Runs -> Places] /\ box' \in [Runs -> Boxes]
      /\ \A q \in Captures : place'[q] = place[q] /\ box'[q] = box[q]
  BY <1>1, TrialsStay
<1>4. UNCHANGED <<place, box>> BY <1>1 DEF trialVars
<1>5. RowsOK' BY <1>1, <1>4 DEF LabInd, RowsOK, RowOK
<1>6. "start" \in XWorking /\ "running" \in XWorking BY DEF XWorking
<1>7. Types' BY <1>1, <1>2, <1>3, <1>6 DEF Types, captureVars
<1>8. RoundsOK' BY <1>1, <1>4, QuietRounds
<1>9. SameWork' BY <1>1, <1>6 DEF LabInd, SameWork
<1> QED BY <1>1, <1>2, <1>3, <1>5, <1>6, <1>7, <1>8, <1>9, ExplorationMoves

(* A step of the thread that touches no trial has its own session and      *)
(* place to keep in order.                                                 *)
LEMMA ThreadSteps ==
    ASSUME LabInd, xpc \in XWorking \ {"trial"},
           UNCHANGED <<trialVars, process, paid, captureVars, seal>>,
           x' \in Sessions, xdisk' = x' \/ xdisk' = xdisk, sent' \in Nat,
           xpc' \in XWorking \cup {"failed", "ended"}, RowsOK', SameWork'
    PROVE  LabInd'
<1>1. xpc \notin {"none", "trial", "failed"}
  BY DEF XWorking
<1>2. /\ x \in Sessions /\ x # None /\ process # "down" /\ paid /\ Types
  BY <1>1, ThreadIsThere
<1>3. /\ TrialsOK' /\ place' \in [Runs -> Places] /\ box' \in [Runs -> Boxes]
      /\ \A q \in Captures : place'[q] = place[q] /\ box'[q] = box[q]
  BY TrialsStay
<1>4. place' = place /\ x' # None BY LabConstants DEF trialVars
<1>5. RoundsOK' BY <1>1, <1>4, QuietRounds
<1>6. Types' BY <1>2, <1>3 DEF Types, captureVars
<1> QED BY <1>2, <1>3, <1>4, <1>5, <1>6, ExplorationMoves

LEMMA XRunKeeps == ASSUME LabInd, XRun PROVE LabInd'
<1>1. /\ xpc = "running" /\ x' = [x EXCEPT !.status = "RUNNING"]
      /\ \/ xdisk' = x' /\ xpc' = "ask"
         \/ xdisk' = xdisk /\ xpc' = "failed"
      /\ UNCHANGED <<trialVars, process, paid, captureVars, seal, sent>>
  BY DEF XRun, XThread, XSaved, XNotSaved
<1>2. /\ x \in Sessions /\ x # None /\ process # "down" /\ paid
      /\ Types /\ TrialsOK /\ RowOK(x) /\ RowOK(xdisk) /\ seal
  BY <1>1, ThreadIsThere
<1>3. "RUNNING" \in Statuses /\ "RUNNING" \in Active /\ "ask" \in XWorking /\ "running" \in XWorking
  BY DEF Statuses, Active, XWorking
<1>4. /\ x' \in Sessions /\ x'.status = "RUNNING"
      /\ x'.asked = x.asked /\ x'.known = x.known
      /\ x'.reserved = x.reserved /\ x'.trials = x.trials
  BY <1>1, <1>2, <1>3, SessionStatus
<1>5. UNCHANGED <<place, box>> BY <1>1 DEF trialVars
<1>6. RowOK(x)' BY <1>1, <1>2, <1>4, <1>5, StatusRow
<1>7. RowsOK' /\ x' # None BY <1>1, <1>4, <1>5, <1>6, RowsMove
<1>8. SameWork'
  <2>1. CASE xpc' = "failed" BY <2>1 DEF SameWork, XWorking
  <2>2. CASE xdisk' = x' /\ xpc' = "ask"
    <3>1. sent = x.asked /\ x.known = TRUE /\ x.asked = x.trials /\ x.trials < Rounds
      BY <1>1, <1>2, <1>3 DEF LabInd, SameWork, Sessions
    <3> QED BY <3>1, <2>2, <1>1, <1>3, <1>4, <1>7 DEF SameWork
  <2> QED BY <1>1, <2>1, <2>2
<1>9. xpc \in XWorking \ {"trial"} /\ xpc' \in XWorking \cup {"failed", "ended"}
  BY <1>1, <1>3
<1>10. sent' \in Nat /\ (xdisk' = x' \/ xdisk' = xdisk)
  BY <1>1, <1>2 DEF Types
<1> QED BY <1>1, <1>4, <1>7, <1>8, <1>9, <1>10, ThreadSteps

LEMMA XAskKeeps == ASSUME LabInd, XAsk PROVE LabInd'
<1>1. /\ xpc = "ask" /\ UNCHANGED <<trialVars, process, paid, captureVars, seal>>
  BY DEF XAsk, XGoesOn, XThread
<1>2. /\ x \in Sessions /\ x # None /\ process # "down" /\ paid
      /\ Types /\ TrialsOK /\ RowOK(x) /\ RowOK(xdisk) /\ seal
  BY <1>1, ThreadIsThere
<1>3. "ask" \in XWorking /\ "answer" \in XWorking /\ "failed" \notin XWorking BY DEF XWorking
<1>4. UNCHANGED <<place, box>> BY <1>1 DEF trialVars
<1>5. /\ sent = x.asked /\ x.asked = x.trials /\ x.trials < Rounds /\ x.known = TRUE
      /\ x.status \in Active \cup {"INCONCLUSIVE"} /\ xdisk # None
      /\ xdisk.asked = x.asked /\ xdisk.trials = x.trials
  BY <1>1, <1>2, <1>3 DEF LabInd, SameWork, Sessions
<1>6. /\ x.asked \in Nat /\ x.trials \in Nat /\ x.reserved \in Nat /\ x.reserved = x.trials
  <2>1. /\ x.asked \in Nat /\ x.trials \in Nat /\ x.reserved \in Nat BY <1>2 DEF Sessions
  <2>2. x.trials <= x.reserved /\ x.reserved <= x.asked BY <1>2 DEF RowOK
  <2> QED BY <2>1, <2>2, <1>5
<1>7. CASE /\ x' = [x EXCEPT !.asked = @ + 1, !.known = FALSE]
           /\ \/ xdisk' = x' /\ xpc' = "answer" /\ sent' = sent + 1
              \/ xdisk' = xdisk /\ xpc' = "failed" /\ sent' = sent
  <2>1. /\ x' \in Sessions /\ x'.status = x.status
        /\ x'.asked = x.asked + 1 /\ x'.known = FALSE
        /\ x'.reserved = x.reserved /\ x'.trials = x.trials
    BY <1>2, <1>7, SessionAsks
  <2>2. sent' \in Nat /\ sent' <= x'.asked /\ (xpc' = "answer" => sent' = x'.asked)
    BY <1>5, <1>6, <1>7, <2>1
  <2>3. x'.status \notin {"COMPLETED", "CANCELLED"}
    BY <1>5, <2>1 DEF Active
  <2>4. RowOK(x)'
    <3>1. x'.trials <= x'.reserved /\ x'.reserved <= x'.asked /\ x'.asked <= Rounds
          /\ x'.asked <= x'.trials + 1
      BY <1>5, <1>6, <2>1, LabConstants
    <3>2. \A n \in 1 .. Rounds :
             /\ n <= x'.trials => box'[Round(n)] = Removed
             /\ n > x'.reserved => box'[Round(n)] = NoBox
      BY <1>2, <1>4, <2>1 DEF RowOK
    <3> QED BY <3>1, <3>2, <2>2, <2>3, <1>1, <1>2 DEF RowOK
  <2>5. RowOK(xdisk)'
    <3>1. CASE xdisk' = x' BY <3>1, <2>4 DEF RowOK
    <3>2. CASE xdisk' = xdisk /\ sent' = sent BY <3>2, <1>1, <1>2, <1>4 DEF RowOK
    <3> QED BY <3>1, <3>2, <1>7
  <2>6. x' # None /\ xdisk' # None /\ (xdisk' = x' \/ xdisk' = xdisk)
    BY <1>5, <1>7, <2>1, LabConstants
  <2>7. RowsOK' BY <2>4, <2>5, <2>6 DEF RowsOK
  <2>8. SameWork'
    <3>1. CASE xpc' = "failed" BY <3>1 DEF SameWork, XWorking
    <3>2. CASE xdisk' = x' /\ xpc' = "answer" /\ sent' = sent + 1
      BY <3>2, <1>5, <1>6, <2>1, <2>2, <2>6 DEF SameWork
    <3> QED BY <1>7, <3>1, <3>2
  <2>9. xpc' \in XWorking \cup {"failed", "ended"} /\ xpc \in XWorking \ {"trial"}
    BY <1>1, <1>3, <1>7
  <2> QED BY <1>1, <2>1, <2>2, <2>6, <2>7, <2>8, <2>9, ThreadSteps
<1>8. CASE xpc' = "failed" /\ UNCHANGED <<x, xdisk, sent>>
  <2>1. RowsOK' BY <1>1, <1>4, <1>8 DEF LabInd, RowsOK, RowOK
  <2>2. SameWork' BY <1>8 DEF SameWork, XWorking
  <2>3. xpc \in XWorking \ {"trial"} /\ sent' \in Nat BY <1>1, <1>2, <1>3, <1>8 DEF Types
  <2> QED BY <1>1, <1>2, <1>8, <2>1, <2>2, <2>3, ThreadSteps
<1> QED BY <1>7, <1>8 DEF XAsk, XSaved, XNotSaved

LEMMA XAnswerKeeps == ASSUME LabInd, XAnswer PROVE LabInd'
<1>1. /\ xpc = "answer" /\ UNCHANGED <<trialVars, process, paid, captureVars, seal, sent>>
      /\ xdisk' = x' \/ xdisk' = xdisk
      /\ \/ x' = [x EXCEPT !.known = TRUE] /\ xdisk' = x' /\ xpc' = "reserve"
         \/ x' = [x EXCEPT !.known = TRUE] /\ xpc' = "failed"
         \/ x' = x /\ xpc' = "failed"
  BY DEF XAnswer, XThread, XSaved, XNotSaved
<1>2. /\ x \in Sessions /\ x # None /\ process # "down" /\ paid
      /\ Types /\ TrialsOK /\ RowOK(x) /\ RowOK(xdisk) /\ seal
  BY <1>1, ThreadIsThere
<1>3. "answer" \in XWorking /\ "reserve" \in XWorking /\ "failed" \notin XWorking BY DEF XWorking
<1>4. UNCHANGED <<place, box>> BY <1>1 DEF trialVars
<1>5. /\ sent = x.asked /\ x.asked = x.trials + 1 /\ x.reserved = x.trials
      /\ x.status \in Active \cup {"INCONCLUSIVE"}
  BY <1>1, <1>3 DEF LabInd, SameWork
<1>6. /\ x' \in Sessions /\ x'.status = x.status
      /\ x'.asked = x.asked /\ x'.reserved = x.reserved /\ x'.trials = x.trials
      /\ x'.known \in BOOLEAN /\ (xpc' = "reserve" => x'.known = TRUE)
  <2>1. CASE x' = [x EXCEPT !.known = TRUE] BY <1>2, <2>1, SessionKnows
  <2>2. CASE x' = x /\ xpc' = "failed" BY <1>2, <2>2 DEF Sessions
  <2> QED BY <1>1, <2>1, <2>2
<1>7. x'.status \notin {"COMPLETED", "CANCELLED"}
  BY <1>5, <1>6 DEF Active
<1>8. RowOK(x)' BY <1>1, <1>2, <1>4, <1>6, <1>7 DEF RowOK
<1>9. RowsOK' /\ x' # None BY <1>1, <1>4, <1>6, <1>8, RowsMove
<1>10. SameWork'
  <2>1. CASE xpc' = "failed" BY <2>1 DEF SameWork, XWorking
  <2>2. CASE xdisk' = x' /\ xpc' = "reserve"
    BY <2>2, <1>1, <1>5, <1>6, <1>9 DEF SameWork
  <2> QED BY <1>1, <2>1, <2>2
<1>11. xpc \in XWorking \ {"trial"} /\ xpc' \in XWorking \cup {"failed", "ended"} /\ sent' \in Nat
  BY <1>1, <1>2, <1>3 DEF Types
<1> QED BY <1>1, <1>6, <1>9, <1>10, <1>11, ThreadSteps

LEMMA XFinishKeeps == ASSUME LabInd, XFinish PROVE LabInd'
<1>1. /\ xpc = "finish" /\ UNCHANGED <<trialVars, process, paid, captureVars, seal, sent>>
      /\ x' = [x EXCEPT !.status = "COMPLETED"]
      /\ (xdisk' = x' \/ xdisk' = xdisk) /\ xpc' \in {"ended", "failed"}
  BY DEF XFinish, XThread, XSaved, XNotSaved
<1>2. /\ x \in Sessions /\ x # None /\ process # "down" /\ paid
      /\ Types /\ TrialsOK /\ RowOK(x) /\ RowOK(xdisk) /\ seal
  BY <1>1, ThreadIsThere
<1>3. "finish" \in XWorking /\ "COMPLETED" \in Statuses BY DEF XWorking, Statuses
<1>4. UNCHANGED <<place, box>> BY <1>1 DEF trialVars
<1>5. sent = x.asked /\ x.trials = Rounds /\ x.known = TRUE
  BY <1>1, <1>2, <1>3 DEF LabInd, SameWork, Sessions
<1>6. x.reserved = x.trials /\ sent = Rounds
  <2>1. x.asked \in Nat /\ x.reserved \in Nat /\ x.trials \in Nat BY <1>2 DEF Sessions
  <2>2. x.trials <= x.reserved /\ x.reserved <= x.asked /\ x.asked <= Rounds
    BY <1>2 DEF RowOK
  <2> QED BY <2>1, <2>2, <1>5, LabConstants
<1>7. /\ x' \in Sessions /\ x'.status = "COMPLETED"
      /\ x'.asked = x.asked /\ x'.known = x.known
      /\ x'.reserved = x.reserved /\ x'.trials = x.trials
  BY <1>1, <1>2, <1>3, SessionStatus
<1>8. RowOK(x)' BY <1>1, <1>2, <1>4, <1>5, <1>6, <1>7, StatusRow
<1>9. RowsOK' /\ x' # None BY <1>1, <1>4, <1>7, <1>8, RowsMove
<1>10. SameWork' BY <1>1 DEF SameWork, XWorking
<1>11. xpc \in XWorking \ {"trial"} /\ xpc' \in XWorking \cup {"failed", "ended"} /\ sent' \in Nat
  BY <1>1, <1>2, <1>3 DEF Types
<1> QED BY <1>1, <1>7, <1>9, <1>10, <1>11, ThreadSteps

LEMMA XReserveKeeps == ASSUME LabInd, XReserve PROVE LabInd'
<1>1. /\ xpc = "reserve" /\ UNCHANGED <<box, process, paid, captureVars, seal, sent>>
      /\ x' = [x EXCEPT !.reserved = @ + 1] /\ (xdisk' = x' \/ xdisk' = xdisk)
  BY DEF XReserve, XThread, XSaved, XNotSaved, XGoesOn
<1>2. /\ x \in Sessions /\ x # None /\ process # "down" /\ paid
      /\ Types /\ TrialsOK /\ RowOK(x) /\ RowOK(xdisk) /\ seal
  BY <1>1, ThreadIsThere
<1>3. "reserve" \in XWorking /\ "trial" \in XWorking /\ "failed" \notin XWorking BY DEF XWorking
<1>4. /\ sent = x.asked /\ x.asked = x.trials + 1 /\ x.reserved = x.trials /\ x.known = TRUE
      /\ x.status \in Active \cup {"INCONCLUSIVE"}
  BY <1>1, <1>2, <1>3 DEF LabInd, SameWork, Sessions
<1>5. /\ x' \in Sessions /\ x'.status = x.status
      /\ x'.asked = x.asked /\ x'.known = x.known
      /\ x'.reserved = x.reserved + 1 /\ x'.trials = x.trials
  BY <1>1, <1>2, SessionCounts
<1>6. /\ x.asked \in Nat /\ x.trials \in Nat /\ x.reserved \in Nat /\ x.asked <= Rounds
  BY <1>2 DEF Sessions, RowOK
<1>7. x'.status \notin {"COMPLETED", "CANCELLED"}
  BY <1>4, <1>5 DEF Active
<1>8. RowOK(x)'
  <2>1. x'.trials <= x'.reserved /\ x'.reserved <= x'.asked /\ x'.asked <= Rounds
        /\ x'.asked <= x'.trials + 1 /\ sent <= x'.asked
    BY <1>4, <1>5, <1>6, LabConstants
  <2>2. \A n \in 1 .. Rounds :
           /\ n <= x'.trials => box'[Round(n)] = Removed
           /\ n > x'.reserved => box'[Round(n)] = NoBox
    BY <1>1, <1>2, <1>5, <1>6 DEF RowOK
  <2> QED BY <2>1, <2>2, <1>1, <1>2, <1>7 DEF RowOK
<1>9. RowsOK' /\ xdisk' \in Sessions \cup {None} /\ x' # None
  BY <1>1, <1>5, <1>8, RowsMove
<1>10. PICK m \in 1 .. Rounds : m = x'.reserved
  BY <1>4, <1>5, <1>6, LabConstants
<1>11. /\ Round(m) \in Runs /\ Round(m) \notin Captures /\ box[Round(m)] = NoBox
       /\ \A n \in 1 .. Rounds : Round(n) \in Runs /\ (Round(n) = Round(m) => n = m)
  <2>1. m > x.reserved BY <1>5, <1>6, <1>10
  <2> QED BY <2>1, <1>2, RunSets DEF RowOK
<1>12. CASE xdisk' = x' /\ xpc' = "trial" /\ At(Round(x'.reserved), "initialize")
  <2>1. /\ "initialize" \in Places /\ "initialize" \in InTrial
        /\ "initialize" \notin {"start", "failed", "done"}
    BY DEF Places, InTrial
  <2>2. /\ place' \in [Runs -> Places] /\ place'[Round(m)] = "initialize"
        /\ \A q \in Runs : q # Round(m) => place'[q] = place[q]
    BY <1>2, <1>10, <1>11, <1>12, <2>1, PlaceMoves
  <2>3. TrialsOK'
    BY <1>1, <1>2, <1>11, <2>2 DEF TrialsOK, TrialOK
  <2>4. Types' BY <1>1, <1>2, <1>3, <1>5, <1>9, <1>12, <2>2 DEF Types, captureVars
  <2>5. SameWork' BY <1>1, <1>4, <1>5, <1>9, <1>12 DEF SameWork
  <2>6. RoundsOK'
    <3>1. SUFFICES ASSUME NEW n \in 1 .. Rounds
                   PROVE  /\ place'[Round(n)] # "start"
                          /\ place'[Round(n)] \in InTrial \cup {"done"} => n = x'.reserved
                          /\ place'[Round(n)] # "failed"
      BY <1>12 DEF RoundsOK
    <3>2. CASE n = m BY <3>2, <1>10, <2>1, <2>2
    <3>3. CASE n # m
      <4>1. place'[Round(n)] = place[Round(n)] BY <3>3, <1>11, <2>2
      <4>2. place[Round(n)] \notin InTrial \cup {"done", "failed", "start"}
        BY <1>1 DEF LabInd, RoundsOK
      <4> QED BY <4>1, <4>2
    <3> QED BY <3>2, <3>3
  <2>7. \A q \in Captures : place'[q] = place[q] /\ box'[q] = box[q]
    BY <1>1, <1>11, <2>2, RunSets
  <2> QED BY <1>1, <1>2, <1>3, <1>9, <2>3, <2>4, <2>5, <2>6, <2>7, ExplorationMoves
<1>13. CASE xdisk' = xdisk /\ xpc' = "failed" /\ place' = place
  <2>1. UNCHANGED trialVars BY <1>1, <1>13 DEF trialVars
  <2>2. SameWork' BY <1>3, <1>13 DEF SameWork
  <2>3. xpc \in XWorking \ {"trial"} /\ sent' \in Nat BY <1>1, <1>2, <1>3 DEF Types
  <2> QED BY <1>1, <1>5, <1>9, <1>13, <2>1, <2>2, <2>3, ThreadSteps
<1> QED BY <1>12, <1>13 DEF XReserve, XSaved, XNotSaved

(* While a round's trial runs, it is the reserved one's and no other's.    *)
LEMMA TheRound ==
    ASSUME LabInd, xpc = "trial"
    PROVE  \E m \in 1 .. Rounds :
             /\ m = x.reserved /\ m = x.trials + 1 /\ x.asked = m /\ sent = m /\ x.known = TRUE
             /\ xdisk # None /\ xdisk.reserved = m /\ xdisk.trials = x.trials
             /\ xdisk.asked = x.asked /\ xdisk.known = x.known
             /\ x.status \in Active \cup {"INCONCLUSIVE"}
             /\ Round(m) \in Runs /\ Round(m) \notin Captures
             /\ \A n \in 1 .. Rounds : n # m =>
                  /\ Round(n) \in Runs /\ Round(n) # Round(m)
                  /\ place[Round(n)] \notin InTrial \cup {"done", "failed", "start"}
<1>1. x \in Sessions /\ RowOK(x) /\ x # None
  BY ThreadIsThere
<1>2. "trial" \in XWorking /\ "trial" # "answer" BY DEF XWorking
<1>3. /\ x.asked = x.trials + 1 /\ x.reserved = x.trials + 1 /\ sent = x.asked /\ x.known = TRUE
      /\ xdisk # None /\ xdisk.reserved = x.reserved /\ xdisk.trials = x.trials
      /\ xdisk.asked = x.asked /\ xdisk.known = x.known
      /\ x.status \in Active \cup {"INCONCLUSIVE"}
  BY <1>1, <1>2 DEF LabInd, SameWork, Sessions
<1>4. x.trials \in Nat /\ x.asked \in Nat /\ x.reserved \in Nat /\ x.asked <= Rounds
  BY <1>1 DEF Sessions, RowOK
<1>5. PICK m \in 1 .. Rounds : m = x.reserved
  BY <1>3, <1>4, LabConstants
<1>6. \A n \in 1 .. Rounds :
          n # m => place[Round(n)] \notin InTrial \cup {"done", "failed", "start"}
  BY <1>5 DEF LabInd, RoundsOK
<1> QED BY <1>3, <1>4, <1>5, <1>6, RunSets

LEMMA XTrialKeeps == ASSUME LabInd, XTrialStep \/ XTrialFails PROVE LabInd'
<1>1. /\ xpc = "trial" /\ UNCHANGED <<x, process, paid, captureVars, seal, sent>>
      /\ TrialStep(Round(x.reserved)) \/ TrialFails(Round(x.reserved))
      /\ \/ TrialStep(Round(x.reserved)) /\ xdisk' = x /\ xpc' = "trial"
         \/ TrialFails(Round(x.reserved)) /\ xdisk' = xdisk /\ xpc' = "failed"
  BY DEF XTrialStep, XTrialFails, XThread
<1>2. /\ x \in Sessions /\ x # None /\ process # "down" /\ paid
      /\ Types /\ TrialsOK /\ RowOK(x) /\ RowOK(xdisk) /\ seal
  BY <1>1, ThreadIsThere
<1>3. PICK m \in 1 .. Rounds :
             /\ m = x.reserved /\ m = x.trials + 1 /\ x.asked = m /\ sent = m /\ x.known = TRUE
             /\ xdisk # None /\ xdisk.reserved = m /\ xdisk.trials = x.trials
             /\ xdisk.asked = x.asked /\ xdisk.known = x.known
             /\ x.status \in Active \cup {"INCONCLUSIVE"}
             /\ Round(m) \in Runs /\ Round(m) \notin Captures
             /\ \A n \in 1 .. Rounds : n # m =>
                  /\ Round(n) \in Runs /\ Round(n) # Round(m)
                  /\ place[Round(n)] \notin InTrial \cup {"done", "failed", "start"}
  BY <1>1, TheRound
<1>4. /\ place' \in [Runs -> Places] /\ box' \in [Runs -> Boxes] /\ TrialsOK'
      /\ \A q \in Runs : q # Round(m) => place'[q] = place[q] /\ box'[q] = box[q]
      /\ TrialFails(Round(m)) => place'[Round(m)] = "failed"
      /\ TrialStep(Round(m)) => place'[Round(m)] \in {"dispatch", "settle", "cleanup", "done"}
  BY <1>1, <1>2, <1>3, TrialMoves
<1>5. \A q \in Captures : place'[q] = place[q] /\ box'[q] = box[q]
  BY <1>3, <1>4, RunSets
<1>6. x.trials \in Nat BY <1>2 DEF Sessions
<1>7. RowOK(x)'
  <2>1. \A n \in 1 .. Rounds :
           /\ n <= x.trials => box'[Round(n)] = Removed
           /\ n > x.reserved => box'[Round(n)] = NoBox
    BY <1>2, <1>3, <1>4, <1>6 DEF RowOK
  <2> QED BY <2>1, <1>1, <1>2 DEF RowOK
<1>8. RowOK(xdisk)'
  <2>1. CASE xdisk' = x BY <2>1, <1>1, <1>7 DEF RowOK
  <2>2. CASE xdisk' = xdisk
    <3>1. \A n \in 1 .. Rounds :
             /\ n <= xdisk.trials => box'[Round(n)] = Removed
             /\ n > xdisk.reserved => box'[Round(n)] = NoBox
      BY <1>2, <1>3, <1>4, <1>6 DEF RowOK
    <3> QED BY <3>1, <2>2, <1>1, <1>2 DEF RowOK
  <2> QED BY <1>1, <2>1, <2>2
<1>9. RowsOK' BY <1>1, <1>2, <1>3, <1>7, <1>8 DEF RowsOK
<1>10. SameWork'
  <2>1. CASE xpc' = "failed" BY <2>1 DEF SameWork, XWorking
  <2>2. CASE xdisk' = x /\ xpc' = "trial"
    BY <2>2, <1>1, <1>2, <1>3, <1>6 DEF SameWork
  <2> QED BY <1>1, <2>1, <2>2
<1>11. RoundsOK'
  <2>1. SUFFICES ASSUME NEW n \in 1 .. Rounds
                 PROVE  /\ place'[Round(n)] # "start"
                        /\ place'[Round(n)] \in InTrial \cup {"done"} =>
                             xpc' = "trial" /\ n = x'.reserved
                        /\ place'[Round(n)] = "failed" => xpc' = "failed"
    BY DEF RoundsOK
  <2>2. CASE n = m /\ TrialStep(Round(m)) /\ xpc' = "trial"
    BY <2>2, <1>1, <1>3, <1>4
  <2>3. CASE n = m /\ TrialFails(Round(m)) /\ xpc' = "failed"
    BY <2>3, <1>4 DEF InTrial
  <2>4. CASE n # m
    BY <2>4, <1>3, <1>4
  <2> QED BY <1>1, <1>3, <2>2, <2>3, <2>4
<1>12. xpc \in XWorking /\ xpc' \in XWorking \cup {"failed"} BY <1>1 DEF XWorking
<1>13. Types' BY <1>1, <1>2, <1>4, <1>12 DEF Types, captureVars
<1> QED BY <1>1, <1>2, <1>4, <1>5, <1>9, <1>10, <1>11, <1>12, <1>13, ExplorationMoves

LEMMA XTrialDoneKeeps == ASSUME LabInd, XTrialDone PROVE LabInd'
<1>1. /\ xpc = "trial" /\ UNCHANGED <<box, process, paid, captureVars, seal, sent>>
      /\ place[Round(x.reserved)] = "done" /\ At(Round(x.reserved), "ended")
      /\ (xdisk' = x' \/ xdisk' = xdisk)
      /\ \/ /\ x' = [x EXCEPT !.trials = @ + 1] /\ xdisk' = x'
            /\ xpc' = IF x'.trials = Rounds THEN "finish" ELSE "ask"
         \/ x' = [x EXCEPT !.trials = @ + 1] /\ xpc' = "failed"
         \/ x' = x /\ xpc' = "failed"
  BY DEF XTrialDone, XThread, XSaved, XNotSaved
<1>2. /\ x \in Sessions /\ x # None /\ process # "down" /\ paid
      /\ Types /\ TrialsOK /\ RowOK(x) /\ RowOK(xdisk) /\ seal
  BY <1>1, ThreadIsThere
<1>3. PICK m \in 1 .. Rounds :
             /\ m = x.reserved /\ m = x.trials + 1 /\ x.asked = m /\ sent = m /\ x.known = TRUE
             /\ xdisk # None /\ xdisk.reserved = m /\ xdisk.trials = x.trials
             /\ xdisk.asked = x.asked /\ xdisk.known = x.known
             /\ x.status \in Active \cup {"INCONCLUSIVE"}
             /\ Round(m) \in Runs /\ Round(m) \notin Captures
             /\ \A n \in 1 .. Rounds : n # m =>
                  /\ Round(n) \in Runs /\ Round(n) # Round(m)
                  /\ place[Round(n)] \notin InTrial \cup {"done", "failed", "start"}
  BY <1>1, TheRound
<1>4. /\ "ended" \in Places
      /\ "ended" \notin InTrial \cup {"done", "failed", "start", "idle", "initialize"}
  BY DEF Places, InTrial
<1>5. /\ place' \in [Runs -> Places] /\ place'[Round(m)] = "ended"
      /\ \A q \in Runs : q # Round(m) => place'[q] = place[q]
  BY <1>1, <1>2, <1>3, <1>4, PlaceMoves
<1>6. box[Round(m)] = Removed BY <1>1, <1>2, <1>3 DEF TrialsOK, TrialOK
<1>7. \A q \in Captures : place'[q] = place[q] /\ box'[q] = box[q]
  BY <1>1, <1>3, <1>5, RunSets
<1>8. TrialsOK' BY <1>1, <1>2, <1>4, <1>5 DEF TrialsOK, TrialOK, InTrial
<1>9. RoundsOK'
  <2>1. \A n \in 1 .. Rounds : place'[Round(n)] \notin InTrial \cup {"done", "failed", "start"}
    BY <1>3, <1>4, <1>5
  <2> QED BY <2>1 DEF RoundsOK
<1>10. /\ x' \in Sessions /\ x'.status = x.status /\ x'.asked = x.asked /\ x'.known = x.known
       /\ x'.reserved = x.reserved
       /\ x'.trials = x.trials + 1 \/ (x'.trials = x.trials /\ xpc' = "failed")
  BY <1>1, <1>2, SessionCounts
<1>11. x.trials \in Nat BY <1>2 DEF Sessions
<1>12. RowOK(x)'
  <2>1. x'.status \notin {"COMPLETED", "CANCELLED"} BY <1>3, <1>10 DEF Active
  <2>2. x'.trials <= x'.reserved /\ x'.reserved <= x'.asked /\ x'.asked <= Rounds
        /\ x'.asked <= x'.trials + 1 /\ sent <= x'.asked
    <3>1. m \in Nat /\ m <= Rounds BY LabConstants
    <3>2. x'.reserved = m /\ x'.asked = m BY <1>3, <1>10
    <3>3. m = x.trials + 1 /\ sent = m /\ x'.trials \in {m - 1, m} BY <1>3, <1>10, <1>11
    <3> QED BY <3>1, <3>2, <3>3
  <2>3. \A n \in 1 .. Rounds :
           /\ n <= x'.trials => box'[Round(n)] = Removed
           /\ n > x'.reserved => box'[Round(n)] = NoBox
    <3>1. SUFFICES ASSUME NEW n \in 1 .. Rounds
                   PROVE  /\ n <= x'.trials => box[Round(n)] = Removed
                          /\ n > x'.reserved => box[Round(n)] = NoBox
      BY <1>1
    <3>2. /\ n <= x.trials => box[Round(n)] = Removed
          /\ n > x.reserved => box[Round(n)] = NoBox
      BY <1>2 DEF RowOK
    <3>3. x'.trials \in {m - 1, m} /\ x.trials = m - 1 BY <1>3, <1>10, <1>11
    <3>4. n <= x'.trials => n <= x.trials \/ n = m BY <3>3
    <3> QED BY <3>2, <3>4, <1>6, <1>10
  <2> QED BY <2>1, <2>2, <2>3, <1>1, <1>2 DEF RowOK
<1>13. RowsOK' /\ xdisk' \in Sessions \cup {None} /\ x' # None
  BY <1>1, <1>10, <1>12, RowsMove
<1>14. xpc \in XWorking /\ xpc' \in XWorking \cup {"failed"}
  BY <1>1 DEF XWorking
<1>15. SameWork'
  <2>1. CASE xpc' = "failed" BY <2>1 DEF SameWork, XWorking
  <2>2. CASE xpc' \in {"ask", "finish"}
    <3>1. x'.trials = x.trials + 1 /\ xdisk' = x' BY <2>2, <1>1, <1>10
    <3>2. xpc' = "finish" => x'.trials = Rounds BY <2>2, <1>1
    <3>3. xpc' = "ask" => x'.trials < Rounds
      <4>1. xpc' = "ask" => x'.trials # Rounds BY <2>2, <1>1
      <4> QED BY <4>1, <3>1, <1>3, <1>11, LabConstants
    <3> QED BY <2>2, <3>1, <3>2, <3>3, <1>1, <1>3, <1>10, <1>11, <1>13 DEF SameWork
  <2> QED BY <1>1, <2>1, <2>2
<1>16. Types' BY <1>1, <1>2, <1>5, <1>10, <1>13, <1>14 DEF Types, captureVars
<1> QED BY <1>1, <1>2, <1>7, <1>8, <1>9, <1>13, <1>14, <1>15, <1>16, ExplorationMoves

LEMMA XFailsKeeps == ASSUME LabInd, XFails PROVE LabInd'
<1>1. /\ xpc = "failed" /\ xpc' = "ended"
      /\ UNCHANGED <<box, process, paid, captureVars, seal, sent>>
      /\ (xdisk' = x' \/ xdisk' = xdisk)
      /\ place' = [r \in Runs |-> IF r > Quota /\ place[r] = "failed" THEN "ended" ELSE place[r]]
  BY DEF XFails, XThread, XSaved, XNotSaved
<1>2. /\ x \in Sessions /\ x # None /\ process # "down" /\ paid
      /\ Types /\ TrialsOK /\ RowOK(x) /\ RowOK(xdisk) /\ seal
  BY <1>1, ThreadIsThere
<1>3. PICK s \in {"RECONCILE_REQUIRED", "ERROR"} : x' = [x EXCEPT !.status = s]
  BY DEF XFails
<1>4. s \in Statuses /\ s \notin {"COMPLETED", "CANCELLED"} BY DEF Statuses, Blocked
<1>5. /\ x' \in Sessions /\ x'.status = s /\ x'.asked = x.asked /\ x'.known = x.known
      /\ x'.reserved = x.reserved /\ x'.trials = x.trials
  BY <1>2, <1>3, <1>4, SessionStatus
<1>6. RowOK(x)' BY <1>1, <1>2, <1>4, <1>5, StatusRow
<1>7. RowsOK' /\ xdisk' \in Sessions \cup {None} /\ x' # None
  BY <1>1, <1>5, <1>6, RowsMove
<1>8. \A r \in Runs : place'[r] = place[r] \/ (place[r] = "failed" /\ place'[r] = "ended")
  BY <1>1
<1>9. place' \in [Runs -> Places]
  BY <1>1, <1>2 DEF Types, Places
<1>10. Types' BY <1>1, <1>2, <1>5, <1>7, <1>9 DEF Types, captureVars
<1>11. TrialsOK' BY <1>1, <1>2, <1>8 DEF TrialsOK, TrialOK
<1>12. \A q \in Captures : place'[q] = place[q] /\ box'[q] = box[q]
  <2>1. \A q \in Captures : q \in Runs /\ ~(q > Quota)
    BY RunSets, LabConstants DEF Captures
  <2> QED BY <2>1, <1>1
<1>13. RoundsOK'
  <2>1. SUFFICES ASSUME NEW n \in 1 .. Rounds
                 PROVE  place'[Round(n)] \notin InTrial \cup {"done", "failed", "start"}
    BY DEF RoundsOK
  <2>2. Round(n) \in Runs /\ Round(n) > Quota
    BY RunSets, LabConstants DEF Round
  <2>3. place[Round(n)] \notin InTrial \cup {"done", "start"}
    BY <1>1 DEF LabInd, RoundsOK
  <2>4. CASE place[Round(n)] = "failed"
    BY <2>2, <2>4, <1>1 DEF InTrial
  <2>5. CASE place[Round(n)] # "failed"
    BY <2>2, <2>3, <2>5, <1>1
  <2> QED BY <2>4, <2>5
<1>14. SameWork' BY <1>1 DEF SameWork, XWorking
<1>15. xpc' \notin XWorking BY <1>1 DEF XWorking
<1> QED BY <1>1, <1>2, <1>7, <1>10, <1>11, <1>12, <1>13, <1>14, <1>15, ExplorationMoves

(* What a reader or a cancellation rewrites, whatever the thread does.     *)
LEMMA ReaderSteps ==
    ASSUME LabInd, paid, process # "down", x \in Sessions, x' \in Sessions,
           UNCHANGED <<trialVars, xpc, sent, process, paid, captureVars, seal>>,
           x'.asked = x.asked, x'.known = x.known,
           x'.reserved = x.reserved, x'.trials = x.trials,
           x'.status \in Active \cup {"INCONCLUSIVE"},
           xdisk' = x' \/ xdisk' = xdisk
    PROVE  LabInd'
<1>1. Types /\ RowOK(x) /\ x # None
  BY LabConstants DEF LabInd, RowsOK
<1>2. UNCHANGED <<place, box>> BY DEF trialVars
<1>3. x'.status \notin {"COMPLETED", "CANCELLED"} BY DEF Active
<1>4. RowOK(x)' BY <1>1, <1>2, <1>3, StatusRow
<1>5. RowsOK' /\ xdisk' \in Sessions \cup {None} /\ x' # None
  BY <1>2, <1>4, RowsMove
<1>6. /\ TrialsOK' /\ place' \in [Runs -> Places] /\ box' \in [Runs -> Boxes]
      /\ \A q \in Captures : place'[q] = place[q] /\ box'[q] = box[q]
  BY TrialsStay
<1>7. RoundsOK' BY <1>2 DEF LabInd, RoundsOK
<1>8. SameWork'
  <2>1. CASE xdisk' = x' BY <2>1, <1>5 DEF LabInd, SameWork
  <2>2. CASE xdisk' = xdisk BY <2>2 DEF LabInd, SameWork
  <2> QED BY <2>1, <2>2
<1>9. Types' BY <1>1, <1>5, <1>6 DEF Types, captureVars
<1> QED BY <1>5, <1>6, <1>7, <1>8, <1>9, ExplorationMoves

LEMMA XReadersKeep == ASSUME LabInd, XGet \/ XCancel PROVE LabInd'
<1>1. /\ paid /\ process # "down" /\ x # None /\ (xdisk' = x' \/ xdisk' = xdisk)
      /\ UNCHANGED <<trialVars, xpc, sent, process, paid, captureVars, seal>>
  BY DEF XGet, XCancel, ExplorationIs, Serving, XThread, XSaved, XNotSaved
<1>2. x \in Sessions BY <1>1 DEF LabInd, Types
<1>3. {"INCONCLUSIVE", "CANCEL_REQUESTED"} \subseteq Statuses \cap (Active \cup {"INCONCLUSIVE"})
  BY DEF Statuses, Active, Blocked
<1>4. /\ x' \in Sessions
      /\ x'.asked = x.asked /\ x'.known = x.known
      /\ x'.reserved = x.reserved /\ x'.trials = x.trials
      /\ x'.status \in Active \cup {"INCONCLUSIVE"}
  <2>1. CASE XGet
    <3>1. x' = [x EXCEPT !.status = "INCONCLUSIVE"] BY <2>1 DEF XGet
    <3> QED BY <3>1, <1>2, <1>3, SessionStatus
  <2>2. CASE XCancel
    <3>1. x' = [x EXCEPT !.status = "CANCEL_REQUESTED", !.cancel = TRUE] BY <2>2 DEF XCancel
    <3> QED BY <3>1, <1>2, <1>3, SessionCancelled
  <2> QED BY <2>1, <2>2
<1> QED BY <1>1, <1>2, <1>4, ReaderSteps

LEMMA XCreateKeeps == ASSUME LabInd, XCreate PROVE LabInd'
<1>1. /\ MayExplore /\ seal' = TRUE
      /\ UNCHANGED <<trialVars, process, paid, captureVars, sent>>
      /\ \/ UNCHANGED <<x, xdisk, xpc>>
         \/ x' = NewExploration /\ (xdisk' = x' \/ xdisk' = xdisk) /\ xpc' = xpc
         \/ x' = NewExploration /\ xdisk' = x' /\ xpc' = "start"
  BY DEF XCreate, XSaved, XNotSaved
<1>2. /\ paid /\ process = "up" /\ x = None /\ ~CapturesAre(Active)
  BY <1>1 DEF MayExplore, CapturesAre
<1>3. /\ Types /\ xpc = "none" /\ xdisk = None /\ sent = 0
      /\ \A n \in 1 .. Rounds : box[Round(n)] = NoBox
  BY <1>2 DEF LabInd, Modes, RowsOK
<1>4. /\ NewExploration \in Sessions /\ NewExploration # None
      /\ NewExploration.asked = 0 /\ NewExploration.reserved = 0
      /\ NewExploration.trials = 0 /\ NewExploration.known = TRUE
      /\ NewExploration.status = "ACCEPTED"
  <2>1. NewExploration \in Sessions
    BY DEF NewExploration, Sessions, Active
  <2> QED BY <2>1, LabConstants DEF NewExploration
<1>5. /\ TrialsOK' /\ place' \in [Runs -> Places] /\ box' \in [Runs -> Boxes]
      /\ \A q \in Captures : place'[q] = place[q] /\ box'[q] = box[q]
  BY <1>1, TrialsStay
<1>6. UNCHANGED <<place, box>> BY <1>1 DEF trialVars
<1>7. RowOK(NewExploration)'
  BY <1>1, <1>3, <1>4, <1>6, LabConstants DEF RowOK, NewExploration
<1>8. RowsOK'
  <2>1. CASE UNCHANGED <<x, xdisk, xpc>>
    BY <2>1, <1>1, <1>2, <1>3, <1>6 DEF RowsOK, RowOK
  <2>2. CASE x' = NewExploration /\ xdisk' = xdisk
    BY <2>2, <1>1, <1>3, <1>4, <1>6, <1>7 DEF RowsOK, RowOK
  <2>3. CASE x' = NewExploration /\ xdisk' = x'
    BY <2>3, <1>1, <1>4, <1>7 DEF RowsOK, RowOK
  <2> QED BY <1>1, <2>1, <2>2, <2>3
<1>9. RoundsOK' BY <1>3, <1>6, QuietRounds
<1>10. SameWork'
  <2>1. CASE xpc' = xpc BY <2>1, <1>3 DEF SameWork, XWorking
  <2>2. CASE x' = NewExploration /\ xdisk' = x' /\ xpc' = "start"
    <3>1. /\ xdisk' = x' /\ x' # None /\ xpc' = "start" /\ sent' = 0 /\ 0 < Rounds
          /\ x'.asked = 0 /\ x'.reserved = 0 /\ x'.trials = 0 /\ x'.known = TRUE
          /\ x'.status = "ACCEPTED"
      BY <2>2, <1>1, <1>3, <1>4, LabConstants
    <3> QED BY <3>1 DEF SameWork, Active
  <2> QED BY <1>1, <2>1, <2>2
<1>11. Types' BY <1>1, <1>2, <1>3, <1>4, <1>5 DEF Types, captureVars, XWorking
<1>12. xpc' # "none" => x' # None BY <1>1, <1>3, <1>4
<1> QED BY <1>1, <1>2, <1>5, <1>8, <1>9, <1>10, <1>11, <1>12, ExplorationMoves

(* The process goes away, orderly or not: memory is what the ledgers say.  *)
LEMMA DownKeeps == ASSUME LabInd, Down PROVE LabInd'
<1>1. /\ process' = "down" /\ mem' = disk /\ x' = xdisk /\ xpc' = "none"
      /\ place' = [r \in Runs |-> IF ThreadAlive(place[r]) THEN "ended" ELSE place[r]]
      /\ UNCHANGED <<box, paid, disk, xdisk, seal, sent>>
  BY DEF Down
<1>2. Types /\ TrialsOK /\ Ledgers /\ CapturesOK /\ RowsOK
  BY DEF LabInd
<1>3. \A r \in Runs : /\ place'[r] = place[r] \/ place'[r] = "ended"
                      /\ place'[r] \in {"idle", "ended"}
  BY <1>1, <1>2 DEF ThreadAlive, Types, Places, InTrial
<1>4. place' \in [Runs -> Places] BY <1>1, <1>2 DEF Types, Places
<1>5. Types' BY <1>1, <1>2, <1>4 DEF Types
<1>6. TrialsOK' BY <1>1, <1>2, <1>3 DEF TrialsOK, TrialOK
<1>7. Ledgers'
  <2>1. Len(mem) \in Nat /\ Len(disk) \in Nat BY <1>2 DEF Types
  <2> QED BY <2>1, <1>1, <1>2, LabConstants DEF Ledgers, OneActive
<1>8. CapturesOK'
  <2>1. SUFFICES ASSUME NEW i \in Captures PROVE CaptureOK(i)'
    BY DEF CapturesOK
  <2>2. CaptureOK(i) /\ i \in Runs BY <1>2, RunSets DEF CapturesOK
  <2>3. EntryOK(mem, i)' /\ EntryOK(disk, i)'
    BY <2>2, <1>1 DEF CaptureOK, EntryOK
  <2>4. place'[i] # "idle" => i \in DOMAIN disk'
    BY <2>2, <1>1, <1>3 DEF CaptureOK, ThreadAlive
  <2>5. place'[i] \notin InTrial \cup {"done", "start"}
    BY <2>2, <1>3 DEF InTrial
  <2> QED BY <2>3, <2>4, <2>5 DEF CaptureOK
<1>9. RowsOK' BY <1>1, <1>2 DEF RowsOK, RowOK
<1>10. SameWork' BY <1>1 DEF SameWork, XWorking
<1>11. RoundsOK'
  <2>1. \A n \in 1 .. Rounds : place'[Round(n)] \notin InTrial \cup {"done", "failed", "start"}
    BY <1>3, RunSets DEF InTrial
  <2> QED BY <2>1 DEF RoundsOK
<1>12. Modes' BY <1>1, <1>3 DEF Modes, ThreadAlive, XWorking
<1> QED BY <1>5, <1>6, <1>7, <1>8, <1>9, <1>10, <1>11, <1>12 DEF LabInd

(* What a restart recovers claims no more than what was there.             *)
LEMMA RecoveredRow ==
    ASSUME NEW y \in Sessions
    PROVE  /\ Recovered(y) \in Sessions
           /\ Recovered(y).asked = y.asked /\ Recovered(y).known = y.known
           /\ Recovered(y).reserved = y.reserved /\ Recovered(y).trials = y.trials
           /\ Recovered(y).status \notin Active
           /\ Recovered(y).status \in {"COMPLETED", "CANCELLED"} => Recovered(y).status = y.status
<1>1. /\ "RECONCILE_REQUIRED" \in Statuses
      /\ "RECONCILE_REQUIRED" \notin Active \cup {"COMPLETED", "CANCELLED"}
  BY DEF Statuses, Active, Blocked
<1>2. CASE y.status \in Active
  <2>1. Recovered(y) = [y EXCEPT !.status = "RECONCILE_REQUIRED"]
    BY <1>2 DEF Recovered
  <2> QED BY <2>1, <1>1, SessionStatus
<1>3. CASE y.status \notin Active
  BY <1>3 DEF Recovered
<1> QED BY <1>2, <1>3

\* A restart leaves no capture at work and awards no status.
LEMMA RecoveredEntry ==
    ASSUME NEW e \in Entries
    PROVE  /\ Recovered(e) \in Entries /\ Recovered(e).status \notin Active
           /\ Recovered(e).status \in {"COMPLETED", "CANCELLED"} => Recovered(e).status = e.status
<1>1. /\ "RECONCILE_REQUIRED" \in Statuses
      /\ "RECONCILE_REQUIRED" \notin Active \cup {"COMPLETED", "CANCELLED"}
  BY DEF Statuses, Active, Blocked
<1>2. CASE e.status \in Active
  BY <1>1, <1>2 DEF Recovered, Entries
<1>3. CASE e.status \notin Active
  BY <1>3 DEF Recovered, Entries
<1> QED BY <1>2, <1>3

LEMMA RestartKeeps == ASSUME LabInd, Restart PROVE LabInd'
<1> DEFINE recovered == [i \in DOMAIN disk |-> Recovered(disk[i])]
<1>1. /\ process = "down" /\ process' \in {"up", "down"} /\ paid' \in BOOLEAN
      /\ UNCHANGED <<place, box, xpc, seal, sent>>
      /\ disk' \in {disk, recovered} /\ mem' = disk'
  BY DEF Restart, trialVars, CapturesRestart
<1>2. /\ Types /\ TrialsOK /\ Ledgers /\ CapturesOK /\ RowsOK /\ RoundsOK /\ Modes
  BY DEF LabInd
<1>3. xpc = "none" /\ \A r \in Runs : place[r] \in {"idle", "ended"}
  BY <1>1, <1>2 DEF Modes, ThreadAlive, Types, Places, InTrial
<1>4. /\ disk' \in Seq(Entries) /\ Len(disk') = Len(disk) /\ DOMAIN disk' = DOMAIN disk
      /\ \A i \in DOMAIN disk :
           /\ disk'[i].status \in {"COMPLETED", "CANCELLED", "ACCEPTED"} =>
                disk'[i].status = disk[i].status
           /\ disk'[i].status \in Active => disk'[i].status = disk[i].status
  <2>1. CASE disk' = disk BY <2>1, <1>2 DEF Types
  <2>2. CASE disk' = recovered
    <3>1. \A i \in DOMAIN disk :
            /\ disk[i] \in Entries /\ Recovered(disk[i]) \in Entries
            /\ Recovered(disk[i]).status \notin Active
            /\ Recovered(disk[i]).status \in {"COMPLETED", "CANCELLED"} =>
                 Recovered(disk[i]).status = disk[i].status
      <4>1. SUFFICES ASSUME NEW i \in DOMAIN disk
                     PROVE  /\ disk[i] \in Entries /\ Recovered(disk[i]) \in Entries
                            /\ Recovered(disk[i]).status \notin Active
                            /\ Recovered(disk[i]).status \in {"COMPLETED", "CANCELLED"} =>
                                 Recovered(disk[i]).status = disk[i].status
        OBVIOUS
      <4>2. disk[i] \in Entries BY <1>2, Entries1 DEF Types
      <4> QED BY <4>2, RecoveredEntry
    <3>2. Len(disk) \in Nat /\ DOMAIN disk = 1 .. Len(disk) BY <1>2 DEF Types
    <3>3. recovered \in [1 .. Len(disk) -> Entries] BY <3>1, <3>2
    <3>4. recovered \in Seq(Entries) /\ Len(recovered) = Len(disk) /\ DOMAIN recovered = DOMAIN disk
      BY <3>2, <3>3
    <3>5. \A i \in DOMAIN disk : disk'[i] = Recovered(disk[i]) BY <2>2
    <3> HIDE DEF recovered
    <3> QED BY <2>2, <3>1, <3>4, <3>5 DEF Active
  <2> QED BY <1>1, <2>1, <2>2
<1>5. /\ x' \in Sessions \cup {None} /\ xdisk' \in Sessions \cup {None} /\ RowsOK'
  <2>1. CASE ~paid'
    <3>1. UNCHANGED <<x, xdisk>> BY <2>1 DEF Restart
    <3> QED BY <3>1, <1>1, <1>2 DEF RowsOK, RowOK, Types
  <2>2. CASE paid'
    <3>1. x' = xdisk' /\ xdisk' \in {xdisk, IF xdisk = None THEN None ELSE Recovered(xdisk)}
      BY <2>2 DEF Restart, ExplorationRestart
    <3>2. CASE xdisk' = xdisk
      BY <3>1, <3>2, <1>1, <1>2 DEF RowsOK, RowOK, Types
    <3>3. CASE xdisk # None /\ xdisk' = Recovered(xdisk)
      <4>1. xdisk \in Sessions /\ RowOK(xdisk) BY <3>3, <1>2 DEF Types, RowsOK
      <4>2. /\ xdisk' \in Sessions /\ xdisk'.asked = xdisk.asked /\ xdisk'.known = xdisk.known
            /\ xdisk'.reserved = xdisk.reserved /\ xdisk'.trials = xdisk.trials
            /\ xdisk'.status \in {"COMPLETED", "CANCELLED"} => xdisk'.status = xdisk.status
        BY <3>3, <4>1, RecoveredRow
      <4>3. xdisk' # None BY <4>2, LabConstants
      <4>4. RowOK(xdisk)' BY <3>3, <4>1, <4>2, <1>1 DEF RowOK
      <4>5. RowOK(x)' BY <3>1, <4>4 DEF RowOK
      <4> QED BY <3>1, <4>2, <4>3, <4>4, <4>5 DEF RowsOK
    <3> QED BY <3>1, <3>2, <3>3
  <2> QED BY <1>1, <2>1, <2>2
<1>6. Types' BY <1>1, <1>2, <1>4, <1>5 DEF Types
<1>7. TrialsOK' BY <1>1, <1>2 DEF TrialsOK, TrialOK
<1>8. Ledgers'
  <2>1. Len(mem) \in Nat /\ Len(disk) \in Nat BY <1>2 DEF Types
  <2>2. OneActive(disk') BY <1>2, <1>4 DEF Ledgers, OneActive
  <2> QED BY <2>1, <2>2, <1>1, <1>2, <1>4, LabConstants DEF Ledgers, OneActive
<1>9. CapturesOK'
  <2>1. SUFFICES ASSUME NEW i \in Captures PROVE CaptureOK(i)'
    BY DEF CapturesOK
  <2>2. CaptureOK(i) /\ place[i] \in {"idle", "ended"}
    BY <1>2, <1>3, RunSets DEF CapturesOK
  <2>3. EntryOK(disk, i)' /\ EntryOK(mem, i)'
    BY <2>2, <1>1, <1>4 DEF CaptureOK, EntryOK
  <2> QED BY <2>2, <2>3, <1>1, <1>4 DEF CaptureOK, InTrial
<1>10. SameWork' BY <1>1, <1>3 DEF SameWork, XWorking
<1>11. RoundsOK'
  <2>1. \A n \in 1 .. Rounds : place[Round(n)] \in {"idle", "ended"}
    BY <1>3, RunSets
  <2> QED BY <2>1, <1>1 DEF RoundsOK, InTrial
<1>12. Modes' BY <1>1, <1>3 DEF Modes, XWorking, ThreadAlive
<1> QED BY <1>5, <1>6, <1>7, <1>8, <1>9, <1>10, <1>11, <1>12 DEF LabInd

LEMMA CloseKeeps == ASSUME LabInd, Close PROVE LabInd'
<1>1. process' = "closing" /\ process = "up"
      /\ UNCHANGED <<place, box, paid, mem, disk, x, xdisk, xpc, seal, sent>>
  BY DEF Close, trialVars, captureVars, explorationVars
<1>2. Types' BY <1>1 DEF LabInd, Types
<1>3. TrialsOK' /\ Ledgers' BY <1>1 DEF LabInd, TrialsOK, TrialOK, Ledgers, OneActive
<1>4. CapturesOK' BY <1>1 DEF LabInd, CapturesOK, CaptureOK, EntryOK
<1>5. RowsOK' BY <1>1 DEF LabInd, RowsOK, RowOK
<1>6. SameWork' BY <1>1 DEF LabInd, SameWork
<1>7. RoundsOK' BY <1>1 DEF LabInd, RoundsOK
<1>8. Modes' BY <1>1 DEF LabInd, Modes, CapturesAre, Status
<1> QED BY <1>2, <1>3, <1>4, <1>5, <1>6, <1>7, <1>8 DEF LabInd

LEMMA StutterKeeps == ASSUME LabInd, UNCHANGED vars PROVE LabInd'
<1>1. UNCHANGED <<place, box, process, paid, mem, disk, x, xdisk, xpc, seal, sent>>
  BY DEF vars, trialVars, captureVars, explorationVars
<1>2. Types' BY <1>1 DEF LabInd, Types
<1>3. TrialsOK' /\ Ledgers' BY <1>1 DEF LabInd, TrialsOK, TrialOK, Ledgers, OneActive
<1>4. CapturesOK' BY <1>1 DEF LabInd, CapturesOK, CaptureOK, EntryOK
<1>5. RowsOK' BY <1>1 DEF LabInd, RowsOK, RowOK
<1>6. SameWork' BY <1>1 DEF LabInd, SameWork
<1>7. RoundsOK' BY <1>1 DEF LabInd, RoundsOK
<1>8. Modes' BY <1>1 DEF LabInd, Modes, CapturesAre, Status
<1> QED BY <1>2, <1>3, <1>4, <1>5, <1>6, <1>7, <1>8 DEF LabInd

LEMMA InitInd == ASSUME Init PROVE LabInd
<1>1. /\ \A r \in Runs : place[r] = "idle" /\ box[r] = NoBox
      /\ place = [r \in Runs |-> "idle"] /\ box = [r \in Runs |-> NoBox]
      /\ process = "up" /\ paid \in BOOLEAN /\ mem = <<>> /\ disk = <<>>
      /\ x = None /\ xdisk = None /\ xpc = "none" /\ seal = FALSE /\ sent = 0
  BY DEF Init, TrialInit
<1>2. Types
  <2>1. place \in [Runs -> Places] /\ box \in [Runs -> Boxes]
    BY <1>1 DEF Places, Boxes
  <2>2. mem \in Seq(Entries) /\ disk \in Seq(Entries)
    BY <1>1
  <2> QED BY <1>1, <2>1, <2>2 DEF Types
<1>3. TrialsOK BY <1>1 DEF TrialsOK, TrialOK
<1>4. Ledgers BY <1>1, LabConstants DEF Ledgers, OneActive
<1>5. CapturesOK
  BY <1>1, RunSets DEF CapturesOK, CaptureOK, EntryOK, InTrial
<1>6. RowsOK BY <1>1, RunSets DEF RowsOK, RowOK
<1>7. SameWork BY <1>1 DEF SameWork, XWorking
<1>8. RoundsOK BY <1>1, RunSets DEF RoundsOK, InTrial
<1>9. Modes BY <1>1 DEF Modes, XWorking
<1> QED BY <1>2, <1>3, <1>4, <1>5, <1>6, <1>7, <1>8, <1>9 DEF LabInd

LEMMA NextKeeps == ASSUME LabInd, Next PROVE LabInd'
<1>1. CASE Create BY <1>1, CreateKeeps
<1>2. CASE \E i \in Captures : CaptureThread(i) \/ Cancel(i) \/ Get(i)
  <2>1. PICK i \in Captures : CaptureThread(i) \/ Cancel(i) \/ Get(i)
    BY <1>2
  <2>2. CASE Start(i) BY <2>2, StartKeeps
  <2>3. CASE CaptureStep(i) \/ CaptureFails(i) BY <2>3, CaptureTrialKeeps
  <2>4. CASE Finish(i) BY <2>4, FinishKeeps
  <2>5. CASE RecordFailure(i) BY <2>5, RecordFailureKeeps
  <2>6. CASE Cancel(i) BY <2>6, CancelKeeps
  <2>7. CASE Get(i) BY <2>7, GetKeeps
  <2> QED BY <2>1, <2>2, <2>3, <2>4, <2>5, <2>6, <2>7 DEF CaptureThread
<1>3. CASE XCreate BY <1>3, XCreateKeeps
<1>4. CASE ExplorationThread
  <2>1. CASE XStops("start") \/ XStops("ask") \/ XStops("reserve")
    BY <2>1, XStopsKeeps
  <2>2. CASE XStart BY <2>2, XStartKeeps
  <2>3. CASE XRun BY <2>3, XRunKeeps
  <2>4. CASE XAsk BY <2>4, XAskKeeps
  <2>5. CASE XAnswer BY <2>5, XAnswerKeeps
  <2>6. CASE XReserve BY <2>6, XReserveKeeps
  <2>7. CASE XTrialStep \/ XTrialFails BY <2>7, XTrialKeeps
  <2>8. CASE XTrialDone BY <2>8, XTrialDoneKeeps
  <2>9. CASE XFinish BY <2>9, XFinishKeeps
  <2>10. CASE XFails BY <2>10, XFailsKeeps
  <2> QED BY <1>4, <2>1, <2>2, <2>3, <2>4, <2>5, <2>6, <2>7, <2>8, <2>9, <2>10
          DEF ExplorationThread
<1>5. CASE XGet \/ XCancel BY <1>5, XReadersKeep
<1>6. CASE Close BY <1>6, CloseKeeps
<1>7. CASE Exit \/ Crash BY <1>7, DownKeeps DEF Exit, Crash
<1>8. CASE Restart BY <1>8, RestartKeeps
<1> QED BY <1>1, <1>2, <1>3, <1>4, <1>5, <1>6, <1>7, <1>8 DEF Next

(* The inductive invariant: both copies of both ledgers agree with where   *)
(* every executor is and with what its sandbox holds.                      *)
THEOREM LabInductive == Spec => []LabInd
<1>1. Init => LabInd BY InitInd
<1>2. LabInd /\ [Next]_vars => LabInd' BY NextKeeps, StutterKeeps
<1> QED BY <1>1, <1>2, PTL DEF Spec

(* What the inductive invariant says of the ledgers.                       *)
LEMMA IndGivesLedgers == ASSUME LabInd PROVE LabInv
<1>1. /\ Types /\ TrialsOK /\ Ledgers /\ CapturesOK /\ RowsOK /\ SameWork
  BY DEF LabInd
<1>2. /\ DOMAIN mem \subseteq Captures /\ DOMAIN disk \subseteq DOMAIN mem
  BY <1>1, EntriesAreCaptures
<1>3. x # None => x \in Sessions /\ x.asked \in Nat /\ x.reserved \in Nat /\ x.trials \in Nat
  BY <1>1 DEF Types, Sessions
<1>4. xdisk # None => xdisk.asked \in Nat /\ xdisk.reserved \in Nat /\ xdisk.trials \in Nat
  BY <1>1 DEF Types, Sessions
<1>5. \A r \in Runs : /\ box[r].effect => box[r].at = "open"
                      /\ box[r] = Removed => box[r].at = "removed"
                      /\ box[r] = NoBox => box[r].at = "none"
  <2>1. SUFFICES ASSUME NEW r \in Runs
                 PROVE  /\ box[r].effect => box[r].at = "open"
                        /\ box[r] = Removed => box[r].at = "removed"
                        /\ box[r] = NoBox => box[r].at = "none"
    OBVIOUS
  <2>2. box[r] \in Boxes BY <1>1 DEF Types
  <2>3. CASE box[r] \in Opened BY <2>3 DEF Opened, Removed, NoBox
  <2>4. CASE box[r] = Removed BY <2>4 DEF Removed, NoBox
  <2>5. CASE box[r] = NoBox BY <2>5 DEF Removed, NoBox
  <2> QED BY <2>2, <2>3, <2>4, <2>5 DEF Boxes
<1>6. LabTypeOK
  <2>1. \A i \in DOMAIN mem : Status(i) \in Active \cup Blocked \cup {"COMPLETED", "CANCELLED"}
    BY <1>1, Entries1 DEF Types, Status, Statuses
  <2>2. x # None => x.trials <= x.reserved /\ x.reserved <= x.asked /\ x.asked <= Rounds
    BY <1>1 DEF RowsOK, RowOK
  <2>3. sent \in 0 .. Rounds
    <3>1. CASE xdisk = None BY <3>1, <1>1, LabConstants DEF RowsOK
    <3>2. CASE xdisk # None
      <4>1. sent <= xdisk.asked /\ xdisk.asked <= Rounds BY <3>2, <1>1 DEF RowsOK, RowOK
      <4> QED BY <4>1, <3>2, <1>1, <1>4, LabConstants DEF Types
    <3> QED BY <3>1, <3>2
  <2> QED BY <2>1, <2>2, <2>3, <1>1, <1>5 DEF LabTypeOK, Types, Ledgers
<1>7. WorkIsReserved
  <2>1. SUFFICES ASSUME NEW r \in Runs, box[r] # NoBox
                 PROVE  IF r \in Captures THEN r \in DOMAIN disk
                        ELSE seal /\ xdisk # None /\ r <= Round(xdisk.reserved)
    BY DEF WorkIsReserved
  <2>2. CASE r \in Captures
    BY <2>1, <2>2, <1>1 DEF TrialsOK, TrialOK, CapturesOK, CaptureOK
  <2>3. CASE r \notin Captures
    <3>1. PICK n \in 1 .. Rounds : r = Round(n) BY <2>3, RunSets
    <3>2. xdisk # None BY <2>1, <3>1, <1>1 DEF RowsOK
    <3>3. seal /\ ~(n > xdisk.reserved)
      BY <2>1, <3>1, <3>2, <1>1 DEF RowsOK, RowOK
    <3>4. r <= Round(xdisk.reserved)
      BY <3>1, <3>2, <3>3, <1>4, LabConstants DEF Round
    <3> QED BY <2>3, <3>2, <3>3, <3>4
  <2> QED BY <2>2, <2>3
<1>8. PaidIsOnRecord
  BY <1>1 DEF PaidIsOnRecord, RowsOK, RowOK, Types
<1>9. CompletedIsEarned
  <2>1. \A i \in DOMAIN mem : Status(i) = "COMPLETED" => box[i].at = "removed"
    BY <1>1, <1>2, <1>5, RunSets DEF CapturesOK, CaptureOK, EntryOK, Status
  <2>2. ASSUME x # None, x.status = "COMPLETED"
        PROVE  /\ \A n \in 1 .. Rounds : box[Round(n)].at = "removed"
               /\ x.known /\ sent = Rounds
    BY <2>2, <1>1, <1>5, RunSets DEF RowsOK, RowOK
  <2> QED BY <2>1, <2>2 DEF CompletedIsEarned
<1>10. CancelledIsQuiet
  <2>1. \A i \in DOMAIN mem : Status(i) = "CANCELLED" => box[i] = NoBox
    BY <1>1, <1>2 DEF CapturesOK, CaptureOK, EntryOK, Status
  <2>2. ASSUME x # None, x.status = "CANCELLED"
        PROVE  x.known /\ \A n \in 1 .. Rounds : box[Round(n)].at \in {"none", "removed"}
    <3>1. x.known /\ x.reserved = x.trials
          /\ \A n \in 1 .. Rounds :
               /\ n <= x.trials => box[Round(n)] = Removed
               /\ n > x.reserved => box[Round(n)] = NoBox
      BY <2>2, <1>1 DEF RowsOK, RowOK
    <3>2. \A n \in 1 .. Rounds : n <= x.trials \/ n > x.reserved
      BY <3>1, <2>2, <1>3
    <3> QED BY <3>1, <3>2, <1>5, RunSets
  <2> QED BY <2>1, <2>2 DEF CancelledIsQuiet
<1> QED BY <1>6, <1>7, <1>8, <1>9, <1>10 DEF LabInv

(* The ledgers are in order: no work outside the reservations on disk, no  *)
(* paid request that is not on record, COMPLETED and CANCELLED earned.     *)
THEOREM LedgersAreInOrder == Spec => []LabInv
<1>1. LabInd => LabInv BY IndGivesLedgers
<1> QED BY <1>1, LabInductive, PTL

(* At most one trial is running, whichever mode it belongs to: two kinds   *)
(* of sessions, each with a lock of its own, never have an executor in a   *)
(* trial together.                                                         *)
THEOREM TrialsRunAlone == Spec => []OneTrialAtATime
<1>1. LabInd => OneTrialAtATime
  <2>1. SUFFICES ASSUME LabInd, NEW r \in Runs, NEW s \in Runs, InUse(r), InUse(s)
                 PROVE  r = s
    BY DEF OneTrialAtATime
  <2>2. ASSUME NEW q \in Captures, InUse(q) PROVE q \in DOMAIN mem /\ Status(q) \in Active
    <3>1. place[q] \in InTrial BY <2>2 DEF InUse
    <3>2. q \in DOMAIN mem /\ CaptureOK(q)
      BY <2>1, <3>1, ExecutorsAreKnown DEF InTrial
    <3> QED BY <3>1, <3>2 DEF CaptureOK, Status, Active
  <2>3. ASSUME NEW n \in 1 .. Rounds, InUse(Round(n))
        PROVE  n = x.reserved /\ ~CapturesAre(Active)
    BY <2>1, <2>3 DEF InUse, LabInd, RoundsOK, Modes, XWorking
  <2>4. CASE r \in Captures /\ s \in Captures
    BY <2>1, <2>2, <2>4 DEF LabInd, Ledgers, OneActive, Status
  <2>5. CASE r \in Captures /\ s \notin Captures
    <3>1. PICK n \in 1 .. Rounds : s = Round(n) BY <2>5, RunSets
    <3> QED BY <3>1, <2>1, <2>2, <2>3, <2>5 DEF CapturesAre
  <2>6. CASE r \notin Captures /\ s \in Captures
    <3>1. PICK n \in 1 .. Rounds : r = Round(n) BY <2>6, RunSets
    <3> QED BY <3>1, <2>1, <2>2, <2>3, <2>6 DEF CapturesAre
  <2>7. CASE r \notin Captures /\ s \notin Captures
    <3>1. PICK n \in 1 .. Rounds : r = Round(n) BY <2>7, RunSets
    <3>2. PICK m \in 1 .. Rounds : s = Round(m) BY <2>7, RunSets
    <3> QED BY <3>1, <3>2, <2>1, <2>3
  <2> QED BY <2>4, <2>5, <2>6, <2>7
<1> QED BY <1>1, LabInductive, PTL

(* An effect that nobody has settled keeps the gateway from starting       *)
(* anything else, in this process and in every later one that serves its   *)
(* mode, whichever saves failed in between.                                *)
THEOREM EffectsKeepItClosed == Spec => []UncertainIsBlocked
<1>1. LabInd => UncertainIsBlocked
  <2>1. SUFFICES ASSUME LabInd, NEW r \in Runs, process = "up", box[r].effect,
                        r \in Captures \/ paid
                 PROVE  ~MayCreate /\ ~MayExplore
    BY DEF UncertainIsBlocked
  <2>2. box[r] # NoBox /\ box[r] # Removed
    BY <2>1 DEF NoBox, Removed
  <2>3. CASE r \in Captures
    <3>1. CaptureOK(r) /\ TrialOK(r) BY <2>1, <2>3 DEF LabInd, CapturesOK, TrialsOK
    <3>2. place[r] # "idle" BY <2>2, <3>1 DEF TrialOK
    <3>3. r \in DOMAIN mem
      BY <2>1, <3>1, <3>2, EntriesAreCaptures DEF CaptureOK, LabInd
    <3>4. mem[r].status \in Statuses /\ mem[r].status \notin {"COMPLETED", "CANCELLED"}
      BY <2>1, <2>2, <3>1, <3>3, Entries1 DEF CaptureOK, EntryOK, LabInd, Types
    <3>5. CapturesAre(Blocked \cup Active)
      BY <3>3, <3>4 DEF CapturesAre, Status, Statuses
    <3> QED BY <3>5 DEF MayCreate, MayExplore
  <2>4. CASE r \notin Captures
    <3>1. PICK n \in 1 .. Rounds : r = Round(n) BY <2>4, RunSets
    <3>2. xdisk # None /\ x # None /\ RowOK(x)
      BY <2>1, <2>2, <3>1 DEF LabInd, RowsOK
    <3>3. x \in Sessions /\ x.reserved \in Nat /\ x.trials \in Nat /\ x.status \in Statuses
      BY <2>1, <3>2 DEF LabInd, Types, Sessions, Statuses
    <3>4. ~(n <= x.trials) /\ ~(n > x.reserved)
      BY <2>2, <3>1, <3>2 DEF RowOK
    <3>5. x.reserved # x.trials BY <3>3, <3>4
    <3>6. x.status \notin {"COMPLETED", "CANCELLED"} BY <3>2, <3>5 DEF RowOK
    <3>7. ExplorationIs(Blocked \cup Active)
      BY <2>1, <2>4, <3>2, <3>3, <3>6 DEF ExplorationIs, Statuses
    <3> QED BY <3>2, <3>7 DEF MayCreate, MayExplore
  <2> QED BY <2>3, <2>4
<1> QED BY <1>1, LabInductive, PTL
=============================================================================
