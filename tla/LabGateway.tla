----------------------------- MODULE LabGateway -----------------------------
(***************************************************************************)
(* The local Lab: one process that runs at most one trial at a time for    *)
(* two of its kinds of sessions, free controlled captures (SessionStore)   *)
(* and one paid exploration of two rounds (ExplorationStore).  The third,  *)
(* a paid cross-domain session, excludes the second, makes the first read- *)
(* only and is not modelled.  Both kinds keep a ledger on disk that is     *)
(* saved before any work, share one lock, and never replay after a         *)
(* restart: what is not settled blocks the gateway for good.  Any save may *)
(* fail, leaving the ledger as it was, and any thread may fail to start;   *)
(* the process may stop at any time.  One request is one step, for it      *)
(* holds the lock.                                                         *)
(***************************************************************************)
EXTENDS LabTrial, Sequences, FiniteSets

CONSTANTS
    Quota,      \* how many captures may ever be reserved
    Rounds,     \* rounds of the exploration
    None

Active == {"ACCEPTED", "RUNNING", "CANCEL_REQUESTED"}
Blocked == {"RECONCILE_REQUIRED", "ERROR", "INCONCLUSIVE"}

(* A session of the exploration counts the requests on record, whether the *)
(* usage of all of them is known, its reservations and finished trials.    *)
Sessions ==
    [status : Active \cup Blocked \cup {"COMPLETED", "CANCELLED"}, cancel : BOOLEAN,
     asked : Nat, known : BOOLEAN, reserved : Nat, trials : Nat]

ASSUME LabConstants ==
    /\ Quota \in Nat /\ Rounds \in Nat \ {0}
    /\ Runs = 1 .. Quota + Rounds
    /\ None \notin Sessions

VARIABLES
    process,   \* "up", "closing" or "down"
    paid,      \* whether this process serves explorations
    mem, disk, \* the captures in memory and in ledger.json
    x, xdisk,  \* the exploration session in memory and in its ledger
    xpc,       \* the exploration's thread
    seal,      \* whether reservation.json exists
    sent       \* provider requests really sent

captureVars == <<mem, disk>>
explorationVars == <<x, xdisk, xpc, seal, sent>>
vars == <<trialVars, process, paid, captureVars, explorationVars>>

Captures == 1 .. Quota
Round(n) == Quota + n

Init ==
    /\ TrialInit
    /\ process = "up" /\ paid \in BOOLEAN
    /\ mem = <<>> /\ disk = <<>>
    /\ x = None /\ xdisk = None /\ xpc = "none" /\ seal = FALSE /\ sent = 0

Serving == process # "down"
Status(i) == mem[i].status
SetStatus(i, s) == mem' = [mem EXCEPT ![i].status = s]
Saved == disk' = mem'
NotSaved == disk' = disk
XSaved == xdisk' = x'
XNotSaved == xdisk' = xdisk

CapturesAre(statuses) == \E i \in DOMAIN mem : Status(i) \in statuses
ExplorationIs(statuses) == paid /\ x # None /\ x.status \in statuses

-----------------------------------------------------------------------------
(* SessionStore.                                                           *)

\* Mutant of MayCreate: the other mode is not asked.
MayCreateAlone == ~CapturesAre(Blocked \cup Active) /\ Len(mem) < Quota

\* Mutant of MayCreate: only a session at work is in the way.
MayCreateUnlessActive ==
    ~ExplorationIs(Active) /\ ~CapturesAre(Active) /\ Len(mem) < Quota

(* guard_other_mode, RECONCILE_REQUIRED, GATEWAY_BUSY and the quota.       *)
MayCreate ==
    /\ ~ExplorationIs(Blocked \cup Active)
    /\ ~CapturesAre(Blocked \cup Active)
    /\ Len(mem) < Quota

(* A new request id, for a known one is only answered with its session.    *)
(* When the save fails, or the thread cannot be started after it, the      *)
(* session is ACCEPTED and has no executor.                                *)
Create ==
    /\ process = "up" /\ MayCreate
    /\ mem' = Append(mem, [status |-> "ACCEPTED"])
    /\ \/ Saved /\ At(Len(mem'), "start")
       \/ (Saved \/ NotSaved) /\ UNCHANGED place
    /\ UNCHANGED <<box, process, paid, explorationVars>>

Start(i) ==
    /\ place[i] = "start"
    /\ \/ Status(i) = "CANCELLED" /\ At(i, "ended") /\ UNCHANGED captureVars
       \/ /\ Status(i) # "CANCELLED"
          /\ SetStatus(i, "RUNNING")
          /\ \/ Saved /\ At(i, "initialize")
             \/ NotSaved /\ At(i, "failed")
    /\ UNCHANGED <<box, process, paid, explorationVars>>

(* progress saves after every step; a save that fails fails the trial.     *)
CaptureStep(i) ==
    /\ TrialStep(i)
    /\ disk' = mem
    /\ UNCHANGED <<process, paid, mem, explorationVars>>

CaptureFails(i) ==
    /\ TrialFails(i)
    /\ UNCHANGED <<process, paid, captureVars, explorationVars>>

(* The lock is free between a save that failed and RecordFailure.          *)
Finish(i) ==
    /\ place[i] = "done"
    /\ \/ /\ SetStatus(i, "COMPLETED")
          /\ \/ Saved /\ At(i, "ended")
             \/ NotSaved /\ At(i, "failed")
       \/ At(i, "failed") /\ UNCHANGED captureVars
    /\ UNCHANGED <<box, process, paid, explorationVars>>

\* Mutant of RecordFailure: a failure is logged and the session left RUNNING.
RecordFailureQuietly(i) ==
    /\ place[i] = "failed"
    /\ At(i, "ended")
    /\ UNCHANGED <<box, process, paid, captureVars, explorationVars>>

RecordFailure(i) ==
    /\ place[i] = "failed"
    /\ SetStatus(i, "RECONCILE_REQUIRED")
    /\ Saved \/ NotSaved
    /\ At(i, "ended")
    /\ UNCHANGED <<box, process, paid, explorationVars>>

Cancel(i) ==
    /\ Serving /\ i \in DOMAIN mem /\ Status(i) \in Active
    /\ SetStatus(i, IF Status(i) = "ACCEPTED" THEN "CANCELLED" ELSE "CANCEL_REQUESTED")
    /\ Saved \/ NotSaved
    /\ UNCHANGED <<trialVars, process, paid, explorationVars>>

(* A completed session whose witness does not verify is no longer one.     *)
(* The file is within everybody's reach, so any reading may find it so.    *)
Get(i) ==
    /\ Serving /\ i \in DOMAIN mem /\ Status(i) = "COMPLETED"
    /\ SetStatus(i, "INCONCLUSIVE")
    /\ Saved \/ NotSaved
    /\ UNCHANGED <<trialVars, process, paid, explorationVars>>

-----------------------------------------------------------------------------
(* ExplorationStore.                                                       *)
NewExploration ==
    [status |-> "ACCEPTED", cancel |-> FALSE, asked |-> 0, known |-> TRUE,
     reserved |-> 0, trials |-> 0]

MayExplore ==
    /\ paid /\ process = "up"
    /\ ~CapturesAre(Blocked \cup Active)
    /\ x = None /\ ~seal

(* The marker, the ledger, the thread: what fails is never taken back.     *)
XCreate ==
    /\ MayExplore
    /\ seal' = TRUE
    /\ \/ UNCHANGED <<x, xdisk, xpc>>
       \/ x' = NewExploration /\ (XSaved \/ XNotSaved) /\ UNCHANGED xpc
       \/ x' = NewExploration /\ XSaved /\ xpc' = "start"
    /\ UNCHANGED <<trialVars, process, paid, captureVars, sent>>

(* cancelled(), at every boundary that is safe.                            *)
XStops(p) ==
    /\ xpc = p /\ x.cancel
    /\ x' = [x EXCEPT !.status = "CANCELLED"]
    /\ \/ XSaved /\ xpc' = "ended"
       \/ XNotSaved /\ xpc' = "failed"
    /\ UNCHANGED <<trialVars, process, paid, captureVars, seal, sent>>

XGoesOn(p) == xpc = p /\ ~x.cancel
XThread == UNCHANGED <<process, paid, captureVars, seal>>

XStart ==
    /\ XGoesOn("start")
    /\ xpc' = "running"
    /\ UNCHANGED <<x, xdisk, trialVars, sent>> /\ XThread

(* A cancellation since then loses its status and keeps its flag.          *)
XRun ==
    /\ xpc = "running"
    /\ x' = [x EXCEPT !.status = "RUNNING"]
    /\ \/ XSaved /\ xpc' = "ask"
       \/ XNotSaved /\ xpc' = "failed"
    /\ UNCHANGED <<trialVars, sent>> /\ XThread

(* request_completion: reserve, record, checkpoint, and only then the      *)
(* socket.  The save in front of the reservation may fail as well.         *)
XAsk ==
    /\ XGoesOn("ask")
    /\ \/ /\ x' = [x EXCEPT !.asked = @ + 1, !.known = FALSE]
          /\ \/ XSaved /\ xpc' = "answer" /\ sent' = sent + 1
             \/ XNotSaved /\ xpc' = "failed" /\ UNCHANGED sent
       \/ xpc' = "failed" /\ UNCHANGED <<x, xdisk, sent>>
    /\ UNCHANGED <<trialVars>> /\ XThread

(* A selection is accepted; or the answer is one of the Agent's errors,    *)
(* with its usage known; or there is no answer, and the usage is not known. *)
XAnswer ==
    /\ xpc = "answer"
    /\ \/ /\ x' = [x EXCEPT !.known = TRUE]
          /\ \/ XSaved /\ xpc' = "reserve"
             \/ (XSaved \/ XNotSaved) /\ xpc' = "failed"
       \/ UNCHANGED x /\ (XSaved \/ XNotSaved) /\ xpc' = "failed"
    /\ UNCHANGED <<trialVars, sent>> /\ XThread

\* Mutant of XReserve: the reservation is left to the trial's first save.
XReserveUnsaved ==
    /\ XGoesOn("reserve")
    /\ x' = [x EXCEPT !.reserved = @ + 1]
    /\ XNotSaved /\ xpc' = "trial" /\ At(Round(x'.reserved), "initialize")
    /\ UNCHANGED <<box, sent>> /\ XThread

XReserve ==
    /\ XGoesOn("reserve")
    /\ x' = [x EXCEPT !.reserved = @ + 1]
    /\ \/ XSaved /\ xpc' = "trial" /\ At(Round(x'.reserved), "initialize")
       \/ XNotSaved /\ xpc' = "failed" /\ UNCHANGED place
    /\ UNCHANGED <<box, sent>> /\ XThread

XTrialStep ==
    /\ xpc = "trial" /\ TrialStep(Round(x.reserved))
    /\ xdisk' = x
    /\ UNCHANGED <<x, xpc, sent>> /\ XThread

XTrialFails ==
    /\ xpc = "trial" /\ TrialFails(Round(x.reserved))
    /\ xpc' = "failed"
    /\ UNCHANGED <<x, xdisk, sent>> /\ XThread

XTrialDone ==
    /\ xpc = "trial" /\ place[Round(x.reserved)] = "done"
    /\ At(Round(x.reserved), "ended")
    /\ \/ /\ x' = [x EXCEPT !.trials = @ + 1]
          /\ \/ XSaved /\ xpc' = IF x'.trials = Rounds THEN "finish" ELSE "ask"
             \/ XNotSaved /\ xpc' = "failed"
       \/ xpc' = "failed" /\ UNCHANGED <<x, xdisk>>
    /\ UNCHANGED <<box, sent>> /\ XThread

XFinish ==
    /\ xpc = "finish"
    /\ x' = [x EXCEPT !.status = "COMPLETED"]
    /\ \/ XSaved /\ xpc' = "ended"
       \/ XNotSaved /\ xpc' = "failed"
    /\ UNCHANGED <<trialVars, sent>> /\ XThread

XUncertain == ~x.known \/ x.reserved > x.trials
XFails ==
    /\ xpc = "failed"
    /\ x' = [x EXCEPT !.status = IF XUncertain THEN "RECONCILE_REQUIRED" ELSE "ERROR"]
    /\ XSaved \/ XNotSaved
    /\ place' = [r \in Runs |-> IF r > Quota /\ place[r] = "failed" THEN "ended" ELSE place[r]]
    /\ xpc' = "ended"
    /\ UNCHANGED <<box, sent>> /\ XThread

(* Every reader verifies the witnesses of the trials first, a cancellation *)
(* too.                                                                    *)
XGet ==
    /\ Serving /\ paid /\ x # None /\ x.trials > 0
    /\ x' = [x EXCEPT !.status = "INCONCLUSIVE"]
    /\ XSaved \/ XNotSaved
    /\ UNCHANGED <<trialVars, xpc, sent>> /\ XThread

XCancel ==
    /\ Serving /\ ExplorationIs(Active)
    /\ x' = [x EXCEPT !.status = "CANCEL_REQUESTED", !.cancel = TRUE]
    /\ XSaved \/ XNotSaved
    /\ UNCHANGED <<trialVars, xpc, sent>> /\ XThread

-----------------------------------------------------------------------------
(* The process.  Memory is what the ledgers say once it is gone.           *)
ThreadAlive(p) == p \notin {"idle", "none", "ended"}

Down ==
    /\ process' = "down"
    /\ mem' = disk /\ x' = xdisk /\ xpc' = "none"
    /\ place' = [r \in Runs |-> IF ThreadAlive(place[r]) THEN "ended" ELSE place[r]]
    /\ UNCHANGED <<box, paid, disk, xdisk, seal, sent>>

Close ==
    /\ process = "up" /\ process' = "closing"
    /\ UNCHANGED <<trialVars, paid, captureVars, explorationVars>>

(* close joins the executors.                                              *)
Exit ==
    /\ process = "closing"
    /\ \A r \in Runs : ~ThreadAlive(place[r])
    /\ ~ThreadAlive(xpc)
    /\ Down

Crash == Serving /\ Down

Recovered(s) ==
    IF s.status \in Active THEN [s EXCEPT !.status = "RECONCILE_REQUIRED"] ELSE s

XReadable == xdisk # None \/ ~seal

(* SessionStore() and, if it is enabled, ExplorationStore(): both write    *)
(* down what they recovered before anything is served.  If they do not get *)
(* that far the process is gone again.                                     *)
CapturesRestart ==
    LET recovered == [i \in DOMAIN disk |-> Recovered(disk[i])] IN
    /\ disk' \in {disk, recovered} /\ mem' = disk'
    /\ process' = "up" \/ xdisk' # xdisk => disk' = recovered

(* A seal without a session, or witnesses that do not verify, and the      *)
(* gateway does not start; otherwise what was running blocks it.           *)
ExplorationRestart ==
    LET recovered == IF xdisk = None THEN None ELSE Recovered(xdisk) IN
    /\ xdisk' \in {xdisk} \cup (IF XReadable THEN {recovered} ELSE {})
    /\ x' = xdisk'
    /\ process' = "up" => XReadable /\ xdisk' = recovered

Restart ==
    /\ process = "down" /\ process' \in {"up", "down"}
    /\ paid' \in BOOLEAN
    /\ IF paid' THEN ExplorationRestart ELSE UNCHANGED <<x, xdisk>>
    /\ CapturesRestart
    /\ UNCHANGED <<trialVars, xpc, seal, sent>>

CaptureThread(i) ==
    Start(i) \/ CaptureStep(i) \/ CaptureFails(i) \/ Finish(i) \/ RecordFailure(i)

ExplorationThread ==
    \/ XStops("start") \/ XStops("ask") \/ XStops("reserve")
    \/ XStart \/ XRun \/ XAsk \/ XAnswer \/ XReserve
    \/ XTrialStep \/ XTrialFails \/ XTrialDone \/ XFinish \/ XFails

Next ==
    \/ Create
    \/ \E i \in Captures : CaptureThread(i) \/ Cancel(i) \/ Get(i)
    \/ XCreate \/ ExplorationThread \/ XGet \/ XCancel
    \/ Close \/ Exit \/ Crash \/ Restart

(* The executors are threads, run by the operating system; every call they *)
(* make has a timeout.                                                     *)
Spec ==
    /\ Init /\ [][Next]_vars
    /\ \A i \in Captures : WF_vars(CaptureThread(i))
    /\ WF_vars(ExplorationThread)

-----------------------------------------------------------------------------
(* Properties.                                                             *)

(* Type invariant (SessionStore.data, ExplorationStore.data).              *)
LabTypeOK ==
    /\ process \in {"up", "closing", "down"}
    /\ Len(mem) <= Quota /\ Len(disk) <= Len(mem)
    /\ \A i \in DOMAIN mem : Status(i) \in Active \cup Blocked \cup {"COMPLETED", "CANCELLED"}
    /\ x # None => x.trials <= x.reserved /\ x.reserved <= x.asked /\ x.asked <= Rounds
    /\ \A r \in Runs : box[r].effect => box[r].at = "open"
    /\ sent \in 0 .. Rounds

(* At most one trial is running, whichever mode it belongs to, also while  *)
(* a cancelled or failed session's thread is still ending (create's guards, *)
(* guard_other_mode, capabilities).                                        *)
OneTrialAtATime == \A r, s \in Runs : InUse(r) /\ InUse(s) => r = s

(* Work is reserved on disk before it starts, so that neither a failure, a *)
(* cancellation nor a restart gives quota back: every sandbox there ever   *)
(* was belongs to a session or a round of the ledger (create, _execute).   *)
WorkIsReserved ==
    \A r \in Runs : box[r] # NoBox =>
        IF r \in Captures THEN r \in DOMAIN disk
        ELSE seal /\ xdisk # None /\ r <= Round(xdisk.reserved)

(* No request to the paid provider is sent that the ledger does not show,  *)
(* none twice for a round, and after an answer that did not come none at   *)
(* all (request_completion, Budget.reserve_request, _execute).             *)
PaidIsOnRecord ==
    /\ sent > 0 => xdisk # None /\ sent <= xdisk.asked
    /\ x # None => x.asked <= x.trials + 1

(* An effect that nobody has settled keeps the gateway from starting       *)
(* anything else: its session is at work or blocked, in this process and   *)
(* in every later one that serves its mode (RECONCILE_REQUIRED).           *)
UncertainIsBlocked ==
    \A r \in Runs : process = "up" /\ box[r].effect /\ (r \in Captures \/ paid) =>
        ~MayCreate /\ ~MayExplore

(* COMPLETED, in memory or in the ledger, is earned: the trials ended with *)
(* their sandboxes removed, and an exploration's usage is known and its    *)
(* requests were made (_execute_capture, _execute).                        *)
CompletedIsEarned ==
    /\ \A i \in DOMAIN mem : Status(i) = "COMPLETED" => box[i].at = "removed"
    /\ x # None /\ x.status = "COMPLETED" =>
           /\ \A n \in 1 .. Rounds : box[Round(n)].at = "removed"
           /\ x.known /\ sent = Rounds

(* A session that says CANCELLED did nothing after that: a capture never   *)
(* had a sandbox, an exploration has none that is not removed, and the     *)
(* provider owes it no answer (_execute_capture, cancelled).               *)
CancelledIsQuiet ==
    /\ \A i \in DOMAIN mem : Status(i) = "CANCELLED" => box[i] = NoBox
    /\ x # None /\ x.status = "CANCELLED" =>
           x.known /\ \A n \in 1 .. Rounds : box[Round(n)].at \in {"none", "removed"}

(* The ledgers are in order: types, reserved work, paid requests, and what *)
(* COMPLETED and CANCELLED claim.                                          *)
LabInv ==
    /\ LabTypeOK
    /\ WorkIsReserved
    /\ PaidIsOnRecord
    /\ CompletedIsEarned
    /\ CancelledIsQuiet

(* A session that is at work and has an executor is settled, if the        *)
(* process lives: no failure, of a save either, leaves it at work for      *)
(* ever.  As no other can be at work with it, the whole gateway then is    *)
(* free of work (_execute, _execute_capture).                              *)
AtWorkAlive ==
    \/ \E i \in DOMAIN mem : Status(i) \in Active /\ ThreadAlive(place[i])
    \/ ExplorationIs(Active) /\ ThreadAlive(xpc)

SessionsSettle ==
    AtWorkAlive ~> (process = "down" \/ (~CapturesAre(Active) /\ ~ExplorationIs(Active)))
=============================================================================
