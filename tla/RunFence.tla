---- MODULE RunFence ----
(***************************************************************************)
(* Operator sync runs and their publication fence: the rows of             *)
(* football.product_sync_runs, the shared work item of each run, the Go    *)
(* goroutine that executes it (CommandSyncRunner), the command it starts   *)
(* and the database sessions of that command.                              *)
(*                                                                         *)
(* A publication of run r holds the advisory lock of r shared until its    *)
(* transaction ends.  A control transaction that changes the status of r   *)
(* holds the row of r first (PostgreSQL locks the tuple before it fires    *)
(* the BEFORE UPDATE row triggers) and then needs the advisory lock        *)
(* exclusively; cancel_work on the work item of r takes the two in the     *)
(* opposite order.  Each is therefore two steps here, and either may be    *)
(* given up in between (timeout, disconnect, deadlock victim).             *)
(*                                                                         *)
(* Time is what is left of the two minutes both the heartbeat of a run and *)
(* the lease of its work item last: heartbeat_work renews them together.   *)
(* At 0 the lease is over and the heartbeat, whose window is closed, is    *)
(* not; below 0 both are.  A run is requested once; retrying a run         *)
(* requests another one.  Commands, logs and summaries are left out.       *)
(***************************************************************************)
EXTENDS Integers, FiniteSets

CONSTANTS
    Run,        \* run ids
    Session,    \* database sessions the commands may open
    Lane,       \* Lane[r]: the lane of r's sync type
    Window,     \* ticks a heartbeat lasts
    NoRun       \* a session without an open publication

ASSUME RunNull == NoRun \notin Run
ASSUME WindowType == Window \in Nat \ {0}

VARIABLES
    status,     \* status[r]: the status of the run's row
    work,       \* work[r]: the state of the run's work item
    left,       \* left[r]: time left of heartbeat and lease
    row,        \* row[r]: what the control transaction that locked r's row does
    fence,      \* fence[s]: the run whose fence session s holds shared
    cancelling, \* cancelling[r]: how far cancel_work on r's work item is
    host,       \* host[r]: how far the goroutine of r is
    stopped,    \* stopped[r]: the context of that goroutine is cancelled
    alive       \* alive[r]: r's command runs, perhaps without its goroutine

vars == <<status, work, left, row, fence, cancelling, host, stopped, alive>>
process == <<host, stopped, alive>>

Status == {"ABSENT", "QUEUED", "RUNNING", "SUCCEEDED", "FAILED", "CANCELLED"}
WorkState == {"ABSENT", "PENDING", "RUNNING", "SUCCEEDED", "FAILED", "CANCELLED"}
Change == {"none", "start", "succeed", "fail", "expire", "cancel"}
Host == {"none", "starting", "running", "finishing", "failing", "cancelling"}
Beating == {"running", "finishing", "failing"}

Active(r) == status[r] \in {"QUEUED", "RUNNING"}

\* The status a control transaction asks for.
Target(k) == CASE k = "start" -> "RUNNING"
               [] k = "succeed" -> "SUCCEEDED"
               [] k \in {"fail", "expire"} -> "FAILED"
               [] k = "cancel" -> "CANCELLED"

\* Mutant of FenceFree: a status change waits for no publication.
FenceOpen(r) == cancelling[r] # "held"

\* The fence of r can be had exclusively.
FenceFree(r) == /\ cancelling[r] # "held"
                /\ \A s \in Session : fence[s] # r

-----------------------------------------------------------------------------
(* Requesting a run (Start, enqueue) *)

\* Mutant of Enqueue: the lanes are not kept apart.
EnqueueAnyLane(r) ==
    /\ status[r] = "ABSENT"
    /\ status' = [status EXCEPT ![r] = "QUEUED"]
    /\ work' = [work EXCEPT ![r] = "PENDING"]
    /\ left' = [left EXCEPT ![r] = Window]
    /\ host' = [host EXCEPT ![r] = "starting"]
    /\ UNCHANGED <<row, fence, cancelling, stopped, alive>>

\* The new run and its work item are inserted together, unless the unique
\* index finds an active run in the lane (errSyncAlreadyRunning).
Enqueue(r) ==
    /\ status[r] = "ABSENT"
    /\ \A q \in Run : Active(q) => Lane[q] # Lane[r]
    /\ status' = [status EXCEPT ![r] = "QUEUED"]
    /\ work' = [work EXCEPT ![r] = "PENDING"]
    /\ left' = [left EXCEPT ![r] = Window]
    /\ host' = [host EXCEPT ![r] = "starting"]
    /\ UNCHANGED <<row, fence, cancelling, stopped, alive>>

-----------------------------------------------------------------------------
(* Control transactions: first the row, then the fence *)

Lock(r, k) ==
    /\ row[r] = "none"
    /\ row' = [row EXCEPT ![r] = k]
    /\ UNCHANGED <<status, work, left, fence, cancelling, process>>

\* markRunning
LockStart(r) == host[r] = "starting" /\ status[r] = "QUEUED" /\ left[r] >= 0
                /\ Lock(r, "start")

\* The command returned a summary: execute's last update.
LockSummary(r, k) == host[r] = "finishing" /\ status[r] = "RUNNING" /\ left[r] >= 0
                     /\ Lock(r, k)

\* The command failed: fail.
LockFailure(r) == host[r] = "failing" /\ Active(r) /\ Lock(r, "fail")

\* cancelled, by an operator's Stop or by the goroutine itself.
LockCancel(r) == Active(r) /\ Lock(r, "cancel")

\* Mutant of LockExpired: runs that never started are not cleaned up.
LockExpiredRunning(r) == status[r] = "RUNNING" /\ left[r] < 0 /\ Lock(r, "expire")

\* enqueue first fails the expired run of the lane, in its own transaction.
LockExpired(r) == Active(r) /\ left[r] < 0 /\ Lock(r, "expire")

\* complete_sync_run_work: a claim starts a pending item and fails an expired
\* one; an item that runs then takes the outcome of the run.
Completed(r, outcome) ==
    IF work[r] = "RUNNING" /\ left[r] <= 0 THEN "FAILED"
    ELSE IF work[r] \in {"PENDING", "RUNNING"} THEN outcome ELSE work[r]

\* Mutant of Driven: the outcomes are not compared.
DrivenBlindly(r, s) ==
    \/ s = "RUNNING" /\ work[r] = "PENDING" /\ work' = [work EXCEPT ![r] = "RUNNING"]
    \/ s # "RUNNING" /\ work' = [work EXCEPT ![r] = Completed(r, s)]

\* drive_sync_run_work: what status s makes of the work item; anything else
\* raises.
Driven(r, s) ==
    \/ s = "RUNNING" /\ work[r] = "PENDING" /\ work' = [work EXCEPT ![r] = "RUNNING"]
    \/ s = "CANCELLED" /\ work' = [work EXCEPT ![r] =
            IF @ \in {"PENDING", "RUNNING"} THEN "CANCELLED" ELSE @]
    \/ /\ s \in {"SUCCEEDED", "FAILED"} /\ Completed(r, s) = s
       /\ work' = [work EXCEPT ![r] = s]

\* The transaction on r's row gets the fence, changes the status and commits.
ChangeStatus(r) ==
    /\ row[r] # "none"
    /\ FenceFree(r)
    /\ Driven(r, Target(row[r]))
    /\ status' = [status EXCEPT ![r] = Target(row[r])]
    /\ row' = [row EXCEPT ![r] = "none"]
    /\ left' = IF row[r] = "start" THEN [left EXCEPT ![r] = Window] ELSE left
    /\ host' = [host EXCEPT ![r] = CASE row[r] = "start" -> "running"
                                     [] row[r] \in {"succeed", "fail"} -> "none"
                                     [] OTHER -> @]
    /\ alive' = IF row[r] = "start" THEN [alive EXCEPT ![r] = TRUE] ELSE alive
    /\ UNCHANGED <<fence, cancelling, stopped>>

\* It fails or is given up.  A goroutine whose own transaction failed reports
\* it and ends; one that was starting looks at its context first.
GiveUp(r) ==
    /\ row[r] # "none"
    /\ row' = [row EXCEPT ![r] = "none"]
    /\ host' = [host EXCEPT ![r] =
            CASE row[r] = "start" /\ stopped[r] -> "cancelling"
              [] row[r] \in {"start", "succeed", "fail"} -> "none"
              [] OTHER -> @]
    /\ UNCHANGED <<status, work, left, fence, cancelling, stopped, alive>>

-----------------------------------------------------------------------------
(* cancel_work on the work item of a run: first the fence, then the row *)

CancelWork(r) ==
    /\ cancelling[r] = "none" /\ status[r] # "ABSENT"
    /\ cancelling' = [cancelling EXCEPT ![r] = "waiting"]
    /\ UNCHANGED <<status, work, left, row, fence, process>>

CancelFenced(r) ==
    /\ cancelling[r] = "waiting" /\ FenceFree(r)
    /\ cancelling' = [cancelling EXCEPT ![r] = "held"]
    /\ UNCHANGED <<status, work, left, row, fence, process>>

\* The row is free: an active run and its work item are cancelled together.
CancelCommitted(r) ==
    /\ cancelling[r] = "held" /\ row[r] = "none"
    /\ cancelling' = [cancelling EXCEPT ![r] = "none"]
    /\ IF Active(r) THEN /\ status' = [status EXCEPT ![r] = "CANCELLED"]
                         /\ Driven(r, "CANCELLED")
       ELSE UNCHANGED <<status, work>>
    /\ UNCHANGED <<left, row, fence, process>>

CancelGivenUp(r) ==
    /\ cancelling[r] # "none"
    /\ cancelling' = [cancelling EXCEPT ![r] = "none"]
    /\ UNCHANGED <<status, work, left, row, fence, process>>

-----------------------------------------------------------------------------
(* The goroutine of a run and its command *)

Goes(r, h) == /\ host' = [host EXCEPT ![r] = h]
              /\ UNCHANGED <<status, work, left, row, fence, cancelling, stopped>>

\* Mutant of Heartbeat: the row lock of a control transaction is ignored.
HeartbeatUnlocked(r) ==
    /\ host[r] \in Beating /\ ~ stopped[r]
    /\ status[r] = "RUNNING" /\ (left[r] > 0 \/ row[r] # "none")
    /\ left' = [left EXCEPT ![r] = Window]
    /\ UNCHANGED <<status, work, row, fence, cancelling, process>>

\* Mutant of Heartbeat: it extends the lease instead of starting it anew.
HeartbeatExtends(r) ==
    /\ host[r] \in Beating /\ ~ stopped[r]
    /\ row[r] = "none"
    /\ status[r] = "RUNNING" /\ left[r] > 0
    /\ left' = [left EXCEPT ![r] = @ + Window]
    /\ UNCHANGED <<status, work, row, fence, cancelling, process>>

\* The heartbeat needs the row, but not the fence.
Heartbeat(r) ==
    /\ host[r] \in Beating /\ ~ stopped[r]
    /\ row[r] = "none"
    /\ status[r] = "RUNNING" /\ left[r] > 0
    /\ left' = [left EXCEPT ![r] = Window]
    /\ UNCHANGED <<status, work, row, fence, cancelling, process>>

\* The context is cancelled: a heartbeat failed or waited too long, Stop or
\* Shutdown asked for it.
CancelContext(r) ==
    /\ host[r] # "none" /\ ~ stopped[r]
    /\ stopped' = [stopped EXCEPT ![r] = TRUE]
    /\ UNCHANGED <<status, work, left, row, fence, cancelling, host, alive>>

\* markRunning found no row to start, or its context cancelled.
NotStarted(r) ==
    /\ host[r] = "starting" /\ row[r] # "start"
    /\ status[r] # "QUEUED" \/ left[r] < 0 \/ stopped[r]
    /\ Goes(r, IF stopped[r] THEN "cancelling" ELSE "none")
    /\ UNCHANGED alive

\* The command ends, is killed with its process group, or never started.
CommandEnds(r, h) ==
    /\ host[r] = "running"
    /\ h \in IF stopped[r] THEN {"cancelling"} ELSE {"finishing", "failing"}
    /\ Goes(r, h)
    /\ alive' = [alive EXCEPT ![r] = FALSE]

\* cancelIfRequested after the command has ended.
NoticeStop(r) ==
    /\ host[r] \in {"finishing", "failing"} /\ stopped[r]
    /\ row[r] \notin {"succeed", "fail"}
    /\ Goes(r, "cancelling")
    /\ UNCHANGED alive

\* The last update matched no row, or the cancellation is over.
HostEnds(r) ==
    /\ \/ host[r] = "finishing" /\ (status[r] # "RUNNING" \/ left[r] < 0)
       \/ host[r] = "failing" /\ ~ Active(r)
       \/ host[r] = "cancelling" /\ (~ Active(r) \/ row[r] = "none")
    /\ row[r] \notin {"succeed", "fail"}
    /\ Goes(r, "none")
    /\ UNCHANGED alive

\* The API process dies: its own transactions roll back, the command lives on.
HostCrash(r) ==
    /\ host[r] # "none"
    /\ host' = [host EXCEPT ![r] = "none"]
    /\ stopped' = [stopped EXCEPT ![r] = FALSE]
    /\ row' = [row EXCEPT ![r] = IF @ \in {"start", "succeed", "fail"} THEN "none" ELSE @]
    /\ UNCHANGED <<status, work, left, fence, cancelling, alive>>

OrphanEnds(r) ==
    /\ host[r] = "none" /\ alive[r]
    /\ alive' = [alive EXCEPT ![r] = FALSE]
    /\ UNCHANGED <<status, work, left, row, fence, cancelling, host, stopped>>

-----------------------------------------------------------------------------
(* Publications of a command *)

\* authorize_worker_publication at the first statement of a transaction: the
\* shared request queues behind exclusive ones, then the run is checked.
Authorize(s, r) ==
    /\ alive[r] /\ fence[s] = NoRun
    /\ row[r] = "none" /\ cancelling[r] = "none"
    /\ status[r] = "RUNNING" /\ work[r] = "RUNNING" /\ left[r] > 0
    /\ fence' = [fence EXCEPT ![s] = r]
    /\ UNCHANGED <<status, work, left, row, cancelling, process>>

\* The transaction commits, rolls back, or fails a later check; its command
\* may be gone and its lease over by then.
EndPublication(s) ==
    /\ fence[s] # NoRun
    /\ fence' = [fence EXCEPT ![s] = NoRun]
    /\ UNCHANGED <<status, work, left, row, cancelling, process>>

Tick ==
    /\ \E r \in Run : Active(r) /\ left[r] >= 0
    /\ left' = [r \in Run |-> IF Active(r) /\ left[r] >= 0 THEN left[r] - 1 ELSE left[r]]
    /\ UNCHANGED <<status, work, row, fence, cancelling, process>>

Init ==
    /\ status = [r \in Run |-> "ABSENT"]
    /\ work = [r \in Run |-> "ABSENT"]
    /\ left = [r \in Run |-> 0]
    /\ row = [r \in Run |-> "none"]
    /\ fence = [s \in Session |-> NoRun]
    /\ cancelling = [r \in Run |-> "none"]
    /\ host = [r \in Run |-> "none"]
    /\ stopped = [r \in Run |-> FALSE]
    /\ alive = [r \in Run |-> FALSE]

Next ==
    \/ \E r \in Run : Enqueue(r)
    \/ \E r \in Run : LockStart(r)
    \/ \E r \in Run, k \in {"succeed", "fail"} : LockSummary(r, k)
    \/ \E r \in Run : LockFailure(r)
    \/ \E r \in Run : LockCancel(r)
    \/ \E r \in Run : LockExpired(r)
    \/ \E r \in Run : ChangeStatus(r)
    \/ \E r \in Run : GiveUp(r)
    \/ \E r \in Run : CancelWork(r)
    \/ \E r \in Run : CancelFenced(r)
    \/ \E r \in Run : CancelCommitted(r)
    \/ \E r \in Run : CancelGivenUp(r)
    \/ \E r \in Run : Heartbeat(r)
    \/ \E r \in Run : CancelContext(r)
    \/ \E r \in Run : NotStarted(r)
    \/ \E r \in Run, h \in Host : CommandEnds(r, h)
    \/ \E r \in Run : NoticeStop(r)
    \/ \E r \in Run : HostEnds(r)
    \/ \E r \in Run : HostCrash(r)
    \/ \E r \in Run : OrphanEnds(r)
    \/ \E s \in Session, r \in Run : Authorize(s, r)
    \/ \E s \in Session : EndPublication(s)
    \/ Tick

Spec == Init /\ [][Next]_vars

=============================================================================
