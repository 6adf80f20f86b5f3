---- MODULE HistoryWork ----
(***************************************************************************)
(* History requests: rows of product_history_sync_queue that operator runs *)
(* enqueue, each bound to one shared work item that owns its leases and    *)
(* attempts, and the history workers that execute them.  A row shows the   *)
(* state of its item: the two are written by one transaction, except that  *)
(* an operator may cancel the item alone.                                  *)
(*                                                                         *)
(* Every transaction here is READ COMMITTED.  Registration is split at the *)
(* three points where it reads; a renewal, a completion and a failure are  *)
(* split between the work item, which they lock first, and the queue row,  *)
(* which they may have to wait for.  A claim waits for nothing (SKIP       *)
(* LOCKED) and is one action.  An operator run keeps the rows it touched   *)
(* locked until it commits.                                                *)
(*                                                                         *)
(* Simplifications.  queued_at is a request number, drawn per job.  Only   *)
(* the order of updated_at against a batch's start or a registration's     *)
(* read matters: newer and stale keep it.  A lease is live or has run out, *)
(* a retry is due or not; Lapse and FallDue are the clock.  A lease token  *)
(* is the attempt it was drawn for, as in WorkQueue.  max_attempts is      *)
(* 2^31 - 1 less the offset in the code and small here.  BLOCKED work is   *)
(* left out: no history worker reports BLOCKED_EXTERNAL.  The run's        *)
(* publication fence is RunFence's subject; what a worker writes under     *)
(* progress is WorkQueue's.                                                *)
(***************************************************************************)
EXTENDS Naturals, FiniteSets

CONSTANTS
    Job,            \* competition seasons, the keys of the queue
    Worker,         \* history worker sessions; the name is the lease owner
    NoWorker,       \* the NULL of lease_owner
    NoJob,          \* a worker that works on no job
    NoRow,          \* a queue row an open operator transaction has not touched
    MaxRequest,     \* bound on the requests of one job
    MaxAttempts,    \* attempt budget of one request
    LegacyAttempts  \* attempt counts of rows written before requests were bound

ASSUME NullsNamed == NoWorker \notin Worker /\ NoJob \notin Job
ASSUME BoundTypes == /\ MaxRequest \in Nat \ {0}
                     /\ MaxAttempts \in Nat \ {0}
                     /\ LegacyAttempts \subseteq Nat

VARIABLES
    queue,      \* queue[j]: the committed row of job j
    draft,      \* draft[j]: the row an open operator transaction holds for j
    work,       \* work[j][q]: the item bound to request q of job j
    worker,     \* worker[p]: where session p is and what it remembers
    taken       \* taken[p]: the jobs p has claimed in its present batch

vars == <<queue, draft, work, worker, taken>>

Request == 1 .. MaxRequest
JobStatus == {"ABSENT", "PENDING", "RUNNING", "SUCCEEDED", "FAILED"}
Ended == {"SUCCEEDED", "FAILED"}
State == {"ABSENT", "PENDING", "RUNNING", "RETRY_WAIT", "SUCCEEDED", "FAILED", "CANCELLED"}
Terminal == {"SUCCEEDED", "FAILED", "CANCELLED"}
Waiting == {"PENDING", "RETRY_WAIT"}

\* newer: the workers in a batch that began before the last update.
Row == [status : JobStatus, request : 0 .. MaxRequest, attempts : Nat,
        newer : SUBSET Worker]
Item == [state : State, attempt : Nat, offset : Nat, owner : Worker \cup {NoWorker},
         live : BOOLEAN, due : BOOLEAN]

ASSUME NullRow == NoRow \notin Row

Place == {"off", "idle", "choosing", "seen", "binding", "bound", "claimed", "running",
          "renewing", "finishing", "retrying", "failing", "conflict", "changed"}
InTransaction == {"renewing", "finishing", "retrying", "failing"}
Holding == InTransaction \cup {"claimed", "running"}

\* count: the attempts a registration read, later the attempt that is held;
\* stale: the row a registration read has been touched since; live: the lease a
\* renewal under way asked for.
Session == [place : Place, candidates : SUBSET Job, job : Job \cup {NoJob},
            request : 0 .. MaxRequest, count : Nat, stale : BOOLEAN, live : BOOLEAN]

\* A session that works on no request.
Resting(place, jobs) == [place |-> place, candidates |-> jobs, job |-> NoJob,
                         request |-> 0, count |-> 0, stale |-> FALSE, live |-> FALSE]

\* Mutant of Touched: updated_at keeps its value.
TouchedNot(r) == r

\* The row after an update at the present moment.
Touched(r) == [r EXCEPT !.newer = {p \in Worker : worker[p].place # "off"}]

NoItem == [state |-> "ABSENT", attempt |-> 0, offset |-> 0, owner |-> NoWorker,
           live |-> FALSE, due |-> FALSE]

\* Item it after its lease is taken away.
Released(it, s, d) == [it EXCEPT !.state = s, !.owner = NoWorker, !.live = FALSE, !.due = d]

\* The request p works on, and its item.
ItemOf(p) == work[worker[p].job][worker[p].request]

\* An open transaction of a worker holds the item's row lock.
Locked(j, q) == \E p \in Worker : /\ worker[p].place \in InTransaction
                                  /\ worker[p].job = j /\ worker[p].request = q

\* p registers a request whose row it has read.
Reading(p) == worker[p].place \in {"seen", "binding"}

\* An open operator transaction holds the queue row's lock.
Busy(j) == draft[j] # NoRow

\* Mutant of Image: the item's own state is written.
ImageOwn(s) == s

\* What a row shows of an item in state s.
Image(s) == CASE s = "RUNNING" -> "RUNNING"
              [] s = "SUCCEEDED" -> "SUCCEEDED"
              [] s \in {"FAILED", "CANCELLED"} -> "FAILED"
              [] OTHER -> "PENDING"

\* project_history_work: row r after item it of request q is shown on it.  The
\* row of another request is left alone, and so is one that shows it already.
Projected(r, q, it) ==
    IF \/ r.request # q
       \/ /\ r.status = Image(it.state) /\ r.status \in Ended
          /\ r.attempts = it.offset + it.attempt
    THEN r
    ELSE Touched([r EXCEPT !.status = Image(it.state), !.attempts = it.offset + it.attempt])

-----------------------------------------------------------------------------
(* The operator run: recovery and enqueue *)

\* Mutant of Requested: a running job is asked for anew as well.
RequestedRunning(r) ==
    IF r.status = "PENDING" THEN Touched(r)
    ELSE Touched([r EXCEPT !.status = "PENDING", !.request = @ + 1, !.attempts = 0])

\* The row after INSERT ... ON CONFLICT: a new row or a finished one takes a new
\* request, one that is still open keeps its own.
Requested(r) ==
    IF r.status \in {"PENDING", "RUNNING"} THEN Touched(r)
    ELSE Touched([r EXCEPT !.status = "PENDING", !.request = @ + 1, !.attempts = 0])

\* _enqueue_history_jobs writes the row of a requested job.
EnqueueRow(j) ==
    /\ ~ Busy(j)
    /\ queue[j].status \in {"PENDING", "RUNNING"} \/ queue[j].request < MaxRequest
    /\ draft' = [draft EXCEPT ![j] = Requested(queue[j])]
    /\ UNCHANGED <<queue, work, worker, taken>>

\* The request of row j has no work item: it was claimed before items were bound.
Unbound(j) == work[j][queue[j].request].state = "ABSENT"

\* Mutant of RecoverRow: bound requests are recovered as well.
RecoverBound(j) ==
    /\ ~ Busy(j)
    /\ queue[j].status = "RUNNING"
    /\ draft' = [draft EXCEPT ![j] = Touched([queue[j] EXCEPT !.status = "PENDING"])]
    /\ UNCHANGED <<queue, work, worker, taken>>

\* _recover_abandoned_history_jobs: only legacy claims are its business.
RecoverRow(j) ==
    /\ ~ Busy(j)
    /\ queue[j].status = "RUNNING" /\ Unbound(j)
    /\ draft' = [draft EXCEPT ![j] = Touched([queue[j] EXCEPT !.status = "PENDING"])]
    /\ UNCHANGED <<queue, work, worker, taken>>

OperatorCommits ==
    /\ \E j \in Job : Busy(j)
    /\ queue' = [j \in Job |-> IF Busy(j) THEN draft[j] ELSE queue[j]]
    /\ draft' = [j \in Job |-> NoRow]
    /\ worker' = [p \in Worker |-> IF Reading(p) /\ Busy(worker[p].job)
                                   THEN [worker[p] EXCEPT !.stale = TRUE] ELSE worker[p]]
    /\ UNCHANGED <<work, taken>>

OperatorRollsBack ==
    /\ \E j \in Job : Busy(j)
    /\ draft' = [j \in Job |-> NoRow]
    /\ UNCHANGED <<queue, work, worker, taken>>

-----------------------------------------------------------------------------
(* A worker looks for a request *)

\* p goes on with its request, to a place where it has no use for count.
At(p, place) == worker' = [worker EXCEPT ![p].place = place]

\* p lets its request go; the batch goes on.
LetGo(p, place) == worker' = [worker EXCEPT ![p] =
    Resting(place, IF place = "choosing" THEN worker[p].candidates ELSE {})]

\* p ends, and its batch with it: no update is compared with its start any more.
Ends(p) ==
    /\ worker' = [worker EXCEPT ![p] = Resting("off", {})]
    /\ taken' = [taken EXCEPT ![p] = {}]
    /\ queue' = [j \in Job |-> [queue[j] EXCEPT !.newer = @ \ {p}]]
    /\ draft' = [j \in Job |-> IF Busy(j) THEN [draft[j] EXCEPT !.newer = @ \ {p}] ELSE NoRow]
    /\ UNCHANGED work

\* p has found the item of its request.
Bound(p) == worker' = [worker EXCEPT ![p].place = "bound", ![p].count = 0, ![p].stale = FALSE]

\* batch_started_at is drawn: every update so far is older than it.
BeginBatch(p) ==
    /\ worker[p].place = "off"
    /\ LetGo(p, "idle")
    /\ UNCHANGED <<queue, draft, work, taken>>

\* The jobs _claim_history_job lists.
Candidates(p) == {j \in Job : /\ p \notin queue[j].newer
                              /\ \/ queue[j].status = "PENDING"
                                 \/ queue[j].status = "RUNNING" /\ ~ Unbound(j)}

\* The list is read once per claim; with nothing on it the worker ends.
ReadCandidates(p) ==
    /\ worker[p].place = "idle"
    /\ IF Candidates(p) = {} THEN Ends(p)
       ELSE /\ worker' = [worker EXCEPT ![p] = Resting("choosing", Candidates(p))]
            /\ UNCHANGED <<queue, draft, work, taken>>

\* The next candidate j of the list: its item if the request is bound; else the
\* registration begins and reads the row.
Choose(p, j) ==
    /\ worker[p].place = "choosing" /\ j \in worker[p].candidates
    /\ LET left == worker[p].candidates \ {j}
           with == [Resting("bound", left) EXCEPT !.job = j, !.request = queue[j].request] IN
       worker' = [worker EXCEPT ![p] =
            IF ~ Unbound(j) THEN with
            ELSE IF queue[j].status = "PENDING"
                 THEN [with EXCEPT !.place = "seen", !.count = queue[j].attempts]
            ELSE Resting("choosing", left)]
    /\ UNCHANGED <<queue, draft, work, taken>>

\* The list is used up: _claim_history_job returns None and the worker ends.
NoneLeft(p) ==
    /\ worker[p].place = "choosing" /\ worker[p].candidates = {}
    /\ Ends(p)

\* Registration reads the binding, in a second statement.  One that exists must
\* agree with the row read before it, or WorkConflict is raised.
ReadBinding(p) ==
    /\ worker[p].place = "seen"
    /\ IF ItemOf(p).state = "ABSENT" THEN At(p, "binding")
       ELSE IF ItemOf(p).offset + ItemOf(p).attempt = worker[p].count THEN Bound(p)
       ELSE LetGo(p, "conflict")
    /\ UNCHANGED <<queue, draft, work, taken>>

\* The row is still the one registration read, and nobody is writing it.
StillAsSeen(p) == LET r == queue[worker[p].job] IN
    /\ ~ Busy(worker[p].job) /\ ~ worker[p].stale
    /\ <<r.status, r.request, r.attempts>> = <<"PENDING", worker[p].request, worker[p].count>>

\* The item is enqueued and bound.  A row that carries attempts may carry their
\* cooldown as well, and the item is due when it is over.
Register(p) ==
    /\ worker[p].place = "binding"
    /\ ItemOf(p).state = "ABSENT" /\ StillAsSeen(p)
    /\ \E d \in IF worker[p].count = 0 THEN {TRUE} ELSE BOOLEAN :
            work' = [work EXCEPT ![worker[p].job][worker[p].request] =
                    [NoItem EXCEPT !.state = "PENDING", !.offset = worker[p].count,
                                   !.due = d]]
    /\ Bound(p)
    /\ UNCHANGED <<queue, draft, taken>>

\* Another session bound the request while this one's enqueue waited: its item is
\* used while nobody has claimed it and the row has not moved.
RegisteredMeanwhile(p) ==
    /\ worker[p].place = "binding"
    /\ ItemOf(p).state = "PENDING" /\ ItemOf(p).attempt = 0 /\ StillAsSeen(p)
    /\ Bound(p)
    /\ UNCHANGED <<queue, draft, work, taken>>

\* _HistoryRequestChanged: the candidate is skipped and nothing is written.
SkipRegistration(p) ==
    /\ worker[p].place = "binding"
    /\ \/ ~ StillAsSeen(p)
       \/ ItemOf(p).state # "ABSENT" /\ <<ItemOf(p).state, ItemOf(p).attempt>> # <<"PENDING", 0>>
    /\ LetGo(p, "choosing")
    /\ UNCHANGED <<queue, draft, work, taken>>

-----------------------------------------------------------------------------
(* claim_history_work *)

\* claim_work would lease the item.
Runnable(it) == /\ it.attempt < MaxAttempts
                /\ \/ it.state \in Waiting /\ it.due
                   \/ it.state = "RUNNING" /\ ~ it.live

\* claim_work would fail the item: its last attempt ran out.
Exhausted(it) == it.state = "RUNNING" /\ ~ it.live /\ it.attempt >= MaxAttempts

\* The queue row may be taken in p's batch.
Eligible(p) == LET r == queue[worker[p].job] IN
    /\ ~ Busy(worker[p].job)
    /\ r.request = worker[p].request
    /\ p \notin r.newer
    /\ r.status \in {"PENDING", "RUNNING"}

\* The row contradicts the item that is about to start an attempt.  Competition
\* and season are fixed for a job, and a retry time is written to row and item
\* together, so they never differ and are not compared here.
Contradicts(r, it) == \/ r.attempts # it.offset + it.attempt
                      \/ r.status = "RUNNING" /\ it.attempt = 0

\* What p's call may lease, fail or show, with the item's row lock free.
MayLease(p) == /\ Runnable(ItemOf(p)) /\ ~ Locked(worker[p].job, worker[p].request)
               /\ Eligible(p)
MayShow(p) == \/ queue[worker[p].job].request # worker[p].request
              \/ ~ Busy(worker[p].job)
MayReap(p) == /\ Exhausted(ItemOf(p)) /\ ~ Locked(worker[p].job, worker[p].request)
              /\ MayShow(p)

\* Put item it of p's request into the table and show it on the queue row.
Write(p, it) == LET j == worker[p].job
                    q == worker[p].request IN
    /\ work' = [work EXCEPT ![j][q] = it]
    /\ queue' = [queue EXCEPT ![j] = Projected(@, q, it)]

\* Lease the item and show it on the row, or raise "history request changed or
\* retains legacy ownership".
Claim(p) ==
    /\ worker[p].place = "bound"
    /\ MayLease(p)
    /\ IF Contradicts(queue[worker[p].job], ItemOf(p))
       THEN LetGo(p, "changed") /\ UNCHANGED <<queue, work, taken>>
       ELSE /\ Write(p, [ItemOf(p) EXCEPT !.state = "RUNNING", !.attempt = @ + 1, !.owner = p,
                                          !.live = TRUE, !.due = FALSE])
            /\ worker' = [worker EXCEPT ![p].place = "claimed", ![p].candidates = {},
                                        ![p].count = ItemOf(p).attempt + 1]
            /\ taken' = [taken EXCEPT ![p] = @ \cup {worker[p].job}]
    /\ UNCHANGED draft

\* The last attempt has run out: the item is failed and shown at once.
Reap(p) ==
    /\ worker[p].place = "bound"
    /\ MayReap(p)
    /\ Write(p, Released(ItemOf(p), "FAILED", FALSE))
    /\ LetGo(p, "choosing")
    /\ UNCHANGED <<draft, taken>>

\* Mutant of ShowTerminal: there is no terminal branch.
ShowNothing(p) ==
    /\ worker[p].place = "bound"
    /\ ItemOf(p).state \in Terminal
    /\ LetGo(p, "choosing")
    /\ UNCHANGED <<queue, draft, work, taken>>

\* The item has ended without its row: show it.
ShowTerminal(p) ==
    /\ worker[p].place = "bound"
    /\ ItemOf(p).state \in Terminal
    /\ MayShow(p)
    /\ Write(p, ItemOf(p))
    /\ LetGo(p, "choosing")
    /\ UNCHANGED <<draft, taken>>

\* Nothing to lease, or the tentative claim is rolled back (55P03).
ClaimNothing(p) ==
    /\ worker[p].place = "bound"
    /\ ~ MayLease(p) /\ ~ MayReap(p)
    /\ ItemOf(p).state \in Terminal => ~ MayShow(p)
    /\ LetGo(p, "choosing")
    /\ UNCHANGED <<queue, draft, work, taken>>

-----------------------------------------------------------------------------
(* The holder of a request *)

Fenced(p) == LET it == ItemOf(p) IN
    it.state = "RUNNING" /\ it.owner = p /\ it.attempt = worker[p].count /\ it.live

\* heartbeat_work renews the lease; the queue row comes next.  The first renewal
\* follows the claim, every later one precedes a read, a write or the completion.
BeginRenewal(p) ==
    /\ worker[p].place \in {"claimed", "running"}
    /\ Fenced(p) /\ ~ Locked(worker[p].job, worker[p].request)
    /\ worker' = [worker EXCEPT ![p].place = "renewing", ![p].live = TRUE]
    /\ UNCHANGED <<queue, draft, work, taken>>

\* The row the renewal is for: this request in this attempt, shown as running.
RowRunning(p) == LET r == queue[worker[p].job] IN
    /\ r.request = worker[p].request /\ r.status = "RUNNING"
    /\ r.attempts = ItemOf(p).offset + worker[p].count

\* heartbeat_history_work commits if the renewed lease outlived the wait, or raises
\* "history request changed before heartbeat".
CommitRenewal(p) ==
    /\ worker[p].place = "renewing"
    /\ ~ Busy(worker[p].job)
    /\ IF RowRunning(p)
       THEN /\ worker[p].live
            /\ work' = [work EXCEPT ![worker[p].job][worker[p].request].live = TRUE]
            /\ queue' = [queue EXCEPT ![worker[p].job] = Touched(@)]
            /\ worker' = [worker EXCEPT ![p].place = "running", ![p].live = FALSE]
       ELSE LetGo(p, "changed") /\ UNCHANGED <<queue, work>>
    /\ UNCHANGED <<draft, taken>>

\* finish_work or fail_work has changed the item, uncommitted.
BeginEnd(p, place) ==
    /\ worker[p].place = "running"
    /\ Fenced(p) /\ ~ Locked(worker[p].job, worker[p].request)
    /\ At(p, place)
    /\ UNCHANGED <<queue, draft, work, taken>>

\* The item p leaves behind.
EndedItem(p) == LET it == ItemOf(p) IN
    CASE worker[p].place = "finishing" -> Released(it, "SUCCEEDED", FALSE)
      [] worker[p].place = "failing" -> Released(it, "FAILED", FALSE)
      [] worker[p].place = "retrying" ->
            Released(it, IF it.attempt >= MaxAttempts THEN "FAILED" ELSE "RETRY_WAIT", FALSE)

\* Mutant of CommitEnd: the row is left to a later transaction.
CommitEndUnshown(p) ==
    /\ worker[p].place \in {"finishing", "retrying", "failing"}
    /\ ItemOf(p).live
    /\ work' = [work EXCEPT ![worker[p].job][worker[p].request] = EndedItem(p)]
    /\ LetGo(p, "idle")
    /\ UNCHANGED <<queue, draft, taken>>

\* finish_history_work and fail_history_work: shown and committed if the lease
\* outlived the wait for the queue row.
CommitEnd(p) ==
    /\ worker[p].place \in {"finishing", "retrying", "failing"}
    /\ MayShow(p) /\ ItemOf(p).live
    /\ Write(p, EndedItem(p))
    /\ LetGo(p, "idle")
    /\ UNCHANGED <<draft, taken>>

\* WorkLeaseLost, before or at the end of a transaction, ends the worker.
LoseLease(p) ==
    /\ \/ worker[p].place \in {"claimed", "running"} /\ ~ Fenced(p)
       \/ worker[p].place = "renewing" /\ ~ worker[p].live
       \/ worker[p].place \in {"finishing", "retrying", "failing"} /\ ~ ItemOf(p).live
    /\ Ends(p)

\* The worker's process or session dies; an error ended its batch.
Crash(p) ==
    /\ worker[p].place # "off"
    /\ Ends(p)

-----------------------------------------------------------------------------
(* Operators and time *)

\* cancel_work on the item alone, as the administration endpoint calls it.
Cancel(j, q) ==
    /\ work[j][q].state \notin Terminal \cup {"ABSENT"} /\ ~ Locked(j, q)
    /\ work' = [work EXCEPT ![j][q] = Released(@, "CANCELLED", FALSE)]
    /\ UNCHANGED <<queue, draft, worker, taken>>

\* cancel_history_work: the cancellation is shown in the same transaction.
CancelShown(j, q) ==
    /\ work[j][q].state # "ABSENT" /\ ~ Locked(j, q)
    /\ queue[j].request = q => ~ Busy(j)
    /\ LET it == IF work[j][q].state \in Terminal THEN work[j][q]
                 ELSE Released(work[j][q], "CANCELLED", FALSE) IN
        /\ work' = [work EXCEPT ![j][q] = it]
        /\ queue' = [queue EXCEPT ![j] = Projected(@, q, it)]
    /\ UNCHANGED <<draft, worker, taken>>

Lapse(j, q) ==
    /\ work[j][q].live
    /\ work' = [work EXCEPT ![j][q].live = FALSE]
    /\ UNCHANGED <<queue, draft, worker, taken>>

\* The lease a renewal under way asked for runs out; the one before it has.
LapseRenewal(p) ==
    /\ worker[p].place = "renewing" /\ worker[p].live /\ ~ ItemOf(p).live
    /\ worker' = [worker EXCEPT ![p].live = FALSE]
    /\ UNCHANGED <<queue, draft, work, taken>>

FallDue(j, q) ==
    /\ work[j][q].state \in Waiting /\ ~ work[j][q].due
    /\ work' = [work EXCEPT ![j][q].due = TRUE]
    /\ UNCHANGED <<queue, draft, worker, taken>>

-----------------------------------------------------------------------------
NoJobRow == [status |-> "ABSENT", request |-> 0, attempts |-> 0,
             newer |-> {}]

\* Rows as the queue had them before requests were bound: none, or one that
\* waits or runs with the attempts it has had.
InitialRow == {NoJobRow} \cup
    [status : {"PENDING", "RUNNING"}, request : {1}, attempts : LegacyAttempts, newer : {{}}]

Init ==
    /\ queue \in [Job -> InitialRow]
    /\ draft = [j \in Job |-> NoRow]
    /\ work = [j \in Job |-> [q \in 0 .. MaxRequest |-> NoItem]]
    /\ worker = [p \in Worker |-> Resting("off", {})]
    /\ taken = [p \in Worker |-> {}]

\* What a worker does by itself.
Works(p) ==
    \/ BeginBatch(p) \/ ReadCandidates(p) \/ NoneLeft(p)
    \/ \E j \in Job : Choose(p, j)
    \/ ReadBinding(p) \/ Register(p) \/ RegisteredMeanwhile(p) \/ SkipRegistration(p)
    \/ Claim(p) \/ Reap(p) \/ ShowTerminal(p) \/ ClaimNothing(p)
    \/ BeginRenewal(p) \/ CommitRenewal(p)
    \/ \E place \in {"finishing", "retrying", "failing"} : BeginEnd(p, place)
    \/ CommitEnd(p) \/ LoseLease(p)

Next ==
    \/ \E j \in Job : EnqueueRow(j) \/ RecoverRow(j)
    \/ OperatorCommits \/ OperatorRollsBack
    \/ \E p \in Worker : Works(p) \/ Crash(p) \/ LapseRenewal(p)
    \/ \E j \in Job, q \in Request :
            Cancel(j, q) \/ CancelShown(j, q) \/ Lapse(j, q) \/ FallDue(j, q)

Spec == Init /\ [][Next]_vars

=============================================================================
