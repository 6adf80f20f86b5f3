---- MODULE HistoryWorkProperties ----
(***************************************************************************)
(* What the history queue promises: its rows and its work items tell one   *)
(* story, and every request is decided.                                    *)
(***************************************************************************)
EXTENDS HistoryWork

\* Type correctness of the tables and of what the workers remember.
HistoryTypeOK ==
    /\ queue \in [Job -> Row]
    /\ draft \in [Job -> Row \cup {NoRow}]
    /\ work \in [Job -> [0 .. MaxRequest -> Item]]
    /\ worker \in [Worker -> Session]
    /\ taken \in [Worker -> SUBSET Job]

\* A row whose request is bound shows the state and the attempts of its item
\* after every commit: project_history_work runs in the transaction that changes
\* the item, rolled back with it when the row is busy or the lease ran out.  The
\* one gap is an item an operator cancelled without its row.
RowShowsItem ==
    \A j \in Job : LET r == queue[j]
                       it == work[j][r.request] IN
        it.state # "ABSENT" =>
            /\ r.attempts = it.offset + it.attempt
            /\ \/ r.status = Image(it.state)
               \/ it.state = "CANCELLED" /\ r.status \in {"PENDING", "RUNNING"}

\* A job is asked for anew only after its request has ended, so every item that
\* can still run belongs to the request on the row, and no late projection of an
\* older one can touch it.
OneOpenRequest ==
    \A j \in Job : \A q \in 0 .. MaxRequest :
        q # queue[j].request => work[j][q].state \in Terminal \cup {"ABSENT"}

\* claim_history_work and heartbeat_history_work never meet a row that
\* contradicts the item (errcode 23505), which would end the whole batch.
NeverContradicted == \A p \in Worker : worker[p].place # "changed"

\* A batch works on a job at most once, also after a failure, a lapsed lease or a
\* new request: updated_at moves past batch_started_at with every write.
OncePerBatch ==
    [][\A p \in Worker : \A j \in taken[p] :
        ~ (worker'[p].place = "claimed" /\ worker[p].place = "bound" /\ worker[p].job = j)]_vars

\* A registration that meets the same request bound and claimed by another
\* registrar skips it: "Its ownership is valid; skip the candidate".
RegistrationSkips == \A p \in Worker : worker[p].place # "conflict"

-----------------------------------------------------------------------------
\* A row and the item of a request as HistoryPromise sees them.
ShownStatus(s) == CASE s = "ABSENT" -> "none"
                    [] s \in {"PENDING", "RUNNING"} -> "open"
                    [] OTHER -> s
Decision(s) == IF s \in Terminal THEN s ELSE "open"

Promise == INSTANCE HistoryPromise WITH
    Request <- 0 .. MaxRequest,
    asked <- [j \in Job |-> queue[j].request],
    shown <- [j \in Job |-> ShownStatus(queue[j].status)],
    decision <- [j \in Job |-> [q \in 0 .. MaxRequest |-> Decision(work[j][q].state)]]

\* Registrations, claims, renewals, retries and operator transactions that commit
\* a row they read long ago decide every request once, show each decision in the
\* step that makes it, or later if it is a cancellation, and never reopen or hide
\* one (project_history_work, _enqueue_history_jobs).
KeepsHistoryPromise == Promise!Spec

-----------------------------------------------------------------------------
(* Fairness: batches keep being started and a worker that can act does; a    *)
(* job renews its lease finitely often before its outcome; operator          *)
(* transactions do not roll back for ever; a retry falls due, and a lease    *)
(* nobody holds runs out.  Two disturbances that use up no attempt must stop *)
(* at some time: workers that die before they hold a request, and operator   *)
(* runs that touch a row whose request is open, which keeps it out of the    *)
(* batches that have begun.                                                  *)

Outcome(p) == \E place \in {"finishing", "retrying", "failing"} : BeginEnd(p, place)

Orphaned(j, q) ==
    /\ \A p \in Worker : ~ (/\ worker[p].place \in Holding
                            /\ worker[p].job = j /\ worker[p].request = q)
    /\ Lapse(j, q)

\* A step without those two disturbances.
CalmNext ==
    \/ \E j \in Job : RecoverRow(j) \/ (queue[j].status \notin {"PENDING", "RUNNING"} /\ EnqueueRow(j))
    \/ OperatorCommits \/ OperatorRollsBack
    \/ \E p \in Worker : Works(p) \/ LapseRenewal(p)
    \/ \E p \in Worker : worker[p].place \in Holding \cup {"conflict", "changed"} /\ Crash(p)
    \/ \E j \in Job, q \in Request :
            Cancel(j, q) \/ CancelShown(j, q) \/ Lapse(j, q) \/ FallDue(j, q)

HistoryFairSpec ==
    /\ Spec
    /\ SF_vars(OperatorCommits)
    /\ \A j \in Job : WF_vars(RecoverRow(j))
    /\ \A p \in Worker : WF_vars(Works(p) \/ (worker[p].place \in {"conflict", "changed"} /\ Crash(p)))
    /\ \A p \in Worker : SF_vars(Outcome(p))
    /\ \A j \in Job, q \in Request : WF_vars(FallDue(j, q)) /\ WF_vars(Orphaned(j, q))

\* A request that waits or runs is decided: also after crashes, lapsed leases,
\* cancellations that missed the row, and claims that found it busy.
EventuallyAnswered ==
    <>[][CalmNext]_vars =>
        \A j \in Job : queue[j].status \in {"PENDING", "RUNNING"} ~> queue[j].status \in Ended

=============================================================================
