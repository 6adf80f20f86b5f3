---- MODULE WorkQueueProperties ----
(***************************************************************************)
(* What must hold of the shared work queue.                                *)
(***************************************************************************)
EXTENDS WorkQueue

\* Every variable has its type.
TypeOK ==
    /\ item \in [Work -> Item]
    /\ deps \in [Work -> SUBSET Work]
    /\ locked \in [Work -> Worker \cup {NoWorker}]
    /\ claim \in [Worker -> Claimed \cup {NoClaim}]
    /\ step \in [Worker -> Step]
    /\ draft \in [Worker -> Draft \cup {NoDraft}]
    /\ writer \in [Work -> Nat]
    /\ published \in [Work -> SUBSET Nat]

-----------------------------------------------------------------------------
(* Publication *)

\* The results of an item are published exactly when it is SUCCEEDED, by one
\* attempt, and no attempt wrote after it: WorkRegistry.publication, lock_work
\* and finish_work against lease loss, replacement and cancellation.
PublishedOnce ==
    \A w \in Work :
        /\ published[w] # {} <=> item[w].state = "SUCCEEDED"
        /\ published[w] \subseteq {writer[w]}

\* Domain rows of an item are only ever committed for the attempt that holds
\* the item's lease row at that moment; a worker whose lease was taken over,
\* cancelled or acknowledged as failed writes nothing (lock_work, storage.py).
OnlyHolderWrites ==
    [][\A w \in Work :
         writer'[w] # writer[w] \/ published'[w] # published[w] =>
            /\ item[w].state = "RUNNING"
            /\ item[w].attempt = writer'[w]]_vars

\* Once terminal, an item keeps its row, its dependencies and its published
\* results for ever, whoever still holds a claim on it.
OutcomeFinal ==
    [][\A w \in Work : item[w].state \in Terminal =>
         /\ item'[w] = item[w]
         /\ deps'[w] = deps[w]
         /\ published'[w] = published[w]
         /\ writer'[w] = writer[w]]_vars

\* work_transition_allowed: where a row may go from the state it is in.
work_transition_allowed(previous, following) ==
    \/ previous = following
    \/ previous \in Waiting /\ following \in {"RUNNING", "FAILED", "CANCELLED"}
    \/ previous = "RUNNING" /\ following \in {"RETRY_WAIT", "BLOCKED"} \cup Terminal
    \/ previous = "BLOCKED" /\ following \in {"PENDING", "FAILED", "CANCELLED"}

\* The trigger guard_work_transition lets the update of row old to new pass.
guard_work_transition(old, new) ==
    /\ old.state \in Terminal => new = old
    /\ new.gen >= old.gen /\ new.attempt >= old.attempt
    /\ work_transition_allowed(old.state, new.state)

\* guard_work_transition is a safety net that never catches anything: no call of
\* any session, however late, makes an update for which it raises.  And a lease
\* that is lost, rather than spent on a success, is lost with its fencing epoch,
\* so that no two claims ever compete under one epoch.
RowsAdvance ==
    [][\A w \in Work : item[w].state # "ABSENT" =>
         /\ guard_work_transition(item[w], item'[w])
         /\ item'[w].token # item[w].token =>
               item'[w].gen > item[w].gen \/ item'[w].state = "SUCCEEDED"]_vars

-----------------------------------------------------------------------------
(* Budget and order *)

\* An item that waits for another attempt has one left, so no failure, expiry
\* or release can strand it outside the terminal states (fail_work,
\* release_blocked_work), and no item is attempted more often than allowed.
AttemptLeft ==
    \A w \in Work :
        /\ item[w].attempt <= MaxAttempts[w]
        /\ item[w].state \in Waiting => item[w].attempt < MaxAttempts[w]

\* Nothing runs, or has run, before everything it depends on succeeded, even
\* when it was requested inside a publication that committed later.
DependenciesFirst ==
    \A w \in Work : item[w].attempt > 0 => DepsSucceeded(w)

\* No set of items waits for itself: a dependency is an existing sealed row and
\* sealed rows gain no edges (guard_work_dependency), also across transactions.
NoDependencyCycle ==
    \A S \in SUBSET Work : S # {} => \E w \in S : deps[w] \cap S = {}

\* Dependencies never change after enqueue and name rows that exist.
DependenciesSealed ==
    [][\A w \in Work : item[w].state # "ABSENT" => deps'[w] = deps[w]]_vars

-----------------------------------------------------------------------------
(* The promise *)

\* item as WorkPromise sees it.
Outcome(s) == CASE s = "ABSENT" -> "absent"
                [] s = "SUCCEEDED" -> "succeeded"
                [] s \in {"FAILED", "CANCELLED"} -> "dropped"
                [] OTHER -> "open"

Promise == INSTANCE WorkPromise WITH
    outcome <- [w \in Work |-> Outcome(item[w].state)],
    needs <- deps,
    effect <- [w \in Work |-> published[w] # {}]

\* The queue, with its leases, crashes and retries, keeps WorkPromise.
KeepsPromise == Promise!Spec

-----------------------------------------------------------------------------
(* Progress *)

\* A worker that ends its claim: it publishes or acknowledges a failure.
Settle(p) == \/ CommitPublication(p)
             \/ \E class \in Classification, after \in Delay : Fail(p, class, after)

\* Database time passes, idle workers poll claim_work, a failed lease check is
\* noticed, and a worker that holds a live lease over and over ends its claim.
Fairness ==
    /\ WF_vars(Tick)
    /\ \A p \in Worker :
        /\ WF_vars(ReapOnly(p) \/ \E d \in LeaseTicks : Claim(p, d))
        /\ WF_vars(LoseLease(p))
        /\ SF_vars(Settle(p))

FairSpec == Spec /\ Fairness

\* A request whose dependencies have succeeded is decided or waits for an
\* operator (BLOCKED), whatever crashes and lease losses happen on the way.
EventuallyDecided ==
    \A w \in Work :
        (item[w].state # "ABSENT" /\ DepsSucceeded(w))
            ~> item[w].state \in Terminal \cup {"BLOCKED"}

=============================================================================
