---- MODULE LockOrder ----
(***************************************************************************)
(* Ordered transaction locks: football.acquire_transaction_lock, the fence *)
(* authorize_worker_publication takes before it, and the ledger            *)
(* record_transaction_lock keeps in the transaction-local setting          *)
(* matchforge.lock_order, over PostgreSQL's advisory locks and savepoints. *)
(*                                                                         *)
(* A session runs one transaction after the other.  A request is checked   *)
(* against the ledger and recorded in it before PostgreSQL is asked for    *)
(* the lock; the session may then have to wait.  PostgreSQL queues the     *)
(* waiters of a lock in order of arrival: a request also waits for the     *)
(* conflicting ones that came before it, unless its session already holds  *)
(* the lock.  The ledger follows the transaction and one savepoint, as the *)
(* nested blocks of lock_product_fixtures and psycopg do.                  *)
(*                                                                         *)
(* The ledger says more than PostgreSQL holds in two cases.  The fence of  *)
(* a run is listed as exclusive and held shared.  Claim tokens, work items *)
(* and their detail rows are listed for their place in the order alone:    *)
(* what protects them is the lock of a row, which is not modelled here.    *)
(*                                                                         *)
(* The class and the C-collated key of a lock are its Rank: a key is used  *)
(* with one class and one hash convention, and no two keys share a hash.   *)
(***************************************************************************)
EXTENDS Integers, FiniteSets

CONSTANTS
    Session,        \* database sessions
    Key,            \* lock keys
    RowKey,         \* the keys of rows, to which no advisory lock belongs
    Rank,           \* Rank[k]: position of (class, key) in the lock order
    Fence,          \* Fence[s]: the fence of the run whose command s works for
    NoFence,        \* that of a session without a run id
    NoWait,         \* a session that waits for nothing
    NoSavepoint     \* a transaction without an open savepoint

Mode == {"none", "shared", "exclusive"}
Request == [key : Key, mode : Mode \ {"none"}]
Ledger == [Key -> Mode]
Savepoint == [ledger : Ledger, last : Nat, held : Ledger]

ASSUME RankType == Rank \in [Key -> Nat \ {0}]
ASSUME RankTotal == \A j, k \in Key : Rank[j] = Rank[k] => j = k
ASSUME FenceType == /\ RowKey \subseteq Key
                    /\ NoFence \notin Key
                    /\ Fence \in [Session -> (Key \ RowKey) \cup {NoFence}]
ASSUME SessionsFinite == IsFiniteSet(Session)
ASSUME LockNulls == NoWait \notin Request /\ NoSavepoint \notin Savepoint

VARIABLES
    ledger,     \* ledger[s][k]: the mode in which s's ledger says it holds k
    last,       \* last[s]: rank of the lock s's ledger recorded last
    held,       \* held[s][k]: the mode in which PostgreSQL granted k to s
    pending,    \* pending[s]: the request s waits for
    ahead,      \* ahead[s]: the sessions that wait for the same lock longer
    saved       \* saved[s]: what rolling back to s's savepoint restores

vars == <<ledger, last, held, pending, ahead, saved>>

Nothing == [k \in Key |-> "none"]

Conflict(m, n) == /\ m # "none" /\ n # "none"
                  /\ m = "exclusive" \/ n = "exclusive"

WaitsFor(s, k) == pending[s] # NoWait /\ pending[s].key = k

\* The queue after s has left it.
Left(s) == [t \in Session |-> IF t = s THEN {} ELSE ahead[t] \ {s}]

-----------------------------------------------------------------------------
(* record_transaction_lock *)

\* Mutant of Allowed: the order of the classes is not looked at.
AllowedAnyOrder(s, k, m) == ledger[s][k] = "shared" => m = "shared"

\* Mutant of Allowed: reentry may upgrade a shared lock.
AllowedUpgrade(s, k, m) == ledger[s][k] # "none" \/ Rank[k] >= last[s]

\* Reentry must not upgrade a shared lock; a new lock must not rank below the
\* last one.
Allowed(s, k, m) ==
    IF ledger[s][k] # "none" THEN ledger[s][k] = "shared" => m = "shared"
    ELSE Rank[k] >= last[s]

\* The ledger keeps the mode in which a lock was first recorded.
Record(s, k, m) ==
    IF ledger[s][k] # "none" THEN UNCHANGED <<ledger, last>>
    ELSE /\ ledger' = [ledger EXCEPT ![s][k] = m]
         /\ last' = [last EXCEPT ![s] = Rank[k]]

-----------------------------------------------------------------------------
(* PostgreSQL *)

\* No other session holds k in a mode that conflicts with m.
NoHolder(s, k, m) == \A t \in Session \ {s} : ~ Conflict(held[t][k], m)

\* PostgreSQL grants k to s at once; a session that holds k passes the queue.
Grantable(s, k, m) ==
    /\ NoHolder(s, k, m)
    /\ \/ held[s][k] # "none"
       \/ \A t \in Session : WaitsFor(t, k) => ~ Conflict(pending[t].mode, m)

\* What s holds once k is granted in mode m: the stronger of the two modes.
Granted(s, k, m) ==
    [held EXCEPT ![s][k] = IF @ = "exclusive" THEN @ ELSE m]

-----------------------------------------------------------------------------
(* authorize_worker_publication and record_transaction_lock on their own *)

\* PostgreSQL is asked for k in mode m, and s waits if k is not to be had.
Ask(s, k, m) ==
    /\ IF Grantable(s, k, m)
       THEN /\ held' = Granted(s, k, m)
            /\ UNCHANGED <<pending, ahead>>
       ELSE /\ pending' = [pending EXCEPT ![s] = [key |-> k, mode |-> m]]
            /\ ahead' = [ahead EXCEPT ![s] = {t \in Session : WaitsFor(t, k)}]
            /\ UNCHANGED held
    /\ UNCHANGED saved

Fences == {Fence[s] : s \in Session} \ {NoFence}

\* s is no worker's session, or has listed the fence of its run.
Authorized(s) == Fence[s] # NoFence => ledger[s][Fence[s]] # "none"

\* The fence of the session's run: listed as exclusive, asked for shared.  Every
\* write and every request starts with this; once listed, it changes nothing.
\* It is a step of its own because it may wait.  When the run is not found to be
\* the session's any more, the transaction fails (RollbackToSavepoint, End).
Authorize(s) ==
    /\ pending[s] = NoWait
    /\ ~ Authorized(s)
    /\ Allowed(s, Fence[s], "exclusive")
    /\ Record(s, Fence[s], "exclusive")
    /\ Ask(s, Fence[s], "shared")

\* The key of a row takes its place in the order, with or without a fence: a
\* cancellation lists the claim token before it authorizes.
Declare(s, k) ==
    /\ pending[s] = NoWait
    /\ Allowed(s, k, "exclusive")
    /\ Record(s, k, "exclusive")
    /\ UNCHANGED <<held, pending, ahead, saved>>

-----------------------------------------------------------------------------
(* acquire_transaction_lock *)

\* The request comes after the session's authorization.  The fence of a run is
\* otherwise taken by the controls of runs, exclusively, and they are refused in
\* a session with a run id.
Requested(s, k, m) ==
    /\ pending[s] = NoWait
    /\ Authorized(s)
    /\ k \notin RowKey
    /\ k \in Fences => Fence[s] = NoFence /\ m = "exclusive"
    /\ Allowed(s, k, m)

\* A waiting request (wait_for_lock).
Acquire(s, k, m) ==
    /\ Requested(s, k, m)
    /\ Record(s, k, m)
    /\ Ask(s, k, m)

\* Mutant of TryAcquire: a busy lock stays in the ledger.
TryAcquireKept(s, k, m) ==
    /\ Requested(s, k, m)
    /\ Record(s, k, m)
    /\ held' = IF Grantable(s, k, m) THEN Granted(s, k, m) ELSE held
    /\ UNCHANGED <<pending, ahead, saved>>

\* A request that does not wait: a busy lock leaves the previous ledger, which
\* lists the fence.
TryAcquire(s, k, m) ==
    /\ Requested(s, k, m)
    /\ IF Grantable(s, k, m)
       THEN Record(s, k, m) /\ held' = Granted(s, k, m)
       ELSE UNCHANGED <<ledger, last, held>>
    /\ UNCHANGED <<pending, ahead, saved>>

\* PostgreSQL wakes s: nobody holds the lock against it, nor waits before it.
Wake(s) ==
    /\ pending[s] # NoWait
    /\ NoHolder(s, pending[s].key, pending[s].mode)
    /\ \A t \in ahead[s] : ~ Conflict(pending[t].mode, pending[s].mode)
    /\ held' = Granted(s, pending[s].key, pending[s].mode)
    /\ pending' = [pending EXCEPT ![s] = NoWait]
    /\ ahead' = Left(s)
    /\ UNCHANGED <<ledger, last, saved>>

-----------------------------------------------------------------------------
(* Transactions *)

\* Mutant of SetSavepoint: the place in the order is not saved.
SetSavepointUnordered(s) ==
    /\ pending[s] = NoWait
    /\ saved[s] = NoSavepoint
    /\ saved' = [saved EXCEPT ![s] = [ledger |-> ledger[s], held |-> held[s]]]
    /\ UNCHANGED <<ledger, last, held, pending, ahead>>

SetSavepoint(s) ==
    /\ pending[s] = NoWait
    /\ saved[s] = NoSavepoint
    /\ saved' = [saved EXCEPT ![s] =
            [ledger |-> ledger[s], last |-> last[s], held |-> held[s]]]
    /\ UNCHANGED <<ledger, last, held, pending, ahead>>

\* The nested block ends normally and keeps its locks.
ReleaseSavepoint(s) ==
    /\ pending[s] = NoWait
    /\ saved[s] # NoSavepoint
    /\ saved' = [saved EXCEPT ![s] = NoSavepoint]
    /\ UNCHANGED <<ledger, last, held, pending, ahead>>

\* Mutant of RollbackToSavepoint: the ledger outlives the locks.
RollbackKeepsLedger(s) ==
    /\ saved[s] # NoSavepoint
    /\ held' = [held EXCEPT ![s] = saved[s].held]
    /\ pending' = [pending EXCEPT ![s] = NoWait]
    /\ ahead' = Left(s)
    /\ saved' = [saved EXCEPT ![s] = NoSavepoint]
    /\ UNCHANGED <<ledger, last>>

\* An error inside the nested block, a refused or timed-out request among them.
RollbackToSavepoint(s) ==
    /\ saved[s] # NoSavepoint
    /\ ledger' = [ledger EXCEPT ![s] = saved[s].ledger]
    /\ last' = [last EXCEPT ![s] = saved[s].last]
    /\ held' = [held EXCEPT ![s] = saved[s].held]
    /\ pending' = [pending EXCEPT ![s] = NoWait]
    /\ ahead' = Left(s)
    /\ saved' = [saved EXCEPT ![s] = NoSavepoint]

\* Commit, or an error outside a nested block, also while waiting.
End(s) ==
    /\ ledger' = [ledger EXCEPT ![s] = Nothing]
    /\ last' = [last EXCEPT ![s] = 0]
    /\ held' = [held EXCEPT ![s] = Nothing]
    /\ pending' = [pending EXCEPT ![s] = NoWait]
    /\ ahead' = Left(s)
    /\ saved' = [saved EXCEPT ![s] = NoSavepoint]

Init ==
    /\ ledger = [s \in Session |-> Nothing]
    /\ last = [s \in Session |-> 0]
    /\ held = [s \in Session |-> Nothing]
    /\ pending = [s \in Session |-> NoWait]
    /\ ahead = [s \in Session |-> {}]
    /\ saved = [s \in Session |-> NoSavepoint]

Next ==
    \/ \E s \in Session : Authorize(s)
    \/ \E s \in Session, k \in RowKey : Declare(s, k)
    \/ \E s \in Session, k \in Key, m \in Mode \ {"none"} : Acquire(s, k, m)
    \/ \E s \in Session, k \in Key, m \in Mode \ {"none"} : TryAcquire(s, k, m)
    \/ \E s \in Session : Wake(s)
    \/ \E s \in Session : SetSavepoint(s)
    \/ \E s \in Session : ReleaseSavepoint(s)
    \/ \E s \in Session : RollbackToSavepoint(s)
    \/ \E s \in Session : End(s)

Spec == Init /\ [][Next]_vars

=============================================================================
