---- MODULE LockOrderProperties ----
(***************************************************************************)
(* What must hold of the ordered transaction locks.                        *)
(***************************************************************************)
EXTENDS LockOrder

\* Every variable has its type.
LockTypeOK ==
    /\ ledger \in [Session -> Ledger]
    /\ last \in [Session -> Nat]
    /\ held \in [Session -> Ledger]
    /\ pending \in [Session -> Request \cup {NoWait}]
    /\ ahead \in [Session -> SUBSET Session]
    /\ saved \in [Session -> Savepoint \cup {NoSavepoint}]

\* The mode in which s holds k when its ledger lists k in mode m.
HeldAs(s, k, m) ==
    IF m = "none" \/ k \in RowKey THEN "none"
    ELSE IF k = Fence[s] THEN "shared" ELSE m

\* A running session really holds what its ledger lists: the fence of its run
\* shared, nothing for the key of a row, and every other lock in the mode listed,
\* also after rollbacks to a savepoint and failed nonblocking requests.  So code
\* that trusts the ledger (lock_history_qualification skips its own locks when
\* identity admission is listed as exclusive) is protected, and a write whose
\* fence is listed is not made without it (record_transaction_lock).
LedgerHonest ==
    \A s \in Session, k \in Key :
        held[s][k] = IF WaitsFor(s, k) THEN "none" ELSE HeldAs(s, k, ledger[s][k])

\* Two transactions proceed under one advisory lock only if both list it shared,
\* or it is the fence of the run they both work for.
Exclusion ==
    \A s, t \in Session, k \in Key \ RowKey :
        s # t /\ ~ WaitsFor(s, k) /\ ~ WaitsFor(t, k)
            /\ Conflict(ledger[s][k], ledger[t][k])
                => Fence[s] = k /\ Fence[t] = k

\* t is a session s must wait for: it holds the lock or queues before s.
Blocks(t, s) ==
    /\ pending[s] # NoWait
    /\ t # s
    /\ \/ Conflict(held[t][pending[s].key], pending[s].mode)
       \/ t \in ahead[s] /\ Conflict(pending[t].mode, pending[s].mode)

\* No set of sessions waits only for itself, whatever locks, modes, nested
\* blocks and nonblocking requests they mix: the lock classes and the refusal
\* of upgrades exclude every deadlock on these locks (architecture.md,
\* "Transaction lock ordering").
NoLockDeadlock ==
    \A S \in SUBSET Session :
        S # {} /\ (\A s \in S : pending[s] # NoWait)
            => \E s \in S : \A t \in S : ~ Blocks(t, s)

-----------------------------------------------------------------------------
Promise == INSTANCE LockPromise WITH owned <- held

\* Whatever is requested, refused, waited for, rolled back or reentered, the
\* locks PostgreSQL holds for transactions are granted in the order of the ranks,
\* never upgraded, and given back only by the end of the transaction or, exactly
\* those taken since, by a rollback to a savepoint (acquire_transaction_lock).
KeepsLockPromise == Promise!Spec

-----------------------------------------------------------------------------
\* Transactions end again and again, and PostgreSQL wakes a waiter whose turn
\* has come.
LockFairSpec ==
    /\ Spec
    /\ \A s \in Session : WF_vars(Wake(s)) /\ SF_vars(pending[s] = NoWait /\ End(s))

\* A waiting request is granted or given up, however other sessions keep
\* requesting the same lock in shared mode.
EventuallyServed == \A s \in Session : pending[s] # NoWait ~> pending[s] = NoWait

=============================================================================
