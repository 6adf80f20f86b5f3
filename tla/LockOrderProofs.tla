---- MODULE LockOrderProofs ----
(***************************************************************************)
(* Proofs about the ordered transaction locks for any finite number of     *)
(* sessions and any number of locks.  LInv is inductive.  Waits then go    *)
(* from a lock to one of a higher rank, or to the front of one lock's      *)
(* queue: neither can go on for ever, so no set of sessions waits only     *)
(* for itself.                                                             *)
(***************************************************************************)
EXTENDS LockOrderProperties, FiniteSetTheorems, TLAPS

\* Modes granted by PostgreSQL are compatible.
HeldCompatible ==
    \A s, t \in Session, k \in Key : s # t => ~ Conflict(held[s][k], held[t][k])

\* The ledger's last lock ranks above the others.
LedgerRanked == \A s \in Session, k \in Key : ledger[s][k] # "none" => Rank[k] <= last[s]

\* A session waits for the lock its ledger recorded last, in the mode it is held in.
WaiterLast ==
    \A s \in Session : pending[s] # NoWait =>
        /\ HeldAs(s, pending[s].key, ledger[s][pending[s].key]) = pending[s].mode
        /\ last[s] = Rank[pending[s].key]

\* A savepoint restores a ledger and the locks it lists, all of them still held.
SavedHeld ==
    \A s \in Session : saved[s] # NoSavepoint =>
        \A k \in Key :
            /\ saved[s].held[k] = HeldAs(s, k, saved[s].ledger[k])
            /\ saved[s].held[k] # "none" => held[s][k] = saved[s].held[k]
            /\ saved[s].ledger[k] # "none" => Rank[k] <= saved[s].last

\* No ledger lists the fence of a run as shared.
FencesExclusive ==
    \A s \in Session, k \in Fences :
        /\ ledger[s][k] # "shared"
        /\ saved[s] # NoSavepoint => saved[s].ledger[k] # "shared"

\* Only waiters of one lock queue before each other.
QueueShape ==
    \A s, t \in Session : t \in ahead[s] =>
        /\ pending[s] # NoWait /\ pending[t] # NoWait
        /\ pending[s].key = pending[t].key

\* Every set of sessions has one that nobody in the set queues before.
QueueFirst == \A S \in SUBSET Session : S # {} => \E s \in S : ahead[s] \cap S = {}

LInv ==
    /\ LockTypeOK
    /\ LedgerHonest
    /\ HeldCompatible
    /\ LedgerRanked
    /\ WaiterLast
    /\ SavedHeld
    /\ FencesExclusive
    /\ QueueShape
    /\ QueueFirst

-----------------------------------------------------------------------------
(* Helpers *)

LEMMA NothingType == Nothing \in Ledger
  BY DEF Nothing, Ledger, Mode

LEMMA LeftType ==
  ASSUME LockTypeOK, NEW s \in Session
  PROVE  Left(s) \in [Session -> SUBSET Session]
  BY DEF LockTypeOK, Left

LEMMA GrantedType ==
  ASSUME LockTypeOK, NEW s \in Session, NEW k \in Key, NEW m \in Mode \ {"none"}
  PROVE  /\ Granted(s, k, m) \in [Session -> Ledger]
         /\ \A t \in Session \ {s} : Granted(s, k, m)[t] = held[t]
         /\ \A j \in Key \ {k} : Granted(s, k, m)[s][j] = held[s][j]
         /\ Granted(s, k, m)[s][k] = IF held[s][k] = "exclusive" THEN "exclusive" ELSE m
  BY DEF LockTypeOK, Granted, Ledger, Mode

LEMMA RecordStep ==
  ASSUME LockTypeOK, NEW s \in Session, NEW k \in Key, NEW m \in Mode \ {"none"},
         Record(s, k, m)
  PROVE  /\ ledger' \in [Session -> Ledger]
         /\ last' \in [Session -> Nat]
         /\ \A t \in Session \ {s} : ledger'[t] = ledger[t] /\ last'[t] = last[t]
         /\ \A j \in Key \ {k} : ledger'[s][j] = ledger[s][j]
         /\ ledger'[s][k] = IF ledger[s][k] # "none" THEN ledger[s][k] ELSE m
         /\ last'[s] = IF ledger[s][k] # "none" THEN last[s] ELSE Rank[k]
  <1>1. CASE ledger[s][k] # "none"
    BY <1>1 DEF LockTypeOK, Record
  <1>2. CASE ledger[s][k] = "none"
    <2>1. ledger' = [ledger EXCEPT ![s][k] = m] /\ last' = [last EXCEPT ![s] = Rank[k]]
      BY <1>2 DEF Record
    <2>2. Rank[k] \in Nat
      BY RankType
    <2> QED
      BY <1>2, <2>1, <2>2 DEF LockTypeOK, Ledger, Mode
  <1> QED
    BY <1>1, <1>2

LEMMA FenceKeys == Fences \subseteq Key \ RowKey
  BY FenceType DEF Fences

\* What a session that waits for nothing holds of a lock it asks for again is at
\* least what it asks for; l is the mode it lists, m the one it asks for.
LEMMA ReentryHeld ==
  ASSUME LInv, NEW s \in Session, NEW k \in Key, NEW l \in Mode \ {"none"},
         NEW m \in Mode \ {"none"}, HeldAs(s, k, l) = m,
         pending[s] = NoWait, Allowed(s, k, l), ledger[s][k] # "none"
  PROVE  held[s][k] = HeldAs(s, k, ledger[s][k]) /\ held[s][k] \in {m, "exclusive"}
  <1>1. held[s][k] = HeldAs(s, k, ledger[s][k]) /\ ledger[s][k] \in Mode
    BY DEF LInv, LedgerHonest, WaitsFor, LockTypeOK, Ledger
  <1> QED
    BY <1>1 DEF Allowed, HeldAs, Mode

\* A lock the session already holds is granted at once: reentry never waits.
LEMMA ReentryGranted ==
  ASSUME LInv, NEW s \in Session, NEW k \in Key, NEW l \in Mode \ {"none"},
         NEW m \in Mode \ {"none"}, HeldAs(s, k, l) = m,
         pending[s] = NoWait, Allowed(s, k, l), ledger[s][k] # "none"
  PROVE  Grantable(s, k, m)
  <1>1. held[s][k] \in {m, "exclusive"}
    BY ReentryHeld
  <1>2. \A t \in Session \ {s} : ~ Conflict(held[t][k], held[s][k]) /\ held[t][k] \in Mode
    BY DEF LInv, HeldCompatible, LockTypeOK, Ledger
  <1>3. \A t \in Session \ {s} : ~ Conflict(held[t][k], m)
    BY <1>1, <1>2 DEF Conflict, Mode
  <1> QED
    BY <1>1, <1>3 DEF Grantable, NoHolder, Mode

\* A newly listed lock ranks above the others.
LEMMA RankedRecord ==
  ASSUME LInv, NEW s \in Session, NEW k \in Key, NEW l \in Mode \ {"none"},
         Allowed(s, k, l), Record(s, k, l)
  PROVE  LedgerRanked'
  <1> SUFFICES ASSUME NEW t \in Session, NEW j \in Key, ledger'[t][j] # "none"
               PROVE  Rank[j] <= last'[t]
    BY DEF LedgerRanked
  <1>1. CASE t # s
    BY <1>1, RecordStep DEF LInv, LedgerRanked
  <1>2. CASE t = s /\ ledger[s][k] # "none"
    BY <1>2, RecordStep DEF LInv, LedgerRanked
  <1>3. CASE t = s /\ ledger[s][k] = "none"
    <2>1. last'[s] = Rank[k] /\ Rank[k] >= last[s]
      BY <1>3, RecordStep DEF LInv, Allowed
    <2>2. j = k \/ Rank[j] <= last[s]
      BY <1>3, RecordStep DEF LInv, LedgerRanked
    <2>3. Rank[j] \in Nat /\ Rank[k] \in Nat /\ last[s] \in Nat
      BY RankType DEF LInv, LockTypeOK
    <2> QED
      BY <1>3, <2>1, <2>2, <2>3
  <1> QED
    BY <1>1, <1>2, <1>3

\* The fence of a run is listed only as exclusive.
LEMMA FencesRecord ==
  ASSUME LInv, NEW s \in Session, NEW k \in Key, NEW l \in Mode \ {"none"},
         k \in Fences => l = "exclusive", Record(s, k, l), UNCHANGED saved
  PROVE  FencesExclusive'
  <1> SUFFICES ASSUME NEW t \in Session, NEW j \in Fences PROVE ledger'[t][j] # "shared"
    BY DEF LInv, FencesExclusive, Fences
  <1>1. ledger[t][j] # "shared" /\ j \in Key
    BY FenceKeys DEF LInv, FencesExclusive
  <1> QED
    BY <1>1, RecordStep DEF LInv

\* Leaving the queue keeps it a queue.
LEMMA LeftQueue ==
  ASSUME LInv, NEW s \in Session, ahead' = Left(s),
         pending' = [pending EXCEPT ![s] = NoWait]
  PROVE  QueueShape' /\ QueueFirst'
  <1>1. QueueShape'
    BY LockNulls DEF LInv, LockTypeOK, QueueShape, Left
  <1>2. QueueFirst'
    BY DEF LInv, LockTypeOK, QueueFirst, Left
  <1> QED
    BY <1>1, <1>2

\* Joining the queue behind those that wait for the same lock keeps it one.
LEMMA JoinQueue ==
  ASSUME LInv, NEW s \in Session, NEW r \in Request, pending[s] = NoWait,
         pending' = [pending EXCEPT ![s] = r],
         ahead' = [ahead EXCEPT ![s] = {t \in Session : WaitsFor(t, r.key)}]
  PROVE  QueueShape' /\ QueueFirst'
  <1>1. s \notin {t \in Session : WaitsFor(t, r.key)}
    BY DEF WaitsFor
  <1>2. \A t \in Session : s \notin ahead[t]
    BY DEF LInv, QueueShape
  <1>3. QueueShape'
    BY <1>1, LockNulls DEF LInv, LockTypeOK, QueueShape, WaitsFor
  <1>4. QueueFirst'
    <2> SUFFICES ASSUME NEW S \in SUBSET Session, S # {}
                 PROVE  \E t \in S : ahead'[t] \cap S = {}
      BY DEF QueueFirst
    <2>1. CASE S = {s}
      BY <1>1, <2>1 DEF LInv, LockTypeOK
    <2>2. CASE S # {s}
      <3> DEFINE R == S \ {s}
      <3>2. R # {} /\ R \in SUBSET Session
        BY <2>2
      <3>1. PICK t \in R : ahead[t] \cap R = {}
        BY <3>2 DEF LInv, QueueFirst
      <3> QED
        BY <1>2, <3>1 DEF LInv, LockTypeOK
    <2> QED
      BY <2>1, <2>2
  <1> QED
    BY <1>3, <1>4

-----------------------------------------------------------------------------
(* LInv is inductive *)

LEMMA Unchanged == ASSUME LInv, UNCHANGED vars PROVE LInv'
  BY DEF vars, LInv, LockTypeOK, LedgerHonest, HeldCompatible, LedgerRanked, WaiterLast,
         SavedHeld, FencesExclusive, Fences, HeldAs, QueueShape, QueueFirst, WaitsFor

\* What a request that is granted, at once or after waiting, leaves behind.
LEMMA GrantKeeps ==
  ASSUME LInv, NEW s \in Session, NEW k \in Key, NEW m \in Mode \ {"none"},
         NoHolder(s, k, m), held' = Granted(s, k, m)
  PROVE  HeldCompatible'
  <1>1. SUFFICES ASSUME NEW t \in Session, NEW u \in Session, NEW j \in Key, t # u
                 PROVE  ~ Conflict(held'[t][j], held'[u][j])
    BY DEF HeldCompatible
  <1>2. ~ Conflict(held[t][j], held[u][j])
    BY <1>1 DEF LInv, HeldCompatible
  <1>3. CASE j # k \/ (t # s /\ u # s)
    BY <1>2, <1>3, GrantedType DEF LInv
  <1>4. CASE j = k /\ t = s
    BY <1>1, <1>2, <1>4, GrantedType DEF LInv, NoHolder, Conflict
  <1>5. CASE j = k /\ u = s
    BY <1>1, <1>2, <1>5, GrantedType DEF LInv, NoHolder, Conflict
  <1> QED
    BY <1>3, <1>4, <1>5

\* A request that is granted at once, waiting or not; l is the mode it lists.
LEMMA GrantedAtOnce ==
  ASSUME LInv, NEW s \in Session, NEW k \in Key, NEW l \in Mode \ {"none"},
         NEW m \in Mode \ {"none"}, HeldAs(s, k, l) = m, k \in Fences => l = "exclusive",
         pending[s] = NoWait, Allowed(s, k, l), Record(s, k, l), Grantable(s, k, m),
         held' = Granted(s, k, m), UNCHANGED <<pending, ahead, saved>>
  PROVE  LInv'
  <1>1. held[s][k] = HeldAs(s, k, ledger[s][k])
    BY DEF LInv, LedgerHonest, WaitsFor
  <1>2. LockTypeOK'
    BY RecordStep, GrantedType DEF LInv, LockTypeOK
  <1>3. held'[s][k] = HeldAs(s, k, ledger'[s][k])
    <2>1. CASE ledger[s][k] # "none"
      BY <1>1, <2>1, RecordStep, GrantedType, ReentryHeld DEF LInv
    <2>2. CASE ledger[s][k] = "none"
      BY <1>1, <2>2, RecordStep, GrantedType DEF LInv, HeldAs
    <2> QED
      BY <2>1, <2>2
  <1>4. LedgerHonest'
    <2> SUFFICES ASSUME NEW t \in Session, NEW j \in Key
                 PROVE  held'[t][j] = IF WaitsFor(t, j) THEN "none"
                                      ELSE HeldAs(t, j, ledger'[t][j])
      BY DEF LedgerHonest, WaitsFor, HeldAs
    <2>1. held[t][j] = IF WaitsFor(t, j) THEN "none" ELSE HeldAs(t, j, ledger[t][j])
      BY DEF LInv, LedgerHonest
    <2>2. CASE t # s \/ j # k
      BY <2>1, <2>2, RecordStep, GrantedType DEF LInv
    <2>3. CASE t = s /\ j = k
      BY <1>3, <2>3 DEF WaitsFor
    <2> QED
      BY <2>2, <2>3
  <1>5. HeldCompatible'
    BY GrantKeeps DEF Grantable
  <1>6. LedgerRanked' /\ FencesExclusive'
    BY RankedRecord, FencesRecord
  <1>7. WaiterLast'
    <2> SUFFICES ASSUME NEW t \in Session, pending[t] # NoWait
                 PROVE  /\ HeldAs(t, pending[t].key, ledger'[t][pending[t].key]) = pending[t].mode
                        /\ last'[t] = Rank[pending[t].key]
      BY DEF WaiterLast, HeldAs
    <2> QED
      BY RecordStep DEF LInv, WaiterLast
  <1>8. SavedHeld'
    <2> SUFFICES ASSUME NEW t \in Session, saved[t] # NoSavepoint, NEW j \in Key,
                        saved[t].held[j] # "none"
                 PROVE  held'[t][j] = saved[t].held[j]
      BY DEF LInv, SavedHeld, HeldAs
    <2>1. held[t][j] = saved[t].held[j]
      BY DEF LInv, SavedHeld
    <2>2. CASE t # s \/ j # k
      BY <2>1, <2>2, GrantedType DEF LInv
    <2>3. CASE t = s /\ j = k
      <3>1. ledger[s][k] # "none"
        BY <1>1, <2>1, <2>3 DEF HeldAs
      <3> QED
        BY <2>1, <2>3, <3>1, GrantedType, ReentryHeld DEF LInv
    <2> QED
      BY <2>2, <2>3
  <1>9. QueueShape' /\ QueueFirst'
    BY DEF LInv, QueueShape, QueueFirst
  <1> QED
    BY <1>2, <1>4, <1>5, <1>6, <1>7, <1>8, <1>9 DEF LInv

\* A request that has to wait: it is a new one and joins the queue.
LEMMA Enqueued ==
  ASSUME LInv, NEW s \in Session, NEW k \in Key, NEW l \in Mode \ {"none"},
         NEW m \in Mode \ {"none"}, HeldAs(s, k, l) = m, k \in Fences => l = "exclusive",
         pending[s] = NoWait, Allowed(s, k, l), Record(s, k, l), ~ Grantable(s, k, m),
         pending' = [pending EXCEPT ![s] = [key |-> k, mode |-> m]],
         ahead' = [ahead EXCEPT ![s] = {t \in Session : WaitsFor(t, k)}],
         UNCHANGED <<held, saved>>
  PROVE  LInv'
  <1> DEFINE r == [key |-> k, mode |-> m]
  <1>1. ledger[s][k] = "none" /\ held[s][k] = "none"
    BY ReentryGranted DEF LInv, LedgerHonest, WaitsFor, HeldAs
  <1>2. r \in Request /\ r # NoWait
    BY LockNulls DEF Request
  <1>3. pending'[s] = r /\ \A t \in Session \ {s} : pending'[t] = pending[t]
    BY DEF LInv, LockTypeOK
  <1>4. LockTypeOK'
    BY <1>2, RecordStep DEF LInv, LockTypeOK
  <1>5. LedgerHonest'
    <2> SUFFICES ASSUME NEW t \in Session, NEW j \in Key
                 PROVE  held[t][j] = IF pending'[t] # NoWait /\ pending'[t].key = j
                                     THEN "none" ELSE HeldAs(t, j, ledger'[t][j])
      BY DEF LedgerHonest, WaitsFor, HeldAs
    <2>1. held[t][j] = IF WaitsFor(t, j) THEN "none" ELSE HeldAs(t, j, ledger[t][j])
      BY DEF LInv, LedgerHonest
    <2>2. CASE t # s
      BY <1>3, <2>1, <2>2, RecordStep DEF LInv, WaitsFor
    <2>3. CASE t = s
      BY <1>1, <1>2, <1>3, <2>1, <2>3, RecordStep DEF LInv, WaitsFor
    <2> QED
      BY <2>2, <2>3
  <1>6. HeldCompatible'
    BY DEF LInv, HeldCompatible
  <1>7. LedgerRanked' /\ FencesExclusive'
    BY RankedRecord, FencesRecord
  <1>8. WaiterLast'
    <2> SUFFICES ASSUME NEW t \in Session, pending'[t] # NoWait
                 PROVE  /\ HeldAs(t, pending'[t].key, ledger'[t][pending'[t].key])
                              = pending'[t].mode
                        /\ last'[t] = Rank[pending'[t].key]
      BY DEF WaiterLast, HeldAs
    <2>1. CASE t = s
      BY <1>1, <1>3, <2>1, RecordStep DEF LInv
    <2>2. CASE t # s
      BY <1>3, <2>2, RecordStep DEF LInv, WaiterLast
    <2> QED
      BY <2>1, <2>2
  <1>9. SavedHeld'
    BY DEF LInv, SavedHeld, HeldAs
  <1>10. QueueShape' /\ QueueFirst'
    <2>1. ahead' = [ahead EXCEPT ![s] = {t \in Session : WaitsFor(t, r.key)}]
      OBVIOUS
    <2> HIDE DEF r
    <2> QED
      BY <1>2, <2>1, JoinQueue DEF r
  <1> QED
    BY <1>4, <1>5, <1>6, <1>7, <1>8, <1>9, <1>10 DEF LInv

\* Any request that may wait.
LEMMA AskKeeps ==
  ASSUME LInv, NEW s \in Session, NEW k \in Key, NEW l \in Mode \ {"none"},
         NEW m \in Mode \ {"none"}, HeldAs(s, k, l) = m, k \in Fences => l = "exclusive",
         pending[s] = NoWait, Allowed(s, k, l), Record(s, k, l), Ask(s, k, m)
  PROVE  LInv'
  <1>1. CASE Grantable(s, k, m)
    BY <1>1, GrantedAtOnce DEF Ask
  <1>2. CASE ~ Grantable(s, k, m)
    BY <1>2, Enqueued DEF Ask
  <1> QED
    BY <1>1, <1>2

\* The fence of a run is listed as exclusive and asked for shared.
LEMMA FenceAsked ==
  ASSUME NEW s \in Session, ~ Authorized(s)
  PROVE  /\ Fence[s] \in Key /\ Fence[s] \in Fences
         /\ HeldAs(s, Fence[s], "exclusive") = "shared"
  BY FenceType DEF Authorized, Fences, HeldAs

LEMMA AuthorizeKeeps == ASSUME LInv, NEW s \in Session, Authorize(s) PROVE LInv'
  <1>1. /\ Fence[s] \in Key /\ HeldAs(s, Fence[s], "exclusive") = "shared"
        /\ "exclusive" \in Mode \ {"none"} /\ "shared" \in Mode \ {"none"}
    BY FenceAsked DEF Authorize, Mode
  <1> QED
    BY <1>1, AskKeeps DEF Authorize

\* What acquire_transaction_lock lists it asks for in the same mode.
LEMMA RequestAsked ==
  ASSUME NEW s \in Session, NEW k \in Key, NEW m \in Mode \ {"none"}, Requested(s, k, m)
  PROVE  HeldAs(s, k, m) = m /\ (k \in Fences => m = "exclusive")
  <1>1. k # Fence[s]
    BY FenceType DEF Requested, Fences
  <1> QED
    BY <1>1 DEF Requested, HeldAs

\* A row's key adds nothing to what the session holds.
LEMMA DeclareKeeps ==
  ASSUME LInv, NEW s \in Session, NEW k \in RowKey, Declare(s, k)
  PROVE  LInv'
  <1> DEFINE l == "exclusive"
  <1>1. /\ k \in Key /\ l \in Mode \ {"none"} /\ (k \in Fences => l = "exclusive")
        /\ Allowed(s, k, l) /\ Record(s, k, l)
        /\ pending[s] = NoWait /\ UNCHANGED <<held, pending, ahead, saved>>
    BY FenceType DEF Declare, Mode
  <1> HIDE DEF l
  <1>2. LockTypeOK'
    BY <1>1, RecordStep DEF LInv, LockTypeOK
  <1>3. \A t \in Session, j \in Key : HeldAs(t, j, ledger'[t][j]) = HeldAs(t, j, ledger[t][j])
    <2> SUFFICES ASSUME NEW t \in Session, NEW j \in Key
                 PROVE  HeldAs(t, j, ledger'[t][j]) = HeldAs(t, j, ledger[t][j])
      OBVIOUS
    <2>1. CASE t = s /\ j = k
      BY <2>1 DEF HeldAs
    <2>2. CASE t # s \/ j # k
      BY <1>1, <2>2, RecordStep DEF LInv
    <2> QED
      BY <2>1, <2>2
  <1>4. LedgerHonest'
    BY <1>1, <1>3 DEF LInv, LedgerHonest, WaitsFor, HeldAs
  <1>5. LedgerRanked' /\ FencesExclusive'
    BY <1>1, RankedRecord, FencesRecord
  <1>6. WaiterLast'
    <2> SUFFICES ASSUME NEW t \in Session, pending[t] # NoWait
                 PROVE  /\ HeldAs(t, pending[t].key, ledger'[t][pending[t].key]) = pending[t].mode
                        /\ last'[t] = Rank[pending[t].key]
      BY <1>1 DEF WaiterLast, HeldAs
    <2> QED
      BY <1>1, RecordStep DEF LInv, WaiterLast
  <1>7. HeldCompatible' /\ SavedHeld' /\ QueueShape' /\ QueueFirst'
    BY <1>1 DEF LInv, HeldCompatible, SavedHeld, HeldAs, QueueShape, QueueFirst
  <1> QED
    BY <1>2, <1>4, <1>5, <1>6, <1>7 DEF LInv

\* A waiter is woken and holds what its ledger lists.
LEMMA WakeKeeps == ASSUME LInv, NEW s \in Session, Wake(s) PROVE LInv'
  <1> DEFINE k == pending[s].key
             m == pending[s].mode
  <1>1. k \in Key /\ m \in Mode \ {"none"} /\ HeldAs(s, k, ledger[s][k]) = m
    BY DEF Wake, LInv, LockTypeOK, Request, WaiterLast
  <1>2. held[s][k] = "none"
    BY <1>1 DEF Wake, LInv, LedgerHonest, WaitsFor
  <1>3. held' = Granted(s, k, m) /\ NoHolder(s, k, m)
    BY DEF Wake
  <1>4. pending'[s] = NoWait /\ \A t \in Session \ {s} : pending'[t] = pending[t]
    BY DEF Wake, LInv, LockTypeOK
  <1>5. UNCHANGED <<ledger, last, saved>>
    BY DEF Wake
  <1>6. ahead' = Left(s) /\ pending' = [pending EXCEPT ![s] = NoWait]
    BY DEF Wake
  <1> HIDE DEF k, m
  <1>7. /\ \A t \in Session \ {s} : held'[t] = held[t]
        /\ \A j \in Key \ {k} : held'[s][j] = held[s][j]
        /\ held'[s][k] = m
    BY <1>1, <1>2, <1>3, GrantedType DEF LInv
  <1>8. LockTypeOK'
    BY <1>1, <1>3, <1>5, <1>6, GrantedType, LeftType DEF LInv, LockTypeOK
  <1>9. LedgerHonest'
    <2> SUFFICES ASSUME NEW t \in Session, NEW j \in Key
                 PROVE  held'[t][j] = IF pending'[t] # NoWait /\ pending'[t].key = j
                                      THEN "none" ELSE HeldAs(t, j, ledger[t][j])
      BY <1>5 DEF LedgerHonest, WaitsFor, HeldAs
    <2>1. held[t][j] = IF WaitsFor(t, j) THEN "none" ELSE HeldAs(t, j, ledger[t][j])
      BY DEF LInv, LedgerHonest
    <2>2. CASE t # s
      BY <1>4, <1>7, <2>1, <2>2 DEF WaitsFor
    <2>3. CASE t = s /\ j # k
      BY <1>4, <1>7, <2>1, <2>3 DEF WaitsFor, k
    <2>4. CASE t = s /\ j = k
      BY <1>1, <1>4, <1>7, <2>4
    <2> QED
      BY <2>2, <2>3, <2>4
  <1>10. HeldCompatible'
    BY <1>1, <1>3, GrantKeeps
  <1>11. LedgerRanked' /\ WaiterLast' /\ FencesExclusive'
    BY <1>4, <1>5 DEF LInv, LedgerRanked, WaiterLast, FencesExclusive, Fences, HeldAs
  <1>12. SavedHeld'
    <2> SUFFICES ASSUME NEW t \in Session, saved[t] # NoSavepoint, NEW j \in Key,
                        saved[t].held[j] # "none"
                 PROVE  held'[t][j] = saved[t].held[j]
      BY <1>5 DEF LInv, SavedHeld, HeldAs
    <2>1. held[t][j] = saved[t].held[j]
      BY DEF LInv, SavedHeld
    <2> QED
      BY <1>2, <1>7, <2>1
  <1>13. QueueShape' /\ QueueFirst'
    BY <1>6, LeftQueue
  <1> QED
    BY <1>8, <1>9, <1>10, <1>11, <1>12, <1>13 DEF LInv

\* Rolling back to ledger l and locks h, a part of what s holds: to its savepoint,
\* or to nothing.
LEMMA RolledBack ==
  ASSUME LInv, NEW s \in Session, NEW l \in Ledger, NEW h \in Ledger, NEW n \in Nat,
         \A k \in Key : /\ h[k] = HeldAs(s, k, l[k])
                        /\ h[k] # "none" => held[s][k] = h[k]
                        /\ l[k] # "none" => Rank[k] <= n,
         \A k \in Fences : l[k] # "shared",
         ledger' = [ledger EXCEPT ![s] = l], held' = [held EXCEPT ![s] = h],
         last' = [last EXCEPT ![s] = n],
         pending' = [pending EXCEPT ![s] = NoWait], ahead' = Left(s),
         saved' = [saved EXCEPT ![s] = NoSavepoint]
  PROVE  LInv'
  <1>1. LockTypeOK'
    BY LeftType DEF LInv, LockTypeOK
  <1>2. LedgerHonest'
    BY DEF LInv, LockTypeOK, LedgerHonest, WaitsFor, HeldAs
  <1>3. HeldCompatible'
    <2> SUFFICES ASSUME NEW t \in Session, NEW u \in Session, NEW j \in Key, t # u
                 PROVE  ~ Conflict(held'[t][j], held'[u][j])
      BY DEF HeldCompatible
    <2>1. ~ Conflict(held[t][j], held[u][j])
      BY DEF LInv, HeldCompatible
    <2>2. \A v \in Session : held'[v][j] = "none" \/ held'[v][j] = held[v][j]
      BY DEF LInv, LockTypeOK
    <2> QED
      BY <2>1, <2>2 DEF Conflict
  <1>4. LedgerRanked'
    BY DEF LInv, LockTypeOK, LedgerRanked
  <1>5. WaiterLast'
    BY DEF LInv, LockTypeOK, WaiterLast, HeldAs
  <1>6. SavedHeld'
    BY DEF LInv, LockTypeOK, SavedHeld, HeldAs
  <1>7. FencesExclusive'
    BY FenceKeys DEF LInv, LockTypeOK, FencesExclusive, Fences
  <1>8. QueueShape' /\ QueueFirst'
    BY LeftQueue
  <1> QED
    BY <1>1, <1>2, <1>3, <1>4, <1>5, <1>6, <1>7, <1>8 DEF LInv

\* Setting or releasing a savepoint.
LEMMA SavepointKeeps ==
  ASSUME LInv, NEW s \in Session, SetSavepoint(s) \/ ReleaseSavepoint(s)
  PROVE  LInv'
  <1>1. UNCHANGED <<ledger, last, held, pending, ahead>> /\ pending[s] = NoWait
    BY DEF SetSavepoint, ReleaseSavepoint
  <1>2. LockTypeOK' /\ SavedHeld'
    <2>1. CASE SetSavepoint(s)
      <3> DEFINE p == [ledger |-> ledger[s], last |-> last[s], held |-> held[s]]
      <3>1. p \in Savepoint /\ p # NoSavepoint
        BY LockNulls DEF Savepoint, LInv, LockTypeOK
      <3>2. saved' = [saved EXCEPT ![s] = p]
        BY <2>1 DEF SetSavepoint
      <3>3. LockTypeOK'
        BY <1>1, <3>1, <3>2 DEF LInv, LockTypeOK
      <3>4. \A k \in Key : held[s][k] = HeldAs(s, k, ledger[s][k])
        BY <1>1 DEF LInv, LedgerHonest, WaitsFor
      <3>5. SavedHeld'
        <4> SUFFICES ASSUME NEW t \in Session, saved'[t] # NoSavepoint, NEW k \in Key
                     PROVE  /\ saved'[t].held[k] = HeldAs(t, k, saved'[t].ledger[k])
                            /\ saved'[t].held[k] # "none" => held[t][k] = saved'[t].held[k]
                            /\ saved'[t].ledger[k] # "none" => Rank[k] <= saved'[t].last
          BY <1>1 DEF SavedHeld, HeldAs
        <4>1. CASE t = s
          BY <3>2, <3>4, <4>1 DEF LInv, LockTypeOK, LedgerRanked
        <4>2. CASE t # s
          BY <3>2, <4>2 DEF LInv, LockTypeOK, SavedHeld
        <4> QED
          BY <4>1, <4>2
      <3> QED
        BY <3>3, <3>5
    <2>2. CASE ReleaseSavepoint(s)
      BY <1>1, <2>2 DEF LInv, LockTypeOK, SavedHeld, HeldAs, ReleaseSavepoint
    <2> QED
      BY <2>1, <2>2
  <1>3. /\ LedgerHonest' /\ HeldCompatible' /\ LedgerRanked' /\ WaiterLast'
        /\ QueueShape' /\ QueueFirst'
    BY <1>1 DEF LInv, LedgerHonest, HeldCompatible, LedgerRanked, WaiterLast,
                QueueShape, QueueFirst, WaitsFor, HeldAs
  <1>4. FencesExclusive'
    BY <1>1, FenceKeys DEF LInv, LockTypeOK, FencesExclusive, Fences,
                           SetSavepoint, ReleaseSavepoint
  <1> QED
    BY <1>2, <1>3, <1>4 DEF LInv

LEMMA LInit == Init => LInv
  <1> SUFFICES ASSUME Init PROVE LInv
    OBVIOUS
  <1>1. LockTypeOK
    BY NothingType DEF Init, LockTypeOK
  <1>2. /\ LedgerHonest /\ HeldCompatible /\ LedgerRanked /\ WaiterLast /\ SavedHeld
        /\ FencesExclusive
    BY FenceKeys DEF Init, Nothing, LedgerHonest, HeldAs, WaitsFor, HeldCompatible, Conflict,
                     LedgerRanked, WaiterLast, SavedHeld, FencesExclusive
  <1>3. QueueShape /\ QueueFirst
    BY DEF Init, QueueShape, QueueFirst
  <1> QED
    BY <1>1, <1>2, <1>3 DEF LInv

LEMMA LNext == LInv /\ [Next]_vars => LInv'
  <1> SUFFICES ASSUME LInv, [Next]_vars PROVE LInv'
    OBVIOUS
  <1>1. ASSUME NEW s \in Session, NEW k \in Key, NEW m \in Mode \ {"none"}, Acquire(s, k, m)
        PROVE  LInv'
    BY <1>1, RequestAsked, AskKeeps DEF Acquire, Requested
  <1>2. ASSUME NEW s \in Session, NEW k \in Key, NEW m \in Mode \ {"none"}, TryAcquire(s, k, m)
        PROVE  LInv'
    <2>1. CASE Grantable(s, k, m)
      BY <1>2, <2>1, RequestAsked, GrantedAtOnce DEF TryAcquire, Requested
    <2>2. CASE ~ Grantable(s, k, m)
      BY <1>2, <2>2, Unchanged DEF TryAcquire, vars
    <2> QED
      BY <2>1, <2>2
  <1>3. ASSUME NEW s \in Session, Wake(s) PROVE LInv'
    BY <1>3, WakeKeeps
  <1>4. ASSUME NEW s \in Session, SetSavepoint(s) \/ ReleaseSavepoint(s) PROVE LInv'
    BY <1>4, SavepointKeeps
  <1>5. ASSUME NEW s \in Session, RollbackToSavepoint(s) PROVE LInv'
    <2> DEFINE l == saved[s].ledger
               h == saved[s].held
    <2>1. saved[s] # NoSavepoint /\ saved[s] \in Savepoint
      BY <1>5 DEF RollbackToSavepoint, LInv, LockTypeOK
    <2>2. l \in Ledger /\ h \in Ledger /\ saved[s].last \in Nat
      BY <2>1 DEF Savepoint
    <2>3. \A k \in Key : /\ h[k] = HeldAs(s, k, l[k])
                         /\ h[k] # "none" => held[s][k] = h[k]
                         /\ l[k] # "none" => Rank[k] <= saved[s].last
      BY <2>1 DEF LInv, SavedHeld
    <2>4. \A k \in Fences : l[k] # "shared"
      BY <2>1 DEF LInv, FencesExclusive
    <2> QED
      BY <1>5, <2>2, <2>3, <2>4, RolledBack DEF RollbackToSavepoint
  <1>6. ASSUME NEW s \in Session, End(s) PROVE LInv'
    <2>1. /\ \A k \in Key : /\ Nothing[k] = HeldAs(s, k, Nothing[k])
                            /\ Nothing[k] # "none" => held[s][k] = Nothing[k]
                            /\ Nothing[k] # "none" => Rank[k] <= 0
          /\ \A k \in Fences : Nothing[k] # "shared"
      BY FenceKeys DEF Nothing, HeldAs
    <2>2. 0 \in Nat /\ Nothing \in Ledger
      BY NothingType
    <2> QED
      BY <1>6, <2>1, <2>2, RolledBack DEF End
  <1>7. ASSUME NEW s \in Session, Authorize(s) PROVE LInv'
    BY <1>7, AuthorizeKeeps
  <1>8. ASSUME NEW s \in Session, NEW k \in RowKey, Declare(s, k) PROVE LInv'
    BY <1>8, DeclareKeeps
  <1>9. CASE UNCHANGED vars
    BY <1>9, Unchanged
  <1> QED
    BY <1>1, <1>2, <1>3, <1>4, <1>5, <1>6, <1>7, <1>8, <1>9 DEF Next

LEMMA LInvariance == Spec => []LInv
  BY LInit, LNext, PTL DEF Spec

-----------------------------------------------------------------------------
(* Results *)

\* Type correctness (record_transaction_lock and its ledger).
THEOREM LockTypes == Spec => []LockTypeOK
  BY LInvariance, PTL DEF LInv

\* What the ledger lists is what PostgreSQL granted: fences shared, nothing for
\* rows, all else in the mode listed, after any mix of refused, busy and rolled
\* back requests (record_transaction_lock, authorize_worker_publication).
THEOREM LedgerIsHonest == Spec => []LedgerHonest
  BY LInvariance, PTL DEF LInv

\* Two transactions proceed under one lock only if both list it shared, or both
\* work for the run whose fence it is (authorize_worker_publication).
THEOREM LocksExclude == Spec => []Exclusion
  <1>1. ASSUME LInv, NEW s \in Session, NEW t \in Session, NEW k \in Key \ RowKey, s # t,
               ~ WaitsFor(s, k), ~ WaitsFor(t, k), Conflict(ledger[s][k], ledger[t][k])
        PROVE  Fence[s] = k /\ Fence[t] = k
    <2>1. /\ held[s][k] = HeldAs(s, k, ledger[s][k])
          /\ held[t][k] = HeldAs(t, k, ledger[t][k])
          /\ ~ Conflict(held[s][k], held[t][k])
      BY <1>1 DEF LInv, LedgerHonest, HeldCompatible
    <2>2. k \in Fences => ledger[s][k] # "shared" /\ ledger[t][k] # "shared"
      BY <1>1 DEF LInv, FencesExclusive
    <2>3. Fence[s] = k \/ Fence[t] = k => k \in Fences
      BY FenceType DEF Fences
    <2>4. ledger[s][k] \in Mode /\ ledger[t][k] \in Mode
      BY <1>1 DEF LInv, LockTypeOK, Ledger
    <2> QED
      BY <1>1, <2>1, <2>2, <2>3, <2>4 DEF HeldAs, Conflict, Mode
  <1>2. LInv => Exclusion
    BY <1>1 DEF Exclusion
  <1> QED
    BY <1>2, LInvariance, PTL

\* A waiter is blocked only by a session that waits for nothing, for a lock of
\* higher rank, or for the same lock but longer.
LEMMA BlockedBy ==
  ASSUME LInv, NEW s \in Session, NEW t \in Session, Blocks(t, s), pending[t] # NoWait
  PROVE  Rank[pending[s].key] < Rank[pending[t].key] \/ t \in ahead[s]
  <1> DEFINE k == pending[s].key
  <1>1. pending[s] # NoWait /\ k \in Key /\ pending[t].key \in Key
    BY DEF Blocks, LInv, LockTypeOK, Request
  <1>2. SUFFICES ASSUME Conflict(held[t][k], pending[s].mode)
                 PROVE  Rank[k] < Rank[pending[t].key]
    BY DEF Blocks
  <1>3. held[t][k] # "none"
    BY <1>2 DEF Conflict
  <1>4. pending[t].key # k /\ ledger[t][k] # "none"
    BY <1>1, <1>3 DEF LInv, LedgerHonest, WaitsFor, HeldAs
  <1>5. Rank[k] <= Rank[pending[t].key]
    BY <1>1, <1>4 DEF LInv, LedgerRanked, WaiterLast
  <1>6. Rank[k] \in Nat /\ Rank[pending[t].key] \in Nat
    BY <1>1, RankType
  <1> QED
    BY <1>1, <1>4, <1>5, <1>6, RankTotal

\* Among waiting sessions, some wait for a lock of the highest rank.
LEMMA HighestRank ==
  ASSUME LInv, NEW S \in SUBSET Session, S # {}, \A s \in S : pending[s] # NoWait
  PROVE  \E s \in S : \A t \in S : Rank[pending[t].key] <= Rank[pending[s].key]
  <1> DEFINE rank(s) == Rank[pending[s].key]
             higher(s) == {t \in S : rank(t) > rank(s)}
             T == {higher(s) : s \in S}
  <1>1. \A s \in S : rank(s) \in Nat
    BY RankType DEF LInv, LockTypeOK, Request
  <1> HIDE DEF rank
  <1>2. T # {} /\ T \subseteq FiniteSubsetsOf(Session)
    <2>1. T \subseteq SUBSET Session
      OBVIOUS
    <2>2. PICK s \in S : TRUE
      OBVIOUS
    <2>3. higher(s) \in T
      OBVIOUS
    <2> HIDE DEF T, higher
    <2>4. FiniteSubsetsOf(Session) = SUBSET Session
      BY SessionsFinite, FS_FiniteSubsetsOfFinite
    <2> QED
      BY <2>1, <2>3, <2>4
  <1>3. PICK x \in T : \A y \in T : <<y, x>> \notin StrictSubsetOrdering(Session)
    <2> HIDE DEF T
    <2> QED
      BY <1>2, FS_StrictSubsetOrderingWellFounded, WFMin
  <1>4. PICK s \in S : x = higher(s)
    BY <1>3
  <1>5. higher(s) = {}
    <2> SUFFICES ASSUME NEW t \in higher(s) PROVE FALSE
      OBVIOUS
    <2>1. higher(t) \subseteq higher(s)
      BY <1>1
    <2>2. t \in higher(s) /\ t \notin higher(t)
      BY <1>1
    <2>3. higher(t) \in T /\ higher(t) \in SUBSET Session /\ higher(s) \in SUBSET Session
      OBVIOUS
    <2>4. <<higher(t), higher(s)>> \in StrictSubsetOrdering(Session)
      BY <2>1, <2>2, <2>3 DEF StrictSubsetOrdering
    <2> QED
      BY <1>3, <1>4, <2>3, <2>4
  <1>6. \A t \in S : rank(t) <= rank(s)
    BY <1>1, <1>5
  <1> QED
    BY <1>6 DEF rank

\* No set of sessions waits only for itself (the class order of architecture.md
\* and the refusal of upgrades in record_transaction_lock).
THEOREM LocksDeadlockFree == Spec => []NoLockDeadlock
  <1>1. ASSUME LInv, NEW S \in SUBSET Session, S # {}, \A s \in S : pending[s] # NoWait
        PROVE  \E s \in S : \A t \in S : ~ Blocks(t, s)
    <2>1. PICK h \in S : \A t \in S : Rank[pending[t].key] <= Rank[pending[h].key]
      BY <1>1, HighestRank
    <2> DEFINE Q == {s \in S : pending[s].key = pending[h].key}
    <2>2. PICK s \in Q : ahead[s] \cap Q = {}
      <3>1. Q # {} /\ Q \in SUBSET Session
        OBVIOUS
      <3> HIDE DEF Q
      <3> QED
        BY <1>1, <3>1 DEF LInv, QueueFirst
    <2>3. ASSUME NEW t \in S, Blocks(t, s) PROVE FALSE
      <3>1. CASE t \in ahead[s]
        BY <1>1, <2>2, <3>1 DEF LInv, QueueShape
      <3>2. CASE Rank[pending[s].key] < Rank[pending[t].key]
        <4>1. Rank[pending[t].key] \in Nat /\ Rank[pending[h].key] \in Nat
          BY <1>1, RankType DEF LInv, LockTypeOK, Request
        <4> QED
          BY <2>1, <2>2, <3>2, <4>1
      <3> QED
        BY <1>1, <2>2, <2>3, <3>1, <3>2, BlockedBy
    <2> QED
      BY <2>2, <2>3
  <1>2. LInv => NoLockDeadlock
    BY <1>1 DEF NoLockDeadlock
  <1> QED
    BY <1>2, LInvariance, PTL

-----------------------------------------------------------------------------
(* The locks implement LockPromise *)

\* The place in the order that a ledger records is that of a lock it lists.
PlaceListed(listed, place) ==
    place = 0 \/ \E k \in Key : listed[k] # "none" /\ Rank[k] = place

\* What the ledger lists up to the place of a savepoint, the savepoint lists too.
SavedPrefix(s) ==
    /\ PlaceListed(saved[s].ledger, saved[s].last)
    /\ saved[s].last <= last[s]
    /\ \A k \in Key : ledger[s][k] # "none" /\ Rank[k] <= saved[s].last
          => saved[s].ledger[k] = ledger[s][k]

\* Rolling back to a savepoint is going back to a place in the order.
Prefixed ==
    \A s \in Session :
        /\ PlaceListed(ledger[s], last[s])
        /\ saved[s] # NoSavepoint => SavedPrefix(s)

LEMMA PrefixedInit == Init => Prefixed
  BY DEF Init, Prefixed, PlaceListed

\* A newly recorded lock lies behind every savepoint.
LEMMA PrefixedRecord ==
  ASSUME LInv, Prefixed, NEW s \in Session, NEW k \in Key, NEW m \in Mode \ {"none"},
         Allowed(s, k, m), Record(s, k, m), UNCHANGED saved
  PROVE  Prefixed'
  <1>0. /\ \A t \in Session \ {s} : ledger'[t] = ledger[t] /\ last'[t] = last[t]
        /\ \A j \in Key \ {k} : ledger'[s][j] = ledger[s][j]
        /\ ledger'[s][k] = IF ledger[s][k] # "none" THEN ledger[s][k] ELSE m
        /\ last'[s] = IF ledger[s][k] # "none" THEN last[s] ELSE Rank[k]
    BY RecordStep DEF LInv
  <1>1. CASE ledger[s][k] # "none"
    BY <1>1 DEF Record, Prefixed, SavedPrefix, PlaceListed
  <1>2. CASE ledger[s][k] = "none"
    <2>1. Rank[k] >= last[s] /\ last'[s] = Rank[k] /\ ledger'[s][k] # "none"
      BY <1>0, <1>2 DEF Allowed
    <2>2. PlaceListed(ledger'[s], last'[s])
      BY <2>1 DEF PlaceListed
    <2>3. ASSUME saved[s] # NoSavepoint PROVE SavedPrefix(s)'
      <3>1. SavedPrefix(s) /\ saved[s].last \in Nat /\ last[s] \in Nat /\ Rank[k] \in Nat \ {0}
        BY <2>3, RankType DEF Prefixed, LInv, LockTypeOK, Savepoint
      <3>2. ~ (Rank[k] <= saved[s].last)
        <4> SUFFICES ASSUME Rank[k] <= saved[s].last PROVE FALSE
          OBVIOUS
        <4>1. Rank[k] = last[s] /\ last[s] # 0
          BY <2>1, <3>1 DEF SavedPrefix
        <4>2. PICK j \in Key : ledger[s][j] # "none" /\ Rank[j] = last[s]
          BY <4>1 DEF Prefixed, PlaceListed
        <4> QED
          BY <1>2, <4>1, <4>2, RankTotal
      <3>3. saved'[s] = saved[s]
        OBVIOUS
      <3>4. saved[s].last <= last'[s]
        BY <2>1, <3>1 DEF SavedPrefix
      <3>5. ASSUME NEW j \in Key, ledger'[s][j] # "none", Rank[j] <= saved[s].last
            PROVE  saved[s].ledger[j] = ledger'[s][j]
        BY <1>0, <3>1, <3>2, <3>5 DEF SavedPrefix
      <3> QED
        BY <3>1, <3>3, <3>4, <3>5 DEF SavedPrefix
    <2>4. ASSUME NEW t \in Session \ {s}
          PROVE  PlaceListed(ledger'[t], last'[t]) /\ (saved'[t] # NoSavepoint => SavedPrefix(t)')
      BY <1>0 DEF Prefixed, SavedPrefix
    <2> QED
      BY <2>2, <2>3, <2>4 DEF Prefixed
  <1> QED
    BY <1>1, <1>2

LEMMA PrefixedNext == LInv /\ Prefixed /\ [Next]_vars => Prefixed'
  <1> SUFFICES ASSUME LInv, Prefixed, [Next]_vars PROVE Prefixed'
    OBVIOUS
  <1>1. ASSUME NEW s \in Session, NEW k \in Key, NEW m \in Mode \ {"none"}, Acquire(s, k, m)
        PROVE  Prefixed'
    BY <1>1, PrefixedRecord DEF Acquire, Requested, Ask
  <1>2. ASSUME UNCHANGED <<ledger, last, saved>> PROVE Prefixed'
    BY <1>2 DEF Prefixed, SavedPrefix
  <1>3. ASSUME NEW s \in Session, NEW k \in Key, NEW m \in Mode \ {"none"}, TryAcquire(s, k, m)
        PROVE  Prefixed'
    <2>1. CASE Grantable(s, k, m)
      BY <1>3, <2>1, PrefixedRecord DEF TryAcquire, Requested
    <2>2. CASE ~ Grantable(s, k, m)
      BY <1>2, <1>3, <2>2 DEF TryAcquire
    <2> QED
      BY <2>1, <2>2
  <1>4. ASSUME NEW s \in Session, Wake(s) PROVE Prefixed'
    BY <1>2, <1>4 DEF Wake
  <1>5. ASSUME NEW s \in Session, SetSavepoint(s) PROVE Prefixed'
    <2> DEFINE p == [ledger |-> ledger[s], last |-> last[s], held |-> held[s]]
    <2>1. UNCHANGED <<ledger, last>> /\ saved' = [saved EXCEPT ![s] = p]
      BY <1>5 DEF SetSavepoint
    <2>2. saved'[s] = p /\ \A t \in Session \ {s} : saved'[t] = saved[t]
      BY <2>1 DEF LInv, LockTypeOK
    <2>3. last[s] <= last[s]
      BY DEF LInv, LockTypeOK
    <2> QED
      BY <2>1, <2>2, <2>3 DEF Prefixed, SavedPrefix
  <1>6. ASSUME NEW s \in Session, ReleaseSavepoint(s) PROVE Prefixed'
    BY <1>6 DEF ReleaseSavepoint, LInv, LockTypeOK, Prefixed, SavedPrefix
  <1>7. ASSUME NEW s \in Session, RollbackToSavepoint(s) PROVE Prefixed'
    BY <1>7 DEF RollbackToSavepoint, LInv, LockTypeOK, Prefixed, SavedPrefix
  <1>8. ASSUME NEW s \in Session, End(s) PROVE Prefixed'
    BY <1>8 DEF End, LInv, LockTypeOK, Prefixed, SavedPrefix, PlaceListed
  <1>9. ASSUME NEW s \in Session, Authorize(s) PROVE Prefixed'
    BY <1>9, FenceAsked, PrefixedRecord DEF Authorize, Ask, Mode
  <1>10. ASSUME NEW s \in Session, NEW k \in RowKey, Declare(s, k) PROVE Prefixed'
    BY <1>10, FenceType, PrefixedRecord DEF Declare, Mode
  <1>11. CASE UNCHANGED vars
    BY <1>2, <1>11 DEF vars
  <1> QED
    BY <1>1, <1>3, <1>4, <1>5, <1>6, <1>7, <1>8, <1>9, <1>10, <1>11 DEF Next

\* PostgreSQL's grant of a lock is one of the promise, unless s had it already.
LEMMA GrantPromised ==
  ASSUME LInv, NEW s \in Session, NEW k \in Key, NEW m \in Mode \ {"none"},
         NoHolder(s, k, m), held' = Granted(s, k, m),
         held[s][k] = "none" => \A j \in Key : held[s][j] # "none" => Rank[j] < Rank[k],
         held[s][k] = "shared" => m = "shared"
  PROVE  Promise!Next \/ held' = held
  <1>1. CASE held[s][k] = "none"
    <2>1. held' = [held EXCEPT ![s][k] = m]
      BY <1>1 DEF Granted, LInv, LockTypeOK, Ledger
    <2>2. m \in {"shared", "exclusive"}
      BY DEF Mode
    <2>3. ASSUME NEW t \in Session \ {s}
          PROVE  held[t][k] = "none" \/ (m = "shared" /\ held[t][k] = "shared")
      <3>1. held[t][k] \in Mode /\ ~ Conflict(held[t][k], m)
        BY DEF NoHolder, LInv, LockTypeOK, Ledger
      <3> QED
        BY <2>2, <3>1 DEF Conflict, Mode
    <2>4. Promise!Grant(s, k, m)
      BY <1>1, <2>1, <2>3 DEF Promise!Grant, Promise!Compatible, Promise!Free
    <2> QED
      BY <2>2, <2>4 DEF Promise!Next
  <1>2. CASE held[s][k] # "none"
    <2>1. held[s][k] = IF held[s][k] = "exclusive" THEN held[s][k] ELSE m
      BY <1>2 DEF LInv, LockTypeOK, Ledger, Mode
    <2>2. held' \in [Session -> Ledger] /\ held \in [Session -> Ledger]
      BY GrantedType DEF LInv, LockTypeOK
    <2>3. \A t \in Session, j \in Key : held'[t][j] = held[t][j]
      BY <2>1, GrantedType DEF LInv
    <2>4. \A t \in Session : held'[t] = held[t]
      BY <2>2, <2>3 DEF Ledger
    <2> QED
      BY <2>2, <2>4
  <1> QED
    BY <1>1, <1>2

\* Every request granted at once, waiting or not; l is the mode it lists.
LEMMA RequestPromised ==
  ASSUME LInv, NEW s \in Session, NEW k \in Key, NEW l \in Mode \ {"none"},
         NEW m \in Mode \ {"none"}, HeldAs(s, k, l) = m,
         pending[s] = NoWait, Allowed(s, k, l), Grantable(s, k, m), held' = Granted(s, k, m)
  PROVE  Promise!Next \/ held' = held
  <1>1. \A j \in Key : held[s][j] = HeldAs(s, j, ledger[s][j])
    BY DEF LInv, LedgerHonest, WaitsFor
  <1>2. ASSUME held[s][k] = "none", NEW j \in Key, held[s][j] # "none"
        PROVE  Rank[j] < Rank[k]
    <2>1. ledger[s][k] = "none" /\ ledger[s][j] # "none"
      BY <1>1, <1>2 DEF HeldAs
    <2>2. Rank[j] <= last[s] /\ Rank[k] >= last[s] /\ j # k
      BY <2>1 DEF LInv, LedgerRanked, Allowed
    <2>3. Rank[j] \in Nat /\ Rank[k] \in Nat /\ last[s] \in Nat /\ Rank[j] # Rank[k]
      BY <2>2, RankType, RankTotal DEF LInv, LockTypeOK
    <2> QED
      BY <2>2, <2>3
  <1>3. held[s][k] = "shared" => m = "shared"
    BY <1>1 DEF Allowed, HeldAs
  <1> QED
    BY <1>2, <1>3, GrantPromised DEF Grantable

\* A request that waits changes nothing PostgreSQL holds.
LEMMA AskPromised ==
  ASSUME LInv, NEW s \in Session, NEW k \in Key, NEW l \in Mode \ {"none"},
         NEW m \in Mode \ {"none"}, HeldAs(s, k, l) = m,
         pending[s] = NoWait, Allowed(s, k, l), Ask(s, k, m)
  PROVE  Promise!Next \/ held' = held
  BY RequestPromised DEF Ask

\* The places in the order to which a transaction can go back.
Places == {0} \cup {Rank[k] : k \in Key}

\* What s holds up to r.
UpTo(s, r) == [k \in Key |-> IF Rank[k] > r THEN "none" ELSE held[s][k]]

\* Going back to r, a place in the order, gives back what ranks above r.
LEMMA ReleasePromised ==
  ASSUME LInv, NEW s \in Session, NEW r \in Places, held' = [held EXCEPT ![s] = UpTo(s, r)]
  PROVE  Promise!Next
  <1>1. Promise!Release(s, r)
    BY DEF UpTo, Promise!Release, LInv, LockTypeOK
  <1> QED
    BY <1>1 DEF Promise!Next, Places

\* A rollback to a savepoint keeps exactly what ranks up to its place.
LEMMA RollbackPromised ==
  ASSUME LInv, Prefixed, NEW s \in Session, RollbackToSavepoint(s)
  PROVE  Promise!Next
  <1> DEFINE p == saved[s]
  <1>1. p # NoSavepoint /\ p \in Savepoint /\ held' = [held EXCEPT ![s] = p.held]
    BY DEF RollbackToSavepoint, LInv, LockTypeOK
  <1>2. SavedPrefix(s) /\ p.held \in Ledger /\ p.last \in Nat
    BY <1>1 DEF Prefixed, Savepoint
  <1>3. p.last \in Places
    BY <1>2 DEF SavedPrefix, PlaceListed, Places
  <1>4. ASSUME NEW k \in Key
        PROVE  p.held[k] = IF Rank[k] > p.last THEN "none" ELSE held[s][k]
    <2>0. Rank[k] \in Nat
      BY RankType
    <2>1. /\ p.held[k] = HeldAs(s, k, p.ledger[k])
          /\ p.held[k] # "none" => held[s][k] = p.held[k]
          /\ p.ledger[k] # "none" => Rank[k] <= p.last
      BY <1>1 DEF LInv, SavedHeld
    <2>2. held[s][k] = "none" \/ held[s][k] = HeldAs(s, k, ledger[s][k])
      BY DEF LInv, LedgerHonest
    <2>3. ledger[s][k] # "none" /\ Rank[k] <= p.last => p.ledger[k] = ledger[s][k]
      BY <1>2 DEF SavedPrefix
    <2>4. \A m \in Mode : m = "none" => HeldAs(s, k, m) = "none"
      BY DEF HeldAs
    <2>5. ledger[s][k] \in Mode /\ p.ledger[k] \in Mode
      BY <1>1 DEF LInv, LockTypeOK, Ledger, Savepoint
    <2> HIDE DEF p
    <2> QED
      BY <1>2, <2>0, <2>1, <2>2, <2>3, <2>4, <2>5
  <1> HIDE DEF p
  <1>5. p.held = UpTo(s, p.last)
    BY <1>2, <1>4 DEF UpTo, Ledger
  <1> QED
    BY <1>1, <1>3, <1>5, ReleasePromised

\* The end of a transaction gives back everything.
LEMMA EndPromised == ASSUME LInv, NEW s \in Session, End(s) PROVE Promise!Next
  <1>1. held' = [held EXCEPT ![s] = Nothing] /\ 0 \in Places
    BY DEF End, Places
  <1>2. Nothing = UpTo(s, 0)
    BY RankType DEF Nothing, UpTo
  <1> QED
    BY <1>1, <1>2, ReleasePromised

\* Every step of the locks is a step of the promise or changes nothing in it.
LEMMA PromiseStep == LInv /\ Prefixed /\ [Next]_vars => [Promise!Next]_held
  <1> SUFFICES ASSUME LInv, Prefixed, [Next]_vars PROVE Promise!Next \/ held' = held
    OBVIOUS
  <1>1. ASSUME NEW s \in Session, NEW k \in Key, NEW m \in Mode \ {"none"}, Acquire(s, k, m)
        PROVE  Promise!Next \/ held' = held
    BY <1>1, RequestAsked, AskPromised DEF Acquire, Requested
  <1>2. ASSUME NEW s \in Session, NEW k \in Key, NEW m \in Mode \ {"none"}, TryAcquire(s, k, m)
        PROVE  Promise!Next \/ held' = held
    BY <1>2, RequestAsked, RequestPromised DEF TryAcquire, Requested
  <1>3. ASSUME NEW s \in Session, Wake(s) PROVE Promise!Next \/ held' = held
    <2> DEFINE k == pending[s].key
               m == pending[s].mode
    <2>1. /\ k \in Key /\ m \in Mode \ {"none"} /\ pending[s] # NoWait
          /\ NoHolder(s, k, m) /\ held' = Granted(s, k, m)
      BY <1>3 DEF Wake, LInv, LockTypeOK, Request
    <2>2. held[s][k] = "none"
      BY <2>1 DEF LInv, LedgerHonest, WaitsFor
    <2>3. ASSUME NEW j \in Key, held[s][j] # "none" PROVE Rank[j] < Rank[k]
      <3>1. ledger[s][j] # "none" /\ j # k
        BY <2>2, <2>3 DEF LInv, LedgerHonest, HeldAs
      <3>2. Rank[j] <= Rank[k] /\ Rank[j] # Rank[k]
        BY <2>1, <3>1, RankTotal DEF LInv, LedgerRanked, WaiterLast
      <3> QED
        BY <2>1, <3>2, RankType
    <2> HIDE DEF k, m
    <2> QED
      BY <2>1, <2>2, <2>3, GrantPromised
  <1>4. ASSUME NEW s \in Session, SetSavepoint(s) \/ ReleaseSavepoint(s) PROVE held' = held
    BY <1>4 DEF SetSavepoint, ReleaseSavepoint
  <1>5. ASSUME NEW s \in Session, RollbackToSavepoint(s) PROVE Promise!Next
    BY <1>5, RollbackPromised
  <1>6. ASSUME NEW s \in Session, End(s) PROVE Promise!Next
    BY <1>6, EndPromised
  <1>7. ASSUME NEW s \in Session, Authorize(s) PROVE Promise!Next \/ held' = held
    BY <1>7, FenceAsked, AskPromised DEF Authorize, Mode
  <1>8. ASSUME NEW s \in Session, NEW k \in RowKey, Declare(s, k) PROVE held' = held
    BY <1>8 DEF Declare
  <1>9. CASE UNCHANGED vars
    BY <1>9 DEF vars
  <1> QED
    BY <1>1, <1>2, <1>3, <1>4, <1>5, <1>6, <1>7, <1>8, <1>9 DEF Next

\* The ledger, the savepoints and PostgreSQL's queue implement the promise: locks
\* come in order, are never upgraded, and go from the last one on
\* (acquire_transaction_lock, record_transaction_lock).
THEOREM LocksKeepPromise == Spec => KeepsLockPromise
  <1>1. Init => Promise!Init
    BY DEF Init, Nothing, Promise!Init
  <1>2. Init => LInv /\ Prefixed
    BY LInit, PrefixedInit
  <1>3. LInv /\ Prefixed /\ [Next]_vars => (LInv /\ Prefixed)'
    BY LNext, PrefixedNext
  <1> QED
    BY <1>1, <1>2, <1>3, PromiseStep, PTL DEF Spec, KeepsLockPromise, Promise!Spec

=============================================================================
