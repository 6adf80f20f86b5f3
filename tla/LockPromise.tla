---- MODULE LockPromise ----
(***************************************************************************)
(* What ordered transaction locks promise to the transactions that take    *)
(* them, without ledger, queue or savepoints: a transaction gets its locks *)
(* in the order of their ranks, never in conflict with another one, keeps  *)
(* each in the mode in which it got it, and gives them back from the last  *)
(* one on.                                                                 *)
(***************************************************************************)
EXTENDS Naturals

CONSTANTS Session, Key, Rank

VARIABLE owned      \* owned[s][k]: "none", "shared" or "exclusive"

Free(s, k) == owned[s][k] = "none"

Compatible(s, k, m) ==
    \A t \in Session \ {s} :
        \/ Free(t, k)
        \/ m = "shared" /\ owned[t][k] = "shared"

Init == owned = [s \in Session |-> [k \in Key |-> "none"]]

Grant(s, k, m) ==
    /\ Free(s, k) /\ Compatible(s, k, m)
    /\ \A j \in Key : ~ Free(s, j) => Rank[j] < Rank[k]
    /\ owned' = [owned EXCEPT ![s][k] = m]

\* s gives back every lock that ranks above r, and no other.
Release(s, r) ==
    owned' = [owned EXCEPT ![s] = [k \in Key |-> IF Rank[k] > r THEN "none" ELSE @[k]]]

Next ==
    \/ \E s \in Session, k \in Key, m \in {"shared", "exclusive"} : Grant(s, k, m)
    \/ \E s \in Session, r \in {0} \cup {Rank[k] : k \in Key} : Release(s, r)

Spec == Init /\ [][Next]_owned

=============================================================================
