---- MODULE HistoryPromise ----
(***************************************************************************)
(* What the history queue promises to the operators who read it, without   *)
(* workers, leases, bindings or drafts: a job has one request at a time, a *)
(* request is decided once, its decision is what the row shows, and a job  *)
(* is asked for anew only when the row shows that its request has ended.   *)
(* A row may miss one decision only, a cancellation, and shows it later.   *)
(***************************************************************************)
EXTENDS Naturals

CONSTANTS Job, Request

VARIABLES
    asked,      \* asked[j]: the number of the present request of job j, 0 for none
    shown,      \* shown[j]: what its row shows: "none", "open", "SUCCEEDED" or "FAILED"
    decision    \* decision[j][q]: "open" or how request q of j was decided

vars == <<asked, shown, decision>>

\* What is shown of decision d.
Shown(d) == IF d = "CANCELLED" THEN "FAILED" ELSE d

\* A queue may start with open requests.
Init ==
    /\ asked \in [Job -> {0, 1}]
    /\ shown = [j \in Job |-> IF asked[j] = 0 THEN "none" ELSE "open"]
    /\ decision = [j \in Job |-> [q \in Request |-> "open"]]

\* An operator run asks for jobs, whose requests have all ended.
Ask(J) ==
    /\ \A j \in J : shown[j] # "open"
    /\ asked' = [j \in Job |-> IF j \in J THEN asked[j] + 1 ELSE asked[j]]
    /\ shown' = [j \in Job |-> IF j \in J THEN "open" ELSE shown[j]]
    /\ UNCHANGED decision

Decide(j, d) ==
    /\ shown[j] = "open" /\ decision[j][asked[j]] = "open"
    /\ decision' = [decision EXCEPT ![j][asked[j]] = d]
    /\ shown' = [shown EXCEPT ![j] = Shown(d)]
    /\ UNCHANGED asked

\* The request is cancelled and its row does not show it yet.
CancelUnseen(j) ==
    /\ shown[j] = "open" /\ decision[j][asked[j]] = "open"
    /\ decision' = [decision EXCEPT ![j][asked[j]] = "CANCELLED"]
    /\ UNCHANGED <<asked, shown>>

ShowCancelled(j) ==
    /\ shown[j] = "open" /\ decision[j][asked[j]] = "CANCELLED"
    /\ shown' = [shown EXCEPT ![j] = "FAILED"]
    /\ UNCHANGED <<asked, decision>>

Next ==
    \/ \E J \in SUBSET Job : Ask(J)
    \/ \E j \in Job, d \in {"SUCCEEDED", "FAILED", "CANCELLED"} : Decide(j, d)
    \/ \E j \in Job : CancelUnseen(j) \/ ShowCancelled(j)

Spec == Init /\ [][Next]_vars

=============================================================================
