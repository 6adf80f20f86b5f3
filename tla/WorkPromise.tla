---- MODULE WorkPromise ----
(***************************************************************************)
(* What the shared work queue promises to the rest of the system, without  *)
(* leases, attempts or workers: a request is accepted once, it is decided  *)
(* once, and its effects appear exactly when it is decided as succeeded,   *)
(* after everything it depends on has succeeded.                           *)
(***************************************************************************)
CONSTANT Work

VARIABLES
    outcome,    \* outcome[w]: "absent", "open", "succeeded" or "dropped"
    needs,      \* needs[w]: the requests w depends on
    effect      \* effect[w]: the published results of w are visible

vars == <<outcome, needs, effect>>

Accepted == {w \in Work : outcome[w] # "absent"}

Init ==
    /\ outcome = [w \in Work |-> "absent"]
    /\ needs = [w \in Work |-> {}]
    /\ effect = [w \in Work |-> FALSE]

\* Requests naming only accepted requests are accepted.
Accept(w, D) ==
    /\ outcome[w] = "absent"
    /\ D \subseteq Accepted
    /\ outcome' = [outcome EXCEPT ![w] = "open"]
    /\ needs' = [needs EXCEPT ![w] = D]
    /\ UNCHANGED effect

Succeed(w) ==
    /\ outcome[w] = "open"
    /\ \A u \in needs[w] : outcome[u] = "succeeded"
    /\ outcome' = [outcome EXCEPT ![w] = "succeeded"]
    /\ effect' = [effect EXCEPT ![w] = TRUE]
    /\ UNCHANGED needs

\* w succeeds and hands on: one step makes its effects and request v visible.
SucceedAndRequest(w, v, D) ==
    /\ outcome[w] = "open"
    /\ outcome[v] = "absent"
    /\ D \subseteq Accepted
    /\ \A u \in needs[w] : outcome[u] = "succeeded"
    /\ outcome' = [outcome EXCEPT ![w] = "succeeded", ![v] = "open"]
    /\ effect' = [effect EXCEPT ![w] = TRUE]
    /\ needs' = [needs EXCEPT ![v] = D]

Drop(w) ==
    /\ outcome[w] = "open"
    /\ outcome' = [outcome EXCEPT ![w] = "dropped"]
    /\ UNCHANGED <<needs, effect>>

\* A claim may fail an exhausted request while it hands out another one, so
\* a step of the queue drops at most one request.
Next ==
    \/ \E w \in Work, D \in SUBSET Work : Accept(w, D)
    \/ \E w \in Work : Succeed(w)
    \/ \E w, v \in Work, D \in SUBSET Work : SucceedAndRequest(w, v, D)
    \/ \E w \in Work : Drop(w)

Spec == Init /\ [][Next]_vars

=============================================================================
