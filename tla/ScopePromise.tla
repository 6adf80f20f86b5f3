---- MODULE ScopePromise ----
(***************************************************************************)
(* What the claims of provider scopes promise, without runners, items or   *)
(* leases: every claim of a scope is numbered above the claims before it,  *)
(* none is taken over while it is live, everything committed for the scope *)
(* is committed under its live claim, and once the work of a claim was     *)
(* cancelled nothing is committed under it and the scope is not claimed    *)
(* again unless it has been reopened.                                      *)
(***************************************************************************)
EXTENDS Naturals

CONSTANTS Scope, Token, NoToken

VARIABLES
    claim,      \* claim[s]: the last claim of scope s
    held,       \* held[s]: that claim is "live", "lapsed" or over ("free")
    cancelled,  \* cancelled[s]: its work was cancelled
    reopened,   \* reopened[s]: s has been asked for since it was last claimed
    committed   \* committed[s]: the claims under which something was committed

vars == <<claim, held, cancelled, reopened, committed>>

\* Claims are numbered by the item they lease and, for one item, by its attempts.
Later(t, u) == t.item > u.item \/ (t.item = u.item /\ t.attempt > u.attempt)

Init ==
    /\ claim = [s \in Scope |-> NoToken]
    /\ held = [s \in Scope |-> "free"]
    /\ cancelled = [s \in Scope |-> FALSE]
    /\ reopened = [s \in Scope |-> FALSE]
    /\ committed = [s \in Scope |-> {}]

\* Scopes without a claim are asked for.
Reopen(S) ==
    /\ \A s \in S : held[s] = "free"
    /\ reopened' = [s \in Scope |-> reopened[s] \/ s \in S]
    /\ UNCHANGED <<claim, held, cancelled, committed>>

\* The scope is claimed, or taken over.
Claim(s, t) ==
    /\ held[s] # "live" /\ Later(t, claim[s])
    /\ cancelled[s] => reopened[s]
    /\ claim' = [claim EXCEPT ![s] = t]
    /\ held' = [held EXCEPT ![s] = "live"]
    /\ cancelled' = [cancelled EXCEPT ![s] = FALSE]
    /\ reopened' = [reopened EXCEPT ![s] = FALSE]
    /\ UNCHANGED committed

Lapse(s) ==
    /\ held[s] = "live"
    /\ held' = [held EXCEPT ![s] = "lapsed"]
    /\ UNCHANGED <<claim, cancelled, reopened, committed>>

\* A publication, or, with h "free", the outcome.
Commit(s, h) ==
    /\ held[s] = "live" /\ ~ cancelled[s]
    /\ h \in {"live", "free"}
    /\ committed' = [committed EXCEPT ![s] = @ \cup {claim[s]}]
    /\ held' = [held EXCEPT ![s] = h]
    /\ UNCHANGED <<claim, cancelled, reopened>>

\* The cancellation ends the claim, or leaves it to its holder.
Cancel(s, h) ==
    /\ ~ cancelled[s]
    /\ h \in {held[s], "free"}
    /\ cancelled' = [cancelled EXCEPT ![s] = TRUE]
    /\ held' = [held EXCEPT ![s] = h]
    /\ UNCHANGED <<claim, reopened, committed>>

\* The holder ends a cancelled claim.
Release(s) ==
    /\ held[s] # "free" /\ cancelled[s]
    /\ held' = [held EXCEPT ![s] = "free"]
    /\ UNCHANGED <<claim, cancelled, reopened, committed>>

Next ==
    \/ \E S \in SUBSET Scope : Reopen(S)
    \/ \E s \in Scope :
        \/ \E t \in Token : Claim(s, t)
        \/ \E h \in {"live", "lapsed", "free"} : Commit(s, h) \/ Cancel(s, h)
        \/ Lapse(s) \/ Release(s)

Spec == Init /\ [][Next]_vars

=============================================================================
