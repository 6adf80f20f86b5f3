---- MODULE ForecastPromise ----
(***************************************************************************)
(* What the forecast worklist promises to the readers of forecasts,        *)
(* without generations, work items, transactions or batches: a fixture is  *)
(* stale from the moment at which something its forecast is made of        *)
(* changes, and it stops being stale when a forecast made of what is then  *)
(* known is published, or found to be published already.                   *)
(***************************************************************************)
CONSTANTS Fixture, Team, History

VARIABLES
    team,       \* team[f]: whose history the forecast of f is made of
    live,       \* live[f]: f is to be forecast
    history,    \* history[t]: what has been decided about t
    stale,      \* the fixtures whose forecast is to be made anew
    issued      \* issued[f]: the forecasts published for f

facts == <<team, live, history>>
vars == <<facts, stale, issued>>

Current(f) == <<team[f], history[team[f]]>>

Init ==
    /\ team \in [Fixture -> Team]
    /\ live = [f \in Fixture |-> FALSE]
    /\ history \in [Team -> History]
    /\ stale = {}
    /\ issued = [f \in Fixture |-> {}]

\* Facts change, for any fixtures and teams at once.  A live fixture that is not
\* stale afterwards was live before, and nothing that concerns it has changed.
ChangeFacts ==
    /\ team' \in [Fixture -> Team] /\ live' \in [Fixture -> BOOLEAN]
    /\ history' \in [Team -> History]
    /\ stale \subseteq stale' /\ stale' \subseteq Fixture
    /\ \A f \in Fixture : live'[f] /\ f \notin stale' => live[f] /\ Current(f)' = Current(f)
    /\ UNCHANGED issued

\* The fixtures F are dealt with: for the live ones there is a forecast made of
\* the present facts afterwards, and no other forecast appears.
Refresh(F) ==
    /\ stale' = stale \ F
    /\ issued' = [f \in Fixture |-> IF f \in F /\ live[f]
                                    THEN issued[f] \cup {Current(f)} ELSE issued[f]]
    /\ UNCHANGED facts

Next == ChangeFacts \/ \E F \in SUBSET stale : Refresh(F)

Spec == Init /\ [][Next]_vars

=============================================================================
