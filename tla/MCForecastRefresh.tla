---- MODULE MCForecastRefresh ----
(***************************************************************************)
(* ForecastRefresh with one fixture, one team, two transactions and one    *)
(* batch at a time; for the items that are left behind two fixtures and    *)
(* for inputs that change back two teams, with one transaction each.       *)
(***************************************************************************)
EXTENDS ForecastRefreshProperties

CONSTANTS t1, t2, w1, w2, r1

MCFixture == 1 .. 2
MCOneFixture == {1}
MCTeam == {t1, t2}
MCOneTeam == {t1}
MCWriter == {w1, w2}
MCOneWriter == {w1}
MCRefresher == {r1}

=============================================================================
