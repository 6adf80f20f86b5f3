---- MODULE MCProviderScopes ----
(***************************************************************************)
(* ProviderScopes with one scope of a current season, two runners and one  *)
(* administrator.                                                          *)
(***************************************************************************)
EXTENDS ProviderScopesProperties

CONSTANTS s1, r1, r2, o1

MCScope == {s1}
MCRunner == {r1, r2}
MCOperator == {o1}

=============================================================================
