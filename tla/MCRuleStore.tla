---------------------------- MODULE MCRuleStore -----------------------------
(* Two processes of one name, which has the name of a field in it.         *)
EXTENDS RuleStore
MCName == {<<"app", ".", "limit">>}
MCGlobals == {NoRule, [NoRule EXCEPT !.box = TRUE]}
MCOpening == {{}}

\* What is written is read back, for names that begin or end as others and as fields do; and every
\* loss that is shown.
Several == INSTANCE Settings WITH Name <- {<<"app">>, <<"app", ".", "limit">>, <<"global", ".", "box">>}
ASSUME FileReadBack ==
  \A g \in Rule, t \in [{<<"app">>, <<"app", ".", "limit">>, <<"global", ".", "box">>} -> Rule] :
    Several!LoadedGlobal(Several!Contents(g, t)) = g /\ Several!LoadedNames(Several!Contents(g, t)) = t
ASSUME LossesRead == LossesReadBack
=============================================================================
