----------------------------- MODULE MCScoring -----------------------------
(* One of the two measurements: the scored set, or the probe of a guideline. *)
(* No session is run on first_reading: its defects are named as those of     *)
(* stock_badge are, and what only it has, the non-defect, the self-check     *)
(* scores and no property speaks of.  That its diff proves nothing is        *)
(* assumed of the fixture, and so checked.                                   *)
EXTENDS Scoring, Probe

Argv(names, runs, control, record) == [names |-> names, runs |-> runs, control |-> control, record |-> record]
SomeArgvs == {
  Argv(<<"duplicate_rule">>, 2, FALSE, TRUE), Argv(<<"duplicate_rule">>, 1, TRUE, TRUE),
  Argv(<<"stock_badge">>, 1, FALSE, TRUE),
  Argv(<<"uncapped_reconstruction", "parallel_storefront">>, 1, FALSE, TRUE),
  Argv(<<"duplicate_rule", "no-such-case">>, 1, FALSE, FALSE)}

ASSUME SelfCheckPasses == scoreSelfCheck
ASSUME FirstReadingTakesLooking ==
  Proves(CASES.first_reading, buildPlainRepo(CASES.first_reading)) = {}

Init == ScoringInit /\ ProbeInit

Next ==
  \/ selfCheck /\ phase = "case" /\ tally.cases = 0 /\ ScoringNext /\ UNCHANGED probeVars
  \/ at = "start" /\ ProbeNext /\ UNCHANGED <<scoringVars, sessionVars>>

Spec == Init /\ [][Next]_<<scoringVars, sessionVars, probeVars>>
=============================================================================
