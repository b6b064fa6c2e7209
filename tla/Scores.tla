-------------------------------- MODULE Scores --------------------------------
(***************************************************************************)
(* Scores of the evaluator in whole parts of a unit: +1.0 is Unit.  A      *)
(* result is the set of what it contributes, {} when contributes=False.    *)
(***************************************************************************)
EXTENDS Integers, FiniteSets, FiniteSetsExt, Functions

Unit == 600

\* max(-1, min(1, x)).
Clip(x) == IF x > Unit THEN Unit ELSE IF x < -Unit THEN -Unit ELSE x

\* The mean of the scores of some declarations, {} over none.
MeanOf(score) ==
    IF DOMAIN score = {} THEN {}
    ELSE {SumFunction(score) \div Cardinality(DOMAIN score)}

\* A penalty per violation, floored; without a violation it stays out.
Penalty(violations, per) ==
    IF violations = 0 THEN {}
    ELSE {IF -per * violations < -Unit THEN -Unit ELSE -per * violations}
=============================================================================
