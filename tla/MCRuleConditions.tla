--------------------------- MODULE MCRuleConditions ---------------------------
(* RuleConditions for TLC: rules with every kind of condition, alone and   *)
(* inside of others, on two strings and a file of four bytes.  Conditions  *)
(* are written as trees and laid out as the parser reduces them.           *)
EXTENDS ConditionTrees, RuleConditions

\* In a LET, which TLC's coverage does not expand wherever the cases are used.
SomeCases == LET cases == TreeCases IN cases

M(offset, length) == [offset |-> offset, length |-> length]

SomeFindings == {<< >>, <<M(1, 1)>>, <<M(3, 2)>>, <<M(0, 2), M(1, 3)>>, <<M(1, 2), M(2, 1), M(3, 2)>>}

FourBytes == <<1, 2, 0, 3>>

=============================================================================
