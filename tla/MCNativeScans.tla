---------------------------- MODULE MCNativeScans ----------------------------
(* NativeScans for TLC: three threads on rules with two slots, a            *)
(* namespace with a global rule, a rule on the entry point and one on      *)
(* module data; files with and without each, and one that cannot be read.  *)
EXTENDS NativeScans, TLC

CONSTANTS t1, t2, t3, e1, none

ThreeThreads == {t1, t2, t3}
OneEntry   == {e1}

ThreadSymmetry == Permutations(ThreeThreads)

RuleOf(asks, global, private, ns) == [asks |-> asks, global |-> global, private |-> private, ns |-> ns]

MixedRules == << RuleOf("string", TRUE, TRUE, 1), RuleOf("string", FALSE, FALSE, 1),
                 RuleOf("entry", FALSE, FALSE, 2), RuleOf("module", FALSE, FALSE, 3) >>

Plain(strings) == [readable |-> TRUE, strings |-> strings, entry |-> none]
Program        == [readable |-> TRUE, strings |-> {2}, entry |-> e1]
Unreadable     == [readable |-> FALSE, strings |-> {1, 2}, entry |-> e1]

SomeFiles == { [blocks |-> <<Plain({1, 2})>>, data |-> "no"],
               [blocks |-> <<Unreadable, Program>>, data |-> "yes"] }
=============================================================================
