---------------------------- MODULE MCYaraRuleCache ----------------------------
(* YaraRuleCache for TLC: three rule files, of which two clash, and lists of *)
(* filters that select different collections for three kinds of file.       *)
EXTENDS YaraRuleCache

CONSTANTS r1, r2, r3

ThreeRuleFiles == {r1, r2, r3}
ClashingPair   == {{r2, r3}}

Filter(type, value, rules) == [FilterType |-> type, FilterValue |-> value, OnMatchRules |-> rules]

\* A program with another extension, a document, and a file nobody can read.
Program  == [ext |-> "scr", mime |-> "image", pe |-> TRUE, size |-> "small",
             readable |-> TRUE, blocked |-> FALSE, hits |-> {<<r1, 0>>, <<r2, 0>>, <<r2, 1>>}]
Document == [ext |-> "doc", mime |-> "text", pe |-> FALSE, size |-> "large",
             readable |-> TRUE, blocked |-> FALSE, hits |-> {<<r1, 1>>, <<r3, 0>>}]
Locked   == [ext |-> "doc", mime |-> "text", pe |-> FALSE, size |-> "small",
             readable |-> FALSE, blocked |-> FALSE, hits |-> {<<r3, 1>>}]
Empty    == [Document EXCEPT !.size = "empty"]

Files == {Program, Document, Locked, Empty}

\* By kind with a fallback; by extension and for all files, with a clash.
ByKind == {Filter("IsPeFile", "", {r1, r2}), Filter("MimeType", "text", {r1}),
           Filter("ElseNoMatch", "", {r3})}
ByName == {Filter("FileExtension", "doc", {r3}), Filter("AlwaysRun", "", {r2})}
Lists  == {ByKind, ByName, {}}
=============================================================================
