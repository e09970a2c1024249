---------------------------- MODULE MCFileContents ----------------------------
(* FileContents for TLC: files of up to three runs that lie forwards and   *)
(* backwards on the volume, one of them sparse and one at the first        *)
(* cluster, with sizes that fill the last cluster, that do not, and that   *)
(* need less than is allocated; alone or beside a named stream.            *)
EXTENDS FileContents, FiniteSets

Run(first, length) == [lcn |-> first, length |-> length]

SomeRuns == {Run(11, 3), Run(2, 1), Run(4, 5), Run(VirtualFragment, 2), Run(0, 2)}

\* A file with no run twice.
Layouts == {runs \in UNION {[1..n -> SomeRuns] : n \in 1..3} : IsInjective(runs)}

Attribute(type, name, size, runs) ==
  [type |-> type, name |-> name, size |-> size, start |-> 0, runs |-> runs]

Data(runs, less) == Attribute("data", "", Total(runs, Len(runs)) * ClusterSize - less, runs)

Named(size, runs) == Attribute("data", "named", size, runs)

Files ==
  {<<Data(runs, less)>> : runs \in Layouts, less \in {0, 1}}
  \cup {<<Data(runs, 3), Named(3, <<Run(10, 1), Run(9, 1)>>)>> : runs \in {r \in Layouts : r # <<Run(2, 1)>>}}
  \cup {<<Data(<<Run(4, 5)>>, 1), Named(0, << >>)>>, << >>,
        <<Attribute("index", "", 4, <<Run(8, 2)>>), Attribute("bitmap", "", 1, <<Run(7, 1)>>)>>,
        <<Data(<<Run(4, 5)>>, -1), [Data(<<Run(2, 1)>>, 2) EXCEPT !.start = 5]>>}
=============================================================================
