---------------------------- MODULE ConditionTrees ----------------------------
(* Conditions written as trees, for TLC's runs, and the nodes that the     *)
(* parser makes of them in the order in which it reduces them.             *)
EXTENDS Integers, Sequences, SequencesExt

NoValue == -9

Tree(op, arg, parts) ==
  LET size[k \in 0..Len(parts)] == IF k = 0 THEN 1 ELSE size[k - 1] + parts[k].size IN
  [op |-> op, arg |-> arg, parts |-> parts, size |-> size[Len(parts)]]

N(n) == Tree("value", n, << >>)
Undef == N(NoValue)
V(i) == Tree("var", i, << >>)
\* A string, or the `$' of the innermost loop over strings.
S(s) == Tree(IF s = 0 THEN "this" ELSE "string", s, << >>)
Found(s) == Tree("found", 0, <<S(s)>>)
Count(s) == Tree("count", 0, <<S(s)>>)
At(s, e) == Tree("at", 0, <<e, S(s)>>)
In(s, e, f) == Tree("in", 0, <<e, f, S(s)>>)
Offset(s, e) == Tree("offset", 0, <<e, S(s)>>)
Length(s, e) == Tree("length", 0, <<e, S(s)>>)
Byte(e) == Tree("byte", 0, <<e>>)
Not(e) == Tree("not", 0, <<e>>)
Both(e, f) == Tree("and", 0, <<e, f>>)
Either(e, f) == Tree("or", 0, <<e, f>>)
Add(e, f) == Tree("add", 0, <<e, f>>)
Le(e, f) == Tree("le", 0, <<e, f>>)
Eq(e, f) == Tree("eq", 0, <<e, f>>)
RuleNo(r) == Tree("rule", r, << >>)
Set(set) == [k \in DOMAIN set |-> Tree("member", set[k], << >>)]
OfSet(q, set) == Tree("of", 0, <<q, Undef>> \o Set(set))
Ranged(q, e, f, body) == Tree("range", 0, <<q, Undef, e, f, body>>)
Each(q, items, body) == Tree("each", 0, <<q, Undef>> \o items \o <<body>>)
Strings(q, set, body) == Each(q, Set(set), body)
All == Undef
Some == N(1)

\* The nodes of a tree that comes after `before' others, `this' being the
\* innermost loop over strings among those around.
RECURSIVE Nodes(_, _, _, _)
Nodes(tree, before, loops, this) ==
  LET parts == tree.parts
      last[k \in 0..Len(parts)] == IF k = 0 THEN before ELSE last[k - 1] + parts[k].size
      body(k) == tree.op \in {"each", "range"} /\ k = Len(parts)
      piece(k) == Nodes(parts[k], last[k - 1],
                        IF body(k) THEN Append(loops, before + tree.size) ELSE loops,
                        IF body(k) /\ parts[3].op = "member" THEN Len(loops) + 1 ELSE this)
  IN Append(FlattenSeq([k \in DOMAIN parts |-> piece(k)]),
            [op |-> tree.op, arg |-> IF tree.op = "this" THEN this ELSE tree.arg,
             of |-> [k \in DOMAIN parts |-> last[k]], loops |-> loops])

RuleOf(strings, condition) ==
  [nodes |-> Nodes(condition, 0, << >>, 0), disabled |-> FALSE, strings |-> strings]
RuleWith(condition) == RuleOf({1, 2}, condition)

\* Rules of their own.
Conditions ==
  << Both(Found(1), Not(Found(2))),
     Either(Both(Found(1), Undef), At(2, N(1))),
     Either(Undef, Found(1)), Either(Found(1), Undef), Not(Both(Undef, Found(1))), Not(Both(Found(1), Undef)),
     Not(Either(Undef, Undef)), Either(Both(Found(1), Undef), Either(Undef, Found(2))), Either(Le(N(1), Undef), Both(Either(Found(1), Found(2)), Found(2))),
     \* one offset asked for, another as well, an unknown one, and more than that
     At(1, N(1)), Either(At(1, N(1)), At(1, N(3))), Either(At(1, Add(N(0), N(1))), At(1, Add(N(2), Undef))),
     Both(At(1, Byte(N(0))), At(1, N(1))), Either(At(1, N(3)), In(1, N(1), N(2))),
     Either(At(1, N(1)), Le(N(2), Count(1))),
     Strings(Some, <<1, 2>>, At(0, N(1))), Strings(All, <<1, 2>>, At(0, Byte(N(0)))),
     Both(At(1, N(3)), Strings(Some, <<2>>, At(0, N(1)))), Either(Strings(Some, <<2>>, At(0, N(1))), At(1, N(3))),
     \* sets of strings and numbers, with what quantifies them
     OfSet(Some, <<1, 2>>), OfSet(All, <<1, 2>>), OfSet(Count(1), <<1, 2, 2>>),
     Each(N(2), <<N(3), N(1), Byte(N(0)) >>, At(1, V(1))),
     Each(All, <<N(1), N(3)>>, Either(At(1, V(1)), At(2, V(1)))),
     Ranged(All, N(1), Count(1), Le(N(1), Offset(1, V(1)))),
     Ranged(Count(2), N(0), N(3), In(1, V(1), Add(V(1), N(1)))),
     Ranged(Some, N(2), Undef, Eq(Byte(V(1)), Length(1, N(1)))), Ranged(Some, Undef, N(1), At(1, V(1))),
     \* a list whose last value is none, and what the code gets wrong: another
     \* value that is none, and numbers to be counted
     Each(Some, <<N(1), Undef>>, At(1, V(1))), Each(All, <<N(3), Undef, N(1)>>, At(1, V(1))),
     Ranged(N(3), N(1), N(2), V(1)),
     Ranged(Some, N(1), N(3), Both(At(1, V(1)), Either(Le(V(1), Undef), Found(2)))),
     \* loops in loops
     Ranged(All, N(1), Count(1), Ranged(Some, N(1), Count(2), Le(Offset(1, V(1)), Offset(2, V(2))))),
     Strings(Some, <<1, 2>>, Ranged(All, N(1), Count(0), Eq(Byte(Offset(0, V(2))), V(2)))),
     Ranged(N(2), N(0), N(2), Strings(Some, <<2, 1>>, Both(At(0, V(1)), Each(All, <<N(0), V(1)>>, Not(Eq(V(3), N(1))))))),
     Ranged(Some, N(0), N(1), Each(All, <<V(1), N(1)>>, Ranged(N(1), V(1), V(2), Either(At(1, V(3)), At(2, V(2)))))) >>

\* A sum that needs one place more than the stack has.
TooDeep == <<RuleWith(Eq(N(9), Add(N(1), Add(N(1), Add(N(1), Add(N(1), Add(N(1), Add(N(1), Add(N(1), N(1))))))))))>>

\* Rules that ask for rules, and one that is disabled.
Referring ==
  << <<RuleWith(Both(Found(1), Found(2))), RuleOf({3}, Either(RuleNo(1), At(3, N(3))))>>,
     <<RuleOf({1}, Found(1)), [RuleOf({2}, Found(2)) EXCEPT !.disabled = TRUE],
       RuleOf({3}, Either(RuleNo(2), Ranged(All, N(0), N(1), Both(RuleNo(1), At(3, V(1))))))>> >>

TreeCases == [n \in DOMAIN Conditions |-> <<RuleWith(Conditions[n])>>] \o Referring \o <<TooDeep>>

=============================================================================
