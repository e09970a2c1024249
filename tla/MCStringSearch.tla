---------------------------- MODULE MCStringSearch ----------------------------
(* StringSearch for TLC: four bytes - zero, a letter in both cases and the *)
(* end of a line - and atoms of two bytes.                                 *)
EXTENDS StringSearch

CONSTANT anywhere

SmallToLarge == [b \in Byte |-> IF b = 2 THEN 1 ELSE b]

String(kind, body, modifiers) ==
  [kind |-> kind, body |-> body, at |-> anywhere, dotall |-> "dotall" \in modifiers,
   ascii |-> "ascii" \in modifiers, wide |-> "wide" \in modifiers, nocase |-> "nocase" \in modifiers,
   xor |-> "xor" \in modifiers, fullword |-> "fullword" \in modifiers]

Literal(text, modifiers) == String("text", text, modifiers)
Plain(text) == Literal(text, {})

\* Trees, with the names of the operators of an expression.
L(b)        == [op |-> "literal", byte |-> b]
Dot         == [op |-> "any"]
Set(bytes)  == [op |-> "set", bytes |-> bytes]
Class(bytes, negated) == [op |-> "class", bytes |-> bytes, negated |-> negated]
Cat(res)    == Concat(res)
Alt(l, r)   == [op |-> "alt", left |-> l, right |-> r]
Star(re)    == [op |-> "star", left |-> re, greedy |-> TRUE]
Plus(re)    == [op |-> "plus", left |-> re, greedy |-> TRUE]
Repeat(re, n, m) == [op |-> "range", left |-> re, min |-> n, max |-> m, greedy |-> TRUE]
Dots(n, m)  == [op |-> "range_any", min |-> n, max |-> m, greedy |-> TRUE]
At(place)   == [op |-> place]
Lazy(re)    == [re EXCEPT !.greedy = FALSE]

Expression(re) == String("regexp", re, {})
Hex(res)    == String("hex", Concat(res), {})

Blocks(bytes, lengths) == UNION {[1..n -> bytes] : n \in lengths}

Modifiers == <<"ascii", "wide", "nocase", "xor", "fullword">>

\* All sets of modifiers, one after the other.
ModifierSets == [n \in 1..32 |-> {Modifiers[i] : i \in {i \in 1..5 : Bit(n - 1, i - 1) = 1}}]

OnBlocks(searches, bytes) == [n \in DOMAIN searches |-> [strings |-> searches[n], data |-> bytes]]

EachLiteral(part) == [n \in 1..32 |-> <<Literal(part, ModifierSets[n])>>]

\* What surrounds a text and its xored forms.
Around(text, keys) ==
  {a \o Xored(text, k) \o b : a \in Blocks({0, 1, 3}, {0, 2}), b \in Blocks({0, 1, 3}, {0, 1, 2}), k \in keys}

\* Literals of a length short enough for a wide atom, as long as an atom,
\* and longer, whose atom begins anywhere.
Short == OnBlocks(EachLiteral(<<1>>), Blocks(Byte, {0, 1, 3}) \cup Blocks({0, 1}, {4}))

Exact == OnBlocks(EachLiteral(<<1, 3>>), Blocks(Byte, {3}) \cup Blocks({0, 1, 3}, {4}))

Long3 == OnBlocks(EachLiteral(<<1, 3, 2>>), Around(Widened(<<1, 3, 2>>), {0, 2}) \cup Around(<<1, 3, 1>>, {0, 3}))

\* Atoms inside of each other, expressions without atoms and fixed offsets in
\* one automaton.
Shared ==
  OnBlocks(<< <<Plain(<<1>>), Plain(<<3, 1>>), Plain(<<1, 3, 1>>)>>,
              <<Expression(Set({1, 2})), Plain(<<1, 1>>), Expression(Cat(<<Dot, Class({1, 3}, FALSE)>>))>>,
              <<Plain(<<1, 1>>), Plain(<<1, 3, 1>>), Plain(<<3, 1, 2>>), Plain(<<2>>)>>,
              <<[Plain(<<3, 1>>) EXCEPT !.at = 1], [Plain(<<1>>) EXCEPT !.at = 0]>> >>,
           Blocks({1, 2, 3}, {2, 5}))

Chains ==
  OnBlocks(<< <<Hex(<<L(1), Lazy(Dots(0, 2)), L(3)>>)>>,
              <<Hex(<<L(1), Lazy(Dots(1, 2)), L(1)>>)>>,
              <<Hex(<<L(1), Lazy(Dots(0, 2)), L(2), Lazy(Dots(0, 2)), L(3)>>)>>,
              <<Hex(<<L(1), Lazy(Dots(0, 3)), L(2), Lazy(Dots(0, 1)), L(3)>>)>>,
              <<Hex(<<L(1), Lazy(Dots(1, 2)), L(2), L(2), Lazy(Dots(1, 2)), L(1)>>)>> >>,
           Blocks({1, 2, 3}, {6}))

\* Expressions with every operator: their atoms before, inside of and behind
\* what repeats, in each branch, or nowhere.
Trees ==
  << Cat(<<Plus(L(1)), L(2)>>),
     Cat(<<L(1), Star(Dot), L(2)>>),
     Cat(<<L(1), Alt(L(2), Cat(<<L(3), L(1)>>)), Repeat(L(1), 0, 1)>>),
     Cat(<<L(3), Repeat(L(1), 1, 3), L(2)>>),
     Cat(<<Repeat(Alt(L(1), L(2)), 2, 4), L(3)>>),
     Cat(<<L(2), Lazy(Repeat(Cat(<<L(1), L(2)>>), 1, 3)), Set({1, 3})>>),
     Cat(<<At("boundary"), L(1), Star(Set({1, 2})), At("boundary")>>),
     Cat(<<At("start"), Alt(L(1), L(2)), Plus(Class({3}, TRUE)), At("end")>>),
     Cat(<<L(1), At("nonboundary"), Class({1, 2}, FALSE), Lazy(Plus(L(1)))>>),
     Cat(<<L(1), Dots(1, 3), L(2)>>),
     Plus(Alt(Cat(<<L(1), L(3)>>), L(2))),
     Cat(<<Dot, Repeat(Cat(<<L(1), Plus(L(2))>>), 2, 3)>>),
     Lazy(Plus(Set({1, 2}))),
     Cat(<<Plus(At("boundary")), L(1)>>) >>

Single ==
  OnBlocks([n \in DOMAIN Trees |-> <<Expression(Trees[n])>>], Blocks({1, 2, 3}, {1, 3, 5}))

\* Modifiers of expressions.
Modified ==
  OnBlocks(<< <<String("regexp", Cat(<<L(1), Plus(Class({2}, FALSE))>>), {"nocase"}),
                String("regexp", Cat(<<L(1), Star(Dot), L(2)>>), {"dotall"})>>,
              <<String("regexp", Cat(<<Class({1, 2}, FALSE), L(1)>>), {"fullword"}),
                String("regexp", Cat(<<At("boundary"), Plus(Set({1, 2})), At("boundary")>>), {"fullword"})>> >>,
           Blocks({1, 2, 3}, {1, 4}))
  \o OnBlocks(<< <<String("regexp", Cat(<<L(1), Alt(L(3), Plus(Set({1})))>>), {"wide"}),
                   String("regexp", Cat(<<At("boundary"), L(1), Class({2}, TRUE)>>), {"wide", "nocase"})>>,
                 <<String("regexp", Cat(<<Class({1, 3}, FALSE), L(1), Lazy(Star(L(1)))>>), {"ascii", "wide"})>> >>,
              Blocks({0, 1, 3}, {4, 6}))

\* Hex strings that are not split: run with a stack that may be too small,
\* and, with alternatives, by fibers.
Fast ==
  OnBlocks(<< <<Hex(<<L(1), Lazy(Dots(0, 1)), Dot, Set({1, 2})>>), Hex(<<Dot, Lazy(Dots(1, 1)), L(2)>>)>>,
              <<Hex(<<L(1), Lazy(Dots(0, 1)), Lazy(Dots(0, 1)), Lazy(Dots(0, 1)), L(2)>>)>>,
              <<Hex(<<Alt(L(1), Cat(<<L(2), Dot>>)), Lazy(Dots(0, 1)), L(3)>>)>> >>,
           Blocks({1, 2, 3}, {2, 5}))

\* Chains of expressions.
Mixed ==
  OnBlocks(<< <<Hex(<<L(1), Dot, Lazy(Dots(0, 2)), Set({1, 2}), L(3)>>)>>,
              <<Hex(<<L(1), L(2), Lazy(Dots(1, 2)), Alt(L(1), L(3)), Lazy(Dots(1, 1)), L(2)>>)>> >>,
           Blocks({1, 2, 3}, {6}))

SomeCases == Short \o Exact \o Long3 \o Shared \o Chains \o Single \o Modified \o Fast \o Mixed
=============================================================================
