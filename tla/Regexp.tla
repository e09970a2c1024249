-------------------------------- MODULE Regexp --------------------------------
(***************************************************************************)
(* The regular expressions and hex strings of libyara: the code made from  *)
(* the tree of an expression, once to be run forwards and once backwards,  *)
(* the fibers that run it, the faster run of plain hex strings, and the    *)
(* atoms taken from the tree.                                              *)
(*                                                                         *)
(* A node of a tree is a record with the field op.  What takes one byte is *)
(* its own instruction: a literal, any byte, a set of bytes (\w, \s, \d,   *)
(* their opposites and bytes with a mask) or a class.  An instruction is   *)
(* one place of the code, whatever its size is.                            *)
(***************************************************************************)
EXTENDS Integers, Sequences, FiniteSets, SequencesExt, TLC

CONSTANTS
  MaxAtom,       \* YR_MAX_ATOM_LENGTH
  MaxFibers,     \* RE_MAX_FIBERS
  MaxFastStack,  \* YR_MAX_FAST_RE_STACK
  ScanLimit,     \* RE_SCAN_LIMIT
  Lower,         \* yr_lowercase
  Word,          \* the bytes of \w
  NewLine,       \* what a dot does not take
  Common,        \* the bytes that make a bad atom
  Threshold      \* YR_STRING_CHAINING_THRESHOLD

ASSUME RegexpAssumption ==
  /\ {MaxAtom, MaxFibers, MaxFastStack, ScanLimit} \subseteq Nat \ {0} /\ Threshold \in Nat
  /\ Word \subseteq DOMAIN Lower /\ Common \subseteq DOMAIN Lower /\ NewLine \in DOMAIN Lower

MinOf(a, b) == IF a < b THEN a ELSE b

TakesByte == {"literal", "any", "set", "class"}
ZeroWidth == {"start", "end", "boundary", "nonboundary"}
Quantifiers == {"star", "plus", "range", "range_any"}

RECURSIVE Nodes(_)
Nodes(re) ==
  {re} \cup (IF re.op \in {"concat", "alt", "star", "plus", "range"} THEN Nodes(re.left) ELSE {})
       \cup (IF re.op \in {"concat", "alt"} THEN Nodes(re.right) ELSE {})

-----------------------------------------------------------------------------
(* A concatenation leans to the left: its operands, and back.              *)

RECURSIVE Operands(_)
Operands(re) == IF re.op = "concat" THEN Append(Operands(re.left), re.right) ELSE <<re>>

Concat(res) == FoldLeft(LAMBDA l, r : [op |-> "concat", left |-> l, right |-> r], Head(res), Tail(res))

\* yr_re_ast_extract_literal
IsLiteral(re) == \A r \in ToSet(Operands(re)) : r.op = "literal"

LiteralOf(re) == LET res == Operands(re) IN [i \in DOMAIN res |-> res[i].byte]

NoGap == [min |-> 0, max |-> 0]

\* yr_re_ast_split_at_chaining_point, until nothing remains to be split: the
\* parts of a chain from its head to its tail, each with the gap before it.
RECURSIVE Chained(_)
Chained(res) ==
  LET long(r) == r.op = "range_any" /\ ~r.greedy /\ (r.min > Threshold \/ r.max > Threshold)
      points  == {j \in 2..(Len(res) - 1) : long(res[j])}
      last    == CHOOSE j \in points : \A i \in points : i <= j
  IN IF points = {} THEN <<[re |-> Concat(res), gap |-> NoGap]>>
     ELSE Append(Chained(SubSeq(res, 1, last - 1)),
                 [re |-> Concat(SubSeq(res, last + 1, Len(res))),
                  gap |-> [min |-> res[last].min, max |-> res[last].max]])

-----------------------------------------------------------------------------
(* The code of an expression: a sequence of instructions, where in it the  *)
(* code of each literal begins - or, backwards, ends - and where the code  *)
(* of the whole is entered.                                                *)

Piece(inst) == [code |-> <<inst>>, marks |-> << >>, entry |-> 0]
Nothing     == [code |-> << >>, marks |-> << >>, entry |-> 0]

Size(p)     == Len(p.code)
Unmarked(p) == [p EXCEPT !.marks = << >>]

\* One piece behind another; a literal emitted twice keeps its later mark.
Then(a, b) ==
  [code  |-> a.code \o b.code,
   marks |-> [l \in DOMAIN b.marks |-> Size(a) + b.marks[l]] @@ a.marks,
   entry |-> a.entry]

\* SPLIT_A prefers what follows, SPLIT_B what the offset leads to.
Split(preferNext, offset) == Piece([op |-> "split", next |-> preferNext, offset |-> offset])
Jump(offset)              == Piece([op |-> "jump", offset |-> offset])

\* e{n,m}: code for e, a loop over more of them, a split and once more e.
EmitRange(re, body, backwards) ==
  LET prolog == re.min > 0
      repeat == re.max > re.min + 1 \/ re.max > 2
      split  == re.max > re.min
      epilog == split \/ re.max > 1
      min    == re.min - (IF prolog THEN 1 ELSE 0) - (IF split THEN 0 ELSE 1)
      max    == re.max - (IF prolog THEN 1 ELSE 0) - 1
      loop(op, offset) ==
        Piece([op |-> op, min |-> min, max |-> max, greedy |-> re.greedy, offset |-> offset])
      first  == IF prolog THEN body ELSE Nothing
      looped == IF repeat
                THEN Then(Then(loop("repeat_start", Size(body) + 2), Unmarked(body)),
                          loop("repeat_end", -Size(body)))
                ELSE Nothing
      branch == IF split THEN Split(re.greedy, Size(body) + 1) ELSE Nothing
      last   == IF ~epilog THEN Nothing
                ELSE IF prolog /\ ~backwards THEN Unmarked(body) ELSE body
  IN [Then(Then(first, looped), Then(branch, last)) EXCEPT
        !.entry = IF prolog THEN body.entry ELSE IF repeat THEN 0 ELSE Size(branch) + body.entry]

\* Whether a split of plus or star goes on behind it: the loop of a plus is
\* where the offset leads to, that of a star what follows.
Prefer(re, next) == IF re.greedy THEN next ELSE ~next

RECURSIVE Emit(_, _, _)
Emit(re, path, backwards) ==
  LET left  == Emit(re.left, Append(path, 1), backwards)
      right == Emit(re.right, Append(path, 2), backwards)
  IN CASE re.op = "literal"   -> [Piece(re) EXCEPT !.marks = path :> (IF backwards THEN 1 ELSE 0)]
       [] re.op \in {"any", "set", "class", "range_any"} \cup ZeroWidth -> Piece(re)
       [] re.op = "empty"     -> Nothing
       [] re.op = "concat"    -> IF backwards THEN Then(right, left) ELSE Then(left, right)
       [] re.op = "plus"      -> Then(left, Split(Prefer(re, FALSE), -Size(left)))
       [] re.op = "star"      -> Then(Then(Split(Prefer(re, TRUE), Size(left) + 2), left),
                                      Jump(-(Size(left) + 1)))
       [] re.op = "alt"       -> Then(Then(Then(Split(TRUE, Size(left) + 2), left),
                                           Jump(Size(right) + 1)), right)
       [] re.op = "range"     -> EmitRange(re, left, backwards)

\* yr_re_ast_emit_code
Code(re, backwards) == Then(Emit(re, << >>, backwards), Piece([op |-> "match"]))

-----------------------------------------------------------------------------
(* The atoms of an expression.                                             *)

\* yr_atoms_heuristic_quality, above that of the worst atom.
Quality(atom) ==
  LET penalty(i) == IF atom[i] \notin Common THEN 0 ELSE IF i = 1 THEN 3 ELSE IF i = 2 THEN 2 ELSE 1
      total == FoldLeft(LAMBDA sum, i : sum + penalty(i), 0, [i \in 1..Len(atom) |-> i])
      quality == Len(atom) + Cardinality(ToSet(atom)) - total
  IN IF quality > 0 THEN quality ELSE 0

BestQuality == 2 * MaxAtom

\* A leaf takes literals until it is as long as an atom may be, and is then
\* moved on as long as that makes it better.
Lengthened(leaf, path, byte) ==
  LET recent == Append(IF Len(leaf.atom) < MaxAtom THEN leaf.recent ELSE Tail(leaf.recent),
                       [path |-> path, byte |-> byte])
      atom   == [i \in 1..Len(recent) |-> recent[i].byte]
      moved  == [kind |-> "leaf", atom |-> atom, first |-> recent[1].path, recent |-> recent]
  IN IF Len(leaf.atom) < MaxAtom THEN moved
     ELSE IF Quality(leaf.atom) = BestQuality THEN leaf
     ELSE IF Quality(atom) > Quality(leaf.atom) THEN moved
     ELSE [leaf EXCEPT !.recent = recent]

NoLeaf == [kind |-> "leaf", atom |-> << >>, first |-> << >>, recent |-> << >>]

\* append_current_leaf_to_node; tree.children are those of the current node.
Closed(tree) ==
  IF tree.leaf = NoLeaf THEN tree
  ELSE [leaf |-> NoLeaf, children |-> Append(tree.children, tree.leaf)]

OrNode(children) == IF Len(children) = 1 THEN children[1] ELSE [kind |-> "or", children |-> children]

\* _yr_atoms_extract_from_re_node
RECURSIVE Extract(_, _, _)
Extract(re, path, tree) ==
  LET left(t)  == Extract(re.left, Append(path, 1), t)
      right(t) == Extract(re.right, Append(path, 2), t)
      fresh    == [leaf |-> NoLeaf, children |-> << >>]
      leftOr   == Closed(left(fresh)).children
      rightOr  == Closed(right(fresh)).children
  IN CASE re.op = "literal" -> [tree EXCEPT !.leaf = Lengthened(tree.leaf, path, re.byte)]
       [] re.op = "concat"  -> right(left(tree))
       [] re.op = "plus"    -> Closed(left(tree))
       [] re.op = "alt"     ->
            LET closed == Closed(tree) IN
            IF leftOr = << >> \/ rightOr = << >> THEN closed
            ELSE [closed EXCEPT !.children =
                    Append(@, [kind |-> "and", children |-> <<OrNode(leftOr), OrNode(rightOr)>>])]
       [] re.op = "range"   ->
            LET opened == IF re.min = 0 THEN Closed(tree) ELSE tree
                copies == [i \in 1..MinOf(re.min, MaxAtom) |-> i]
                taken  == FoldLeft(LAMBDA t, i : left(t), opened, copies)
            IN IF re.min # re.max THEN Closed(taken) ELSE taken
       [] OTHER             -> Closed(tree)

\* _yr_atoms_choose: the best child of an or, all children of an and.
RECURSIVE Choose(_)
Choose(node) ==
  CASE node.kind = "leaf" -> [atoms |-> {[bytes |-> node.atom, first |-> node.first]},
                              quality |-> Quality(node.atom)]
    [] node.kind = "or"   -> FoldLeft(LAMBDA best, child : LET c == Choose(child) IN
                                                           IF c.quality > best.quality THEN c ELSE best,
                                      [atoms |-> {}, quality |-> -1], node.children)
    [] node.kind = "and"  -> FoldLeft(LAMBDA all, child : LET c == Choose(child) IN
                                        [atoms |-> all.atoms \cup c.atoms, quality |-> MinOf(all.quality, c.quality)],
                                      [atoms |-> {}, quality |-> BestQuality], node.children)

\* yr_atoms_extract_from_re: each atom with the places where the code goes on
\* from it; without atoms the whole is tried at every byte, forwards only.
AtomsOfRegexp(re, forward, backward) ==
  LET children == Closed(Extract(re, << >>, [leaf |-> NoLeaf, children |-> << >>])).children IN
  IF children = << >>
  THEN {[bytes |-> << >>, backtrack |-> 0, code |-> [forward |-> forward.entry + 1, backward |-> 0]]}
  ELSE {[bytes |-> a.bytes, backtrack |-> 0,
         code |-> [forward |-> forward.marks[a.first] + 1, backward |-> backward.marks[a.first] + 1]] :
          a \in Choose(OrNode(children)).atoms}

-----------------------------------------------------------------------------
(* A run of code over data from an offset, of the record                   *)
(* [code, data, offset, backwards, exhaustive, wide, nocase, dotall].      *)
(* What a run returns is [lengths, failed]: the lengths of its matches in  *)
(* the order they are met, each calling back when it is exhaustive.        *)

CharacterSize(run) == IF run.wide THEN 2 ELSE 1

\* What lies before a run.
InputSize(run) == IF run.backwards THEN run.offset ELSE Len(run.data) - run.offset

\* max_bytes_matched
MaxMatched(run) ==
  LET size == MinOf(InputSize(run), ScanLimit) IN size - (size % CharacterSize(run))

\* Where the input stands after so many bytes.
InputAt(run, matched) ==
  IF run.backwards THEN run.offset - CharacterSize(run) - matched + 1 ELSE run.offset + matched + 1

SameLetter(b, c) == Lower[b] = Lower[c]

\* One character at i against an instruction that takes one.
Takes(run, inst, i) ==
  LET b == run.data[i]
      InBitmap == b \in inst.bytes \/ (run.nocase /\ \E c \in inst.bytes : SameLetter(b, c))
  IN /\ run.wide => run.data[i + 1] = 0
     /\ CASE inst.op \in {"any", "range_any"} -> run.dotall \/ b # NewLine
          [] inst.op = "literal" -> IF run.nocase THEN SameLetter(b, inst.byte) ELSE b = inst.byte
          [] inst.op = "set"     -> b \in inst.bytes
          [] inst.op = "class"   -> InBitmap # inst.negated

IsWordChar(run, i) == run.data[i] \in Word /\ (run.wide => run.data[i + 1] = 0)

AtBoundary(run, matched) ==
  LET i      == InputAt(run, matched)
      before == IF run.backwards THEN i + CharacterSize(run) ELSE i - CharacterSize(run)
  IN \/ matched = 0 /\ run.offset < CharacterSize(run)
     \/ matched >= MaxMatched(run)
     \/ IsWordChar(run, i) # IsWordChar(run, before)

Holds(run, inst, matched) ==
  CASE inst.op = "start"       -> IF run.backwards THEN run.offset <= matched
                                  ELSE run.offset = 0 /\ matched = 0
    [] inst.op = "end"         -> ~run.backwards /\ Len(run.data) - run.offset <= matched
    [] inst.op = "boundary"    -> AtBoundary(run, matched)
    [] inst.op = "nonboundary" -> ~AtBoundary(run, matched)

\* A fiber, its counters of repeats and the one of a repeated dot, or -1.
NewFiber(ip) == [ip |-> ip, stack |-> << >>, rc |-> -1]

Move(fiber, n) == [fiber EXCEPT !.ip = @ + n]
Push(fiber)    == [fiber EXCEPT !.stack = Append(@, 0)]
Pop(fiber)     == [fiber EXCEPT !.stack = Front(@)]
Count(fiber)   == [fiber EXCEPT !.stack[Len(fiber.stack)] = @ + 1]

\* The fibers one goes on as, the preferred one first, when its instruction
\* takes nothing.  A counter that has reached its maximum stays.
Branches(fiber, inst) ==
  LET order(greedy, more, less) == IF greedy THEN <<more, less>> ELSE <<less, more>>
      counted == Count(fiber)
      count   == Last(counted.stack)
  IN CASE inst.op = "jump"         -> <<Move(fiber, inst.offset)>>
       [] inst.op = "split"        -> order(inst.next, Move(fiber, 1), Move(fiber, inst.offset))
       [] inst.op = "repeat_start" ->
            IF inst.min > 0 THEN <<Move(Push(fiber), 1)>>
            ELSE order(inst.greedy, Move(Push(fiber), 1), Move(fiber, inst.offset))
       [] inst.op = "repeat_end"   ->
            IF count < inst.min THEN <<Move(counted, inst.offset)>>
            ELSE IF count < inst.max
            THEN order(inst.greedy, Move(counted, inst.offset), Move(Pop(counted), 1))
            ELSE <<Move(counted, 1)>>

\* _yr_re_fiber_sync: the fibers of the list todo until each stands where it
\* takes a byte, asks for a place or matches.  others is how many there are
\* besides; a split that was executed already ends the fiber.
RECURSIVE Sync(_, _, _, _)
Sync(code, todo, executed, others) ==
  LET fiber == Head(todo)
      rest  == Tail(todo)
      inst  == code[fiber.ip]
      failure     == [fibers |-> << >>, failed |-> TRUE]
      full        == others + Len(todo) >= MaxFibers
      join(fs, s) == [s EXCEPT !.fibers = fs \o @]
      done(f)     == join(<<f>>, Sync(code, rest, executed, others + 1))
      branch(set) == LET fs == Branches(fiber, inst) IN
                     IF Len(fs) = 2 /\ full THEN failure
                     ELSE Sync(code, fs \o rest, set, others)
      rc    == IF fiber.rc = -1 THEN 0 ELSE fiber.rc
      spin  == [fiber EXCEPT !.rc = rc + 1]
      leave == [Move(fiber, 1) EXCEPT !.rc = -1]
      left  == Sync(code, <<leave>>, {}, others + Len(todo))
      both  == IF inst.greedy THEN <<spin>> \o left.fibers ELSE Append(left.fibers, spin)
  IN IF todo = << >> THEN [fibers |-> << >>, failed |-> FALSE]
     ELSE CASE inst.op = "split" ->
                 IF fiber.ip \in executed THEN Sync(code, rest, executed, others)
                 ELSE branch(executed \cup {fiber.ip})
            [] inst.op \in {"jump", "repeat_start", "repeat_end"} -> branch(executed)
            [] inst.op = "range_any" ->
                 IF rc < inst.min THEN done(spin)
                 ELSE IF rc >= inst.max THEN Sync(code, <<leave>> \o rest, executed, others)
                 ELSE IF full \/ left.failed THEN failure
                 ELSE join(both, Sync(code, rest, executed, others + Len(both)))
            [] OTHER -> done(fiber)

\* One byte: what the fibers of todo do, behind those that did it already.
\* An ungreedy loop over places alone, as in (\b)*?, goes on for ever here as
\* it does in the code: each of its rounds begins with nothing executed.
RECURSIVE Walk(_, _, _, _)
Walk(run, todo, matched, acc) ==
  LET fiber  == Head(todo)
      rest   == Tail(todo)
      inst   == run.code[fiber.ip]
      synced == Sync(run.code, <<IF inst.op = "range_any" THEN fiber ELSE Move(fiber, 1)>>, {},
                     Len(acc.fibers) + Len(rest))
      met    == [acc EXCEPT !.lengths = Append(@, matched)]
      kill   == Walk(run, rest, matched, acc)
      failed == [acc EXCEPT !.failed = TRUE]
  IN IF todo = << >> THEN acc
     ELSE CASE inst.op = "match" -> IF run.exhaustive THEN Walk(run, rest, matched, met) ELSE met
            [] inst.op \in ZeroWidth ->
                 IF ~Holds(run, inst, matched) THEN kill
                 ELSE IF synced.failed THEN failed
                 ELSE Walk(run, synced.fibers \o rest, matched, acc)
            [] OTHER ->
                 IF ~(matched < MaxMatched(run) /\ Takes(run, inst, InputAt(run, matched))) THEN kill
                 ELSE IF synced.failed THEN failed
                 ELSE Walk(run, rest, matched, [acc EXCEPT !.fibers = @ \o synced.fibers])

\* Of equal fibers the first is kept.
Distinct(fibers) == FoldLeft(LAMBDA kept, f : IF f \in ToSet(kept) THEN kept ELSE Append(kept, f),
                             << >>, fibers)

RECURSIVE Rounds(_, _, _)
Rounds(run, matched, acc) ==
  IF acc.failed \/ acc.fibers = << >> THEN acc
  ELSE Rounds(run, matched + CharacterSize(run),
              Walk(run, Distinct(acc.fibers), matched, [acc EXCEPT !.fibers = << >>]))

NoMatch == [lengths |-> << >>, failed |-> FALSE]

\* yr_re_exec
Exec(run, ip) ==
  LET Outcome(acc) == [lengths |-> acc.lengths, failed |-> acc.failed]
  IN Outcome(Rounds(run, 0, [lengths |-> << >>] @@ Sync(run.code, <<NewFiber(ip)>>, {}, 0)))

\* yr_re_fast_exec, with what it still has to try on a
\* stack; no limit bounds what it reads.
RECURSIVE FastExec(_, _, _)
FastExec(run, stack, lengths) ==
  LET top   == Last(stack)
      rest  == Front(stack)
      inst  == run.code[top.ip]
      go(n) == [ip |-> top.ip + 1, matched |-> top.matched + n]
      next  == run.code[top.ip + 1]
      more  == SelectSeq([k \in 1..(inst.max - inst.min) |-> inst.min + k],
                         LAMBDA n : /\ top.matched + n < InputSize(run)
                                    /\ next.op = "literal" =>
                                         run.data[InputAt(run, top.matched + n)] = next.byte)
      jumps == [k \in 1..Len(more) |-> go(more[k])]
      least == [go(inst.min) EXCEPT !.matched = MinOf(@, InputSize(run))]
  IN IF stack = << >> THEN [lengths |-> lengths, failed |-> FALSE]
     ELSE IF inst.op = "match"
     THEN IF run.exhaustive THEN FastExec(run, rest, Append(lengths, top.matched))
          ELSE [lengths |-> <<top.matched>>, failed |-> FALSE]
     ELSE IF top.matched >= InputSize(run) THEN FastExec(run, rest, lengths)
     ELSE IF inst.op = "range_any"
     THEN IF Len(rest) + Len(more) > MaxFastStack THEN [lengths |-> lengths, failed |-> TRUE]
          ELSE FastExec(run, Append(rest \o jumps, least), lengths)
     ELSE IF Takes(run, inst, InputAt(run, top.matched)) THEN FastExec(run, Append(rest, go(1)), lengths)
     ELSE FastExec(run, rest, lengths)

Execute(fast, run, ip) ==
  IF fast THEN FastExec(run, <<[ip |-> ip, matched |-> 0]>>, << >>) ELSE Exec(run, ip)

-----------------------------------------------------------------------------
(* What an expression means: where its matches that begin at i, the number *)
(* of bytes before it, can end.                                            *)

RECURSIVE MatchEnds(_, _, _)

EndsFrom(run, re, places) == UNION {MatchEnds(run, re, i) : i \in places}

RECURSIVE AnyTimes(_, _, _)
AnyTimes(run, re, places) ==
  LET further == places \cup EndsFrom(run, re, places) IN
  IF further = places THEN places ELSE AnyTimes(run, re, further)

RECURSIVE Times(_, _, _, _, _)
Times(run, re, places, min, max) ==
  (IF min = 0 THEN places ELSE {})
  \cup (IF max = 0 THEN {}
        ELSE Times(run, re, EndsFrom(run, re, places), IF min = 0 THEN 0 ELSE min - 1, max - 1))

MatchEnds(run, re, i) ==
  LET size == CharacterSize(run)
      boundary == \/ i < size \/ i > Len(run.data) - size
                  \/ IsWordChar(run, i + 1) # IsWordChar(run, i + 1 - size)
  IN CASE re.op \in TakesByte   -> IF i + size <= Len(run.data) /\ Takes(run, re, i + 1) THEN {i + size} ELSE {}
       [] re.op = "empty"       -> {i}
       [] re.op = "start"       -> IF i = 0 THEN {i} ELSE {}
       [] re.op = "end"         -> IF i = Len(run.data) THEN {i} ELSE {}
       [] re.op = "boundary"    -> IF boundary THEN {i} ELSE {}
       [] re.op = "nonboundary" -> IF boundary THEN {} ELSE {i}
       [] re.op = "concat"      -> EndsFrom(run, re.right, MatchEnds(run, re.left, i))
       [] re.op = "alt"         -> MatchEnds(run, re.left, i) \cup MatchEnds(run, re.right, i)
       [] re.op = "star"        -> AnyTimes(run, re.left, {i})
       [] re.op = "plus"        -> AnyTimes(run, re.left, MatchEnds(run, re.left, i))
       [] re.op = "range"       -> Times(run, re.left, {i}, re.min, re.max)
       [] re.op = "range_any"   -> Times(run, [op |-> "any"], {i}, re.min, re.max)

\* The bytes a match has at least, and whether all have as many.
RECURSIVE MinLength(_)
MinLength(re) ==
  CASE re.op \in TakesByte -> 1
    [] re.op = "concat"    -> MinLength(re.left) + MinLength(re.right)
    [] re.op = "alt"       -> MinOf(MinLength(re.left), MinLength(re.right))
    [] re.op = "plus"      -> MinLength(re.left)
    [] re.op = "range"     -> re.min * MinLength(re.left)
    [] re.op = "range_any" -> re.min
    [] OTHER               -> 0

OneLength(re) ==
  \A r \in Nodes(re) :
    /\ r.op \notin {"star", "plus"}
    /\ r.op \in {"range", "range_any"} => r.min = r.max
    /\ r.op = "alt" => MinLength(r.left) = MinLength(r.right)

\* Only one quantifier of a concatenation decides how long it is.
Choosing(re) ==
  LET varying == SelectSeq(Operands(re), LAMBDA r : ~OneLength(r)) IN
  /\ Len(varying) = 1 /\ varying[1].op \in Quantifiers
  /\ varying[1].op # "range_any" => OneLength(varying[1].left)
=============================================================================
