---------------------------- MODULE RuleConditions ----------------------------
(***************************************************************************)
(* The conditions of rules in libyara: the code the grammar's actions emit *)
(* for them, and the stack machine of yr_execute_code that runs it on the  *)
(* matches of a file.                                                      *)
(*                                                                         *)
(* A condition is the sequence of its nodes in the order in which the      *)
(* parser reduces them, so that operands come before what is made of them. *)
(* A node is a record of                                                   *)
(*   op     what it is:                                                    *)
(*            "value", a number or no value; "string", a string whose mat- *)
(*            ches are asked for; "member", a string of a set; "var" and   *)
(*            "this", the variable of a loop and the `$' of a loop over    *)
(*            strings; "rule"; and, with operands,                         *)
(*            "found", "count", "at", "in", "offset", "length", whose last *)
(*            operand is the string; "not", "byte", "add", "le", "eq";     *)
(*            "and", "or";                                                 *)
(*            "of", "each", "range", whose operands are the quantifier (no *)
(*            value for `all'), the marker below the list, the list or the *)
(*            two bounds and, of the loops "each" and "range", the body;   *)
(*   arg    of nodes without operands: the value, string or rule, and of   *)
(*            "var" and "this" the loop, counted from the outermost;       *)
(*   of     the operands;                                                  *)
(*   loops  the loops around it.                                           *)
(***************************************************************************)
EXTENDS Integers, Sequences, FiniteSets, SequencesExt

CONSTANTS
  Cases,         \* sequence of sequences of rules [nodes, disabled, strings]
  Findings,      \* what may be found of each string: sequences of [offset, length]
  Contents,      \* the bytes of the file
  Undefined,     \* the integer that stands for no value
  Disorder,      \* what a condition means whose evaluation the code gets wrong
  Doubt,         \* not true: for one of code and documentation false, for the other no value
  StackSize,     \* YR_CONFIG_STACK_SIZE
  LoopNesting,   \* YR_MAX_LOOP_NESTING
  Garbage        \* what the memory of the machine may hold before it is written

LoopLocalVars == 4

Mem == 0..(LoopNesting * LoopLocalVars - 1)

Plain == {"value", "string", "member", "var", "this", "rule"}
Asking == {"found", "count", "at", "in", "offset", "length"}
Strict == Asking \cup {"not", "byte", "add", "le", "eq", "of"}
Lazy == {"and", "or"}
Looping == {"each", "range"}

Node ==
  [op : Plain \cup Strict \cup Lazy \cup Looping, arg : Int,
   of : Seq(Nat \ {0}), loops : Seq(Nat \ {0})]

\* How many operands there may be.
Arity(op) ==
  CASE op \in Plain -> {0}
    [] op \in {"found", "count", "not", "byte"} -> {1}
    [] op \in {"at", "offset", "length", "add", "le", "eq"} \cup Lazy -> {2}
    [] op = "in" -> {3}
    [] op = "of" -> Nat \ (0..2)
    [] op = "each" -> Nat \ (0..3)
    [] op = "range" -> {5}

\* The operands that are evaluated once: all but the body of a loop.
Heads(node) == IF node.op \in Looping THEN Front(node.of) ELSE node.of

\* The strings of a set, and the loops whose variable is one of them.
Members(nodes, i) == {nodes[nodes[i].of[k]].arg : k \in 3..Len(Heads(nodes[i]))}

OverStrings(nodes, i) ==
  nodes[i].op = "each" /\ \A k \in 3..Len(Heads(nodes[i])) : nodes[nodes[i].of[k]].op = "member"

\* What the grammar accepts as the condition of rule r.
WellFormed(nodes, r, strings) ==
  /\ nodes # << >> /\ Last(nodes).loops = << >>
  /\ \A i \in DOMAIN nodes :
       LET node == nodes[i]
           operand(k) == nodes[node.of[k]]
       IN
       /\ node.of \in Seq(1..(i - 1)) /\ Len(node.of) \in Arity(node.op)
       /\ node.loops \in Seq(DOMAIN nodes) /\ Len(node.loops) <= LoopNesting
       /\ \A k \in DOMAIN Heads(node) : operand(k).loops = node.loops
       /\ node.op \in Looping => operand(Len(node.of)).loops = Append(node.loops, i)
       /\ node.op \in {"string", "member"} => node.arg \in strings
       /\ node.op = "rule" => node.arg \in 1..(r - 1)
       /\ node.op \in {"var", "this"} => node.arg \in DOMAIN node.loops
       /\ node.op = "this" => OverStrings(nodes, node.loops[node.arg])
       /\ node.op \in Asking => operand(Len(node.of)).op \in {"string", "this"}
       /\ node.op \in {"of"} \cup Looping => operand(2).op = "value" /\ operand(2).arg = Undefined
       /\ node.op = "of" => \A k \in 3..Len(node.of) : operand(k).op = "member"

ASSUME MachineAssumption ==
  /\ Undefined \in Int /\ Undefined < 0
  /\ Disorder \notin Int /\ Doubt \notin Int /\ Doubt # Disorder
  /\ StackSize \in Nat /\ LoopNesting \in Nat
  /\ Garbage \subseteq Int /\ Contents \in Seq(Int)
  /\ \A found \in Findings : found \in Seq([offset : Int, length : Int])

ASSUME ConditionsAssumption ==
  /\ Cases \in Seq(Seq([nodes : Seq(Node), disabled : BOOLEAN, strings : SUBSET Nat]))
  /\ \A c \in DOMAIN Cases : \A r \in DOMAIN Cases[c] :
       WellFormed(Cases[c][r].nodes, r, Cases[c][r].strings)

VARIABLES
  case,          \* the rules of this behaviour
  occurrences,   \* where each string occurs in the file
  fast,          \* SCAN_FLAGS_FAST_MODE
  ip,
  stack,
  mem,
  matching,      \* the rules whose RULE_TFLAGS_MATCH is set
  result

input == <<case, occurrences, fast>>
machine == <<input, ip, stack, mem, matching, result>>

-----------------------------------------------------------------------------
(* The grammar's actions: the pieces of code that make up a condition.  A  *)
(* jump's argument is relative to the jump.                                *)

I(op, arg) == <<[op |-> op, arg |-> arg]>>

\* Mutant of CloseLoop: the quantifier is taken for the number of iterations
\* of the loop around.
CloseLoopOfParent(mo) ==
  << I("pop", 0), I("swapundef", (IF mo > 0 THEN mo - LoopLocalVars ELSE mo) + 2),
     I("push_m", mo + 1), I("le", 0) >>

\* Mutant of CloseLoop: the marker is left where it is.
CloseLoopKeepingMarker(mo) ==
  << I("swapundef", mo + 2), I("push_m", mo + 1), I("le", 0) >>

\* The end of every loop: the marker goes, an undefined quantifier becomes
\* the number of iterations, and the number of true ones decides.
CloseLoop(mo) ==
  << I("pop", 0), I("swapundef", mo + 2), I("push_m", mo + 1), I("le", 0) >>

\* Mutant of Loop: the address to go back to is taken after the body.
LoopAddressLate(mo, take, body, next, jump) ==
  << I("clear_m", mo + 1), I("clear_m", mo + 2) >>
  \o take \o << body, I("add_m", mo + 1), I("incr_m", mo + 2) >> \o next \o << I(jump, 0) >>

\* The body of a loop with its counters, what brings the next value back to
\* the stack, and the jump to where the value is taken.
Loop(mo, take, body, next, jump) ==
  LET turn == take \o << body, I("add_m", mo + 1), I("incr_m", mo + 2) >> \o next IN
  << I("clear_m", mo + 1), I("clear_m", mo + 2) >> \o turn \o << I(jump, -Len(FlattenSeq(turn))) >>

\* An operator that does not look at its right operand when the left one
\* decides.
ShortCircuit(left, jump, right, op) ==
  << left, I(jump, Len(right) + 2), right, I(op, 0), I("nop", 0) >>

\* What is emitted for a node; `parts' is the code of its operands.
Pieces(node, parts) ==
  LET mo == LoopLocalVars * Len(node.loops) IN
  CASE node.op = "var"  -> << I("push_m", LoopLocalVars * (node.arg - 1)) >>
    [] node.op = "this" -> << I("push_m", LoopLocalVars * (node.arg - 1)) >>
    [] node.op = "rule" -> << I("push_rule", node.arg) >>
    [] node.op \in {"value", "string", "member"} -> << I("push", node.arg) >>
    [] node.op \in Strict -> Append(parts, I(node.op, 0))
    [] node.op = "and"  -> ShortCircuit(parts[1], "jfalse", parts[2], "and")
    [] node.op = "or"   -> ShortCircuit(parts[1], "jtrue", parts[2], "or")
    [] node.op = "each" ->
         Front(parts) \o Loop(mo, << I("pop_m", mo) >>, Last(parts), << >>, "jnundef") \o CloseLoop(mo)
    [] node.op = "range" ->
         Front(parts)
         \o Loop(mo, << I("pop_m", mo + 3), I("pop_m", mo) >>, Last(parts),
                 << I("incr_m", mo), I("push_m", mo), I("push_m", mo + 3) >>, "jle")
         \o << I("pop", 0), I("pop", 0) >> \o CloseLoop(mo)

\* The code of every node of a condition.
Codes(nodes) ==
  LET code[i \in DOMAIN nodes] ==
        FlattenSeq(Pieces(nodes[i], [k \in DOMAIN nodes[i].of |-> code[nodes[i].of[k]]]))
  IN code

\* yr_parser_reduce_rule_declaration_phase_1 and _2
RuleCode(r, rule) ==
  LET code == Codes(rule.nodes)[Len(rule.nodes)] IN
  FlattenSeq(<< <<[op |-> "init_rule", arg |-> r, jump |-> Len(code) + 2]>>, code,
                I("match_rule", r), I("nop", 0) >>)

Program(rules) ==
  FlattenSeq(Append([r \in DOMAIN rules |-> RuleCode(r, rules[r])], I("halt", 0)))

Programs == [c \in DOMAIN Cases |-> Program(Cases[c])]

Rules == Cases[case]

-----------------------------------------------------------------------------
(* What of a string need not be looked for: all but one offset, as long as *)
(* all that the conditions ask is whether it is there; and, in fast mode,  *)
(* all but the first match, as long as they ask only whether there is one. *)

\* The constants the parser makes of expressions, or Undefined.
Constants(nodes) ==
  LET known[i \in DOMAIN nodes] ==
        LET of(k) == known[nodes[i].of[k]] IN
        IF nodes[i].op = "value" THEN nodes[i].arg
        ELSE IF nodes[i].op = "add" /\ of(1) # Undefined /\ of(2) # Undefined THEN of(1) + of(2)
        ELSE Undefined
  IN known

\* What a use of strings makes of their flags [fixed, offset, single].
Moved(flags, set) == [s \in DOMAIN flags |-> [flags[s] EXCEPT !.fixed = @ /\ s \notin set]]

Counted(flags, set) == [s \in DOMAIN flags |-> [flags[s] EXCEPT !.single = @ /\ s \notin set]]

\* `at': the first offset is kept, another or, but for `$', an unknown one
\* sets the string free.
FixedAt(flags, set, offset, anonymous) ==
  [s \in DOMAIN flags |->
     LET first == IF flags[s].offset = Undefined THEN offset ELSE flags[s].offset IN
     IF s \notin set THEN flags[s]
     ELSE [fixed  |-> flags[s].fixed /\ first = offset /\ (anonymous \/ first # Undefined),
           offset |-> first, single |-> FALSE]]

\* yr_parser_reduce_string_identifier and _emit_pushes_for_strings; `$' may be
\* every string of the rule.
Use(flags, nodes, i, own) ==
  LET node == nodes[i]
      anonymous == nodes[Last(node.of)].op = "this"
      used == IF anonymous THEN own ELSE {nodes[Last(node.of)].arg}
  IN CASE node.op = "member" -> Moved(flags, {node.arg})
       [] node.op = "found" -> Moved(flags, used)
       [] node.op \in {"count", "in", "offset", "length"} -> Counted(Moved(flags, used), used)
       [] node.op = "at" -> FixedAt(flags, used, Constants(nodes)[node.of[1]], anonymous)
       [] OTHER -> flags

\* The flags after a condition, in the order in which the parser meets it.
FlagsAfter(flags, rule) ==
  LET after[i \in 0..Len(rule.nodes)] ==
        IF i = 0 THEN flags ELSE Use(after[i - 1], rule.nodes, i, rule.strings)
  IN after[Len(rule.nodes)]

StringsOf(rules) == UNION {rules[r].strings : r \in DOMAIN rules}

FlagsOf(rules) ==
  LET after[r \in 0..Len(rules)] ==
        IF r = 0 THEN [s \in StringsOf(rules) |-> [fixed |-> TRUE, offset |-> Undefined, single |-> TRUE]]
        ELSE FlagsAfter(after[r - 1], rules[r])
  IN after[Len(rules)]

StringFlags == [c \in DOMAIN Cases |-> FlagsOf(Cases[c])]

\* The matches at an offset, in their order.
AtOffset(ms, offset) ==
  LET kept[i \in 0..Len(ms)] ==
        IF i = 0 THEN << >> ELSE IF ms[i].offset = offset THEN Append(kept[i - 1], ms[i]) ELSE kept[i - 1]
  IN kept[Len(ms)]

\* What of `places' yr_scan_verify_match keeps as matches of the strings.
LookedFor(c, places, fastMode) ==
  [s \in StringsOf(Cases[c]) |->
     LET flags  == StringFlags[c][s]
         looked == IF flags.fixed THEN AtOffset(places[s], flags.offset) ELSE places[s]
     IN IF fastMode /\ flags.single /\ looked # << >> THEN <<Head(looked)>> ELSE looked]

Matches == LookedFor(case, occurrences, fast)

-----------------------------------------------------------------------------
InitMachine ==
  /\ case \in DOMAIN Cases
  /\ occurrences \in [StringsOf(Rules) -> Findings]
  /\ fast \in BOOLEAN
  /\ ip = 1 /\ stack = << >> /\ matching = {} /\ result = "running"
  /\ \E g \in Garbage : mem = [x \in Mem |-> g]

Instruction == Programs[case][ip]
Op  == Instruction.op
Arg == Instruction.arg

Depth  == Len(stack)
Top    == stack[Depth]
Below  == stack[Depth - 1]
Popped(n) == SubSeq(stack, 1, Depth - n)

IsUndef(x) == x = Undefined
Bool(b) == IF b THEN 1 ELSE 0
True(x) == ~IsUndef(x) /\ x # 0

\* The results of an instruction: the next one, after an optional jump, and
\* the stack.  What does not fit on the stack ends the run.
GoOn(st) ==
  IF Len(st) > StackSize
  THEN result' = "stack_overflow" /\ UNCHANGED <<ip, stack>>
  ELSE ip' = ip + 1 /\ stack' = st /\ UNCHANGED result

Replace(n, x) == GoOn(Append(Popped(n), x))

Jump(condition) ==
  /\ ip' = IF condition THEN ip + Arg ELSE ip + 1
  /\ UNCHANGED <<stack, result>>

Executing == result = "running"

Halt == Executing /\ Op = "halt" /\ result' = "success" /\ UNCHANGED <<input, ip, stack, mem, matching>>

\* A disabled rule is jumped over.
InitRule ==
  /\ Executing /\ Op = "init_rule"
  /\ ip' = IF Rules[Arg].disabled THEN ip + Instruction.jump ELSE ip + 1
  /\ UNCHANGED <<input, stack, mem, matching, result>>

MatchRule ==
  /\ Executing /\ Op = "match_rule"
  /\ matching' = IF True(Top) THEN matching \cup {Arg} ELSE matching
  /\ GoOn(Popped(1))
  /\ UNCHANGED <<input, mem>>

PushRule ==
  /\ Executing /\ Op = "push_rule"
  /\ GoOn(Append(stack, IF Rules[Arg].disabled THEN Undefined ELSE Bool(Arg \in matching)))
  /\ UNCHANGED <<input, mem, matching>>

Move ==
  /\ Executing /\ Op \in {"nop", "push", "pop", "push_m", "swapundef"}
  /\ CASE Op = "nop"       -> GoOn(stack)
       [] Op = "push"      -> GoOn(Append(stack, Arg))
       [] Op = "pop"       -> GoOn(Popped(1))
       [] Op = "push_m"    -> GoOn(Append(stack, mem[Arg]))
       [] Op = "swapundef" -> Replace(1, IF IsUndef(Top) THEN mem[Arg] ELSE Top)
  /\ UNCHANGED <<input, mem, matching>>

Store ==
  /\ Executing /\ Op \in {"clear_m", "add_m", "incr_m", "pop_m"}
  /\ mem' = [mem EXCEPT ![Arg] =
       CASE Op = "clear_m" -> 0
         [] Op = "add_m"   -> IF IsUndef(Top) THEN @ ELSE @ + Top
         [] Op = "incr_m"  -> @ + 1
         [] Op = "pop_m"   -> Top]
  /\ GoOn(IF Op \in {"add_m", "pop_m"} THEN Popped(1) ELSE stack)
  /\ UNCHANGED <<input, matching>>

JumpIf ==
  /\ Executing /\ Op \in {"jnundef", "jle", "jtrue", "jfalse"}
  /\ Jump(CASE Op = "jnundef" -> ~IsUndef(Top)
            [] Op = "jle"     -> Below <= Top
            [] Op = "jtrue"   -> True(Top)
            [] Op = "jfalse"  -> ~True(Top))
  /\ UNCHANGED <<input, mem, matching>>

\* What `and' makes of no value is false, what `or' makes of it is the other.
Logic ==
  /\ Executing /\ Op \in {"and", "or", "not"}
  /\ CASE Op = "and" -> Replace(2, Bool(True(Below) /\ True(Top)))
       [] Op = "or"  -> Replace(2, IF IsUndef(Below) THEN Top ELSE IF IsUndef(Top) THEN Below
                                   ELSE Bool(True(Below) \/ True(Top)))
       [] Op = "not" -> Replace(1, IF IsUndef(Top) THEN Undefined ELSE Bool(Top = 0))
  /\ UNCHANGED <<input, mem, matching>>

Calculated(op, x, y) ==
  IF IsUndef(x) \/ IsUndef(y) THEN Undefined
  ELSE CASE op = "add" -> x + y
         [] op = "le"  -> Bool(x <= y)
         [] op = "eq"  -> Bool(x = y)

Calculate ==
  /\ Executing /\ Op \in {"add", "le", "eq"}
  /\ Replace(2, Calculated(Op, Below, Top))
  /\ UNCHANGED <<input, mem, matching>>

\* A byte of the file, if it has that many.
ByteAt(x) == IF x \in 0..(Len(Contents) - 1) THEN Contents[x + 1] ELSE Undefined

ReadByte ==
  /\ Executing /\ Op = "byte"
  /\ Replace(1, ByteAt(Top))
  /\ UNCHANGED <<input, mem, matching>>

\* What a string has at, between, or as its n-th match.
HasAt(ms, x) == Bool(~IsUndef(x) /\ \E i \in DOMAIN ms : ms[i].offset = x)
HasIn(ms, x, y) ==
  IF IsUndef(x) \/ IsUndef(y) THEN Undefined
  ELSE Bool(\E i \in DOMAIN ms : ms[i].offset \in x..y)
Nth(ms, n, field) == IF IsUndef(n) \/ n \notin DOMAIN ms THEN Undefined ELSE ms[n][field]

AskString ==
  /\ Executing /\ Op \in {"found", "count", "at", "in", "offset", "length"}
  /\ LET ms == Matches[Top] IN
     CASE Op = "found"  -> Replace(1, Bool(ms # << >>))
       [] Op = "count"  -> Replace(1, Len(ms))
       [] Op = "at"     -> Replace(2, HasAt(ms, Below))
       [] Op = "in"     -> Replace(3, HasIn(ms, stack[Depth - 2], Below))
       [] Op \in {"offset", "length"} -> Replace(2, Nth(ms, Below, Op))
  /\ UNCHANGED <<input, mem, matching>>

\* The strings of the set are popped to the marker below them.
Of ==
  LET marker == CHOOSE i \in 1..Depth : IsUndef(stack[i]) /\ \A j \in (i + 1)..Depth : ~IsUndef(stack[j])
      found  == Cardinality({j \in 1..(Depth - marker) : Matches[stack[marker + j]] # << >>})
      wanted == stack[marker - 1]
  IN
  /\ Executing /\ Op = "of"
  /\ Replace(Depth - marker + 2, Bool(found >= (IF IsUndef(wanted) THEN Depth - marker ELSE wanted)))
  /\ UNCHANGED <<input, mem, matching>>

Execute ==
  \/ Halt \/ InitRule \/ MatchRule \/ PushRule
  \/ Move \/ Store \/ JumpIf \/ Logic \/ Calculate \/ ReadByte \/ AskString \/ Of

Execution == InitMachine /\ [][Execute]_machine /\ WF_machine(Execute)

-----------------------------------------------------------------------------
(* What a condition means, without code, stack or memory: of each node, a  *)
(* function of what is around it, the values of the loops' variables.      *)

\* The variable of a loop over strings is one of them.
Surroundings(nodes, i) ==
  LET loops == nodes[i].loops IN
  {around \in Seq(Int) :
     /\ Len(around) = Len(loops)
     /\ \A j \in DOMAIN loops : OverStrings(nodes, loops[j]) => around[j] \in Members(nodes, loops[j])}

\* A quantifier is met when as many of some values are true, or all of them.
Enough(wanted, values) ==
  Bool((IF IsUndef(wanted) THEN Len(values) ELSE wanted)
       <= Cardinality({i \in DOMAIN values : True(values[i])}))

PlainMeaning(rules, node, around, held) ==
  CASE node.op \in {"value", "string", "member"} -> node.arg
    [] node.op \in {"var", "this"} -> around[node.arg]
    [] node.op = "rule" -> IF rules[node.arg].disabled THEN Undefined ELSE Bool(node.arg \in held)

\* Of the values of the operands.
StrictMeaning(op, x, hits) ==
  CASE op = "found" -> Bool(hits[x[1]] # << >>)
    [] op = "count" -> Len(hits[x[1]])
    [] op = "at"    -> HasAt(hits[x[2]], x[1])
    [] op = "in"    -> HasIn(hits[x[3]], x[1], x[2])
    [] op \in {"offset", "length"} -> Nth(hits[x[2]], x[1], op)
    [] op = "not"   -> IF IsUndef(x[1]) THEN Undefined ELSE Bool(x[1] = 0)
    [] op = "byte"  -> ByteAt(x[1])
    [] op \in {"add", "le", "eq"} -> Calculated(op, x[1], x[2])
    [] op = "of"    -> Enough(x[1], [k \in 1..(Len(x) - 2) |-> Bool(hits[x[k + 2]] # << >>)])

Holds(x) == x \notin {0, Undefined, Doubt, Disorder}

\* Of `and' and `or' by the documentation, which has it that an operation with
\* an undefined operand is undefined but that `or' takes it for false
\* (writingrules.rst:1226).  The code makes 0 of a true operand `and' an
\* undefined one, does not look at the right one when the left one decides, and
\* makes no value of two undefined ones with `or'.
And(left, right) ==
  IF left = Disorder \/ (Holds(left) /\ right = Disorder) THEN Disorder
  ELSE IF IsUndef(left) THEN Undefined
  ELSE IF left = Doubt \/ right \in {Undefined, Doubt, Disorder} THEN Doubt
  ELSE Bool(Holds(left) /\ Holds(right))

Or(left, right) ==
  IF left = Disorder \/ Holds(left) THEN left
  ELSE IF right = Disorder THEN Disorder
  ELSE IF ~Holds(right) THEN IF 0 \in {left, right} THEN 0 ELSE Doubt
  ELSE IF left = 0 THEN 1
  ELSE IF IsUndef(left) \/ right = 1 THEN right ELSE Disorder

\* What the code makes of them.
MadeAnd(left, right) ==
  IF left = Disorder \/ ~True(left) THEN left
  ELSE IF right = Disorder THEN Disorder ELSE Bool(True(right))

MadeOr(left, right) ==
  IF left = Disorder \/ True(left) THEN left
  ELSE IF right = Disorder THEN Disorder
  ELSE IF IsUndef(right) THEN left ELSE IF IsUndef(left) THEN right ELSE Bool(True(right))

\* The values of a loop's variable: a list is taken from its end.
Turns(op, x) ==
  IF op = "each" THEN [t \in 1..(Len(x) - 2) |-> x[Len(x) + 1 - t]]
  ELSE [t \in 1..(IF x[4] < x[3] THEN 1 ELSE x[4] - x[3] + 1) |-> x[3] + t - 1]

\* A list ends where it has no value, and its other values stay on the stack
\* (all but the last one pushed, which is taken without a look).  The values
\* of the bodies are added up, as if they could only be 0 or 1.
CutShort(op, x) == op = "each" /\ \E k \in 3..(Len(x) - 1) : IsUndef(x[k])

LoopMeaning(op, x, bodies) ==
  IF CutShort(op, x) \/ \E t \in DOMAIN bodies : bodies[t] \notin {0, 1, Undefined, Doubt} THEN Disorder
  ELSE Enough(x[1], [t \in DOMAIN bodies |-> Bool(Holds(bodies[t]))])

\* No operator but `and' and `or' makes sense of what is in doubt, and no range
\* of a bound without a value, for which the code takes the number that stands
\* for it.
Clear(x) == \A k \in DOMAIN x : x[k] \notin {Disorder, Doubt}
Unbounded(op, x) == op = "range" /\ Undefined \in {x[3], x[4]}

\* `reading' is "documented" or "made"; `values' are the meanings of the
\* operands.
Meaning(reading, rules, node, values, around, held, hits) ==
  LET x == [k \in DOMAIN Heads(node) |-> values[k][around]] IN
  CASE node.op \in Plain -> PlainMeaning(rules, node, around, held)
    [] node.op = "and" -> IF reading = "made" THEN MadeAnd(x[1], x[2]) ELSE And(x[1], x[2])
    [] node.op = "or"  -> IF reading = "made" THEN MadeOr(x[1], x[2]) ELSE Or(x[1], x[2])
    [] node.op \in Strict -> IF Clear(x) THEN StrictMeaning(node.op, x, hits) ELSE Disorder
    [] node.op \in Looping ->
         IF ~Clear(x) \/ (reading # "made" /\ Unbounded(node.op, x)) THEN Disorder
         ELSE LET turns == Turns(node.op, x) IN
              LoopMeaning(node.op, x, [t \in DOMAIN turns |-> values[Len(values)][Append(around, turns[t])]])

\* Of the nodes of rule r, when the rules of `held' are those before it that
\* hold and `hits' are the places of the strings.
Meanings(reading, rules, r, held, hits) ==
  LET nodes == rules[r].nodes
      value[i \in DOMAIN nodes] ==
        [around \in Surroundings(nodes, i) |->
           Meaning(reading, rules, nodes[i], [k \in DOMAIN nodes[i].of |-> value[nodes[i].of[k]]], around, held, hits)]
  IN value

Outcome(reading, rules, r, held, hits) == Meanings(reading, rules, r, held, hits)[Len(rules[r].nodes)][<< >>]

\* The rules that hold, each in the light of those before it.
Held(reading, rules, hits) ==
  LET held[r \in 0..Len(rules)] ==
        IF r = 0 THEN {}
        ELSE IF ~rules[r].disabled /\ Holds(Outcome(reading, rules, r, held[r - 1], hits))
             THEN held[r - 1] \cup {r} ELSE held[r - 1]
  IN held

InOrder(reading, rules, hits) ==
  \A r \in DOMAIN rules :
    rules[r].disabled \/ Outcome(reading, rules, r, Held(reading, rules, hits)[r - 1], hits) # Disorder

(* The rules that match are those whose conditions hold by the documenta-  *)
(* tion, at the end of every run that ends without an error: whatever loops *)
(* lie in each other, whatever has no value, and although matches that no  *)
(* condition can tell from none were never looked for.  Of rules that come *)
(* to Disorder it says nothing: there the code does something else.        *)
MatchedExact ==
  result = "success" /\ InOrder("documented", Rules, occurrences)
    => matching = Held("documented", Rules, occurrences)[Len(Rules)]

(* A rule leaves nothing on the stack for the next: the assertions at the  *)
(* end of a rule and of the code.                                          *)
StackEmptyAtEnd ==
  /\ Executing /\ Op = "match_rule" /\ InOrder("made", Rules, occurrences) => Depth = 1
  /\ Executing /\ Op = "halt" /\ InOrder("made", Rules, occurrences) => Depth = 0

(* The code comes to an end, or the stack does. *)
CodeEnds == <>(result # "running")
=============================================================================
