----------------------------- MODULE StringSearch -----------------------------
(***************************************************************************)
(* How libyara finds the strings of its rules in a block of data: atoms    *)
(* are taken from each string, the automaton of AhoCorasick finds them,    *)
(* each atom found is verified against the whole string and its modifiers, *)
(* and the strings of a chain are put together from their parts.           *)
(*                                                                         *)
(* A declared string is a record of its kind - text, hex or regexp -, the  *)
(* text or tree that is its body, its modifiers, and `at', the one offset  *)
(* its condition asks for, or Anywhere.  Compiled it has parts besides -   *)
(* one, or those of a chain - with the gaps before them.                   *)
(***************************************************************************)
EXTENDS AtomScan, Regexp, FiniteSetsExt

CONSTANTS
  Cases,        \* a sequence of [strings, data]: strings to compile, blocks to scan
  MaxMatches,   \* YR_MAX_STRING_MATCHES
  Alnum,        \* the bytes that isalnum accepts
  Anywhere      \* no fixed offset

ASSUME SearchAssumption ==
  /\ MaxMatches \in Nat \ {0}
  /\ Lower \in [Byte -> Byte] /\ Alnum \subseteq Byte /\ Anywhere \notin Nat

VARIABLES
  case,         \* which of the cases this is
  strings,      \* its strings, compiled
  matches,      \* of each string
  unconfirmed,  \* of each part of each string
  result        \* of the scan

search == <<reading, matches, unconfirmed, result>>
rules  == <<case, strings>>
vars   == <<automaton, rules, search>>

Bit(x, n) == (x \div 2^n) % 2

\* Exclusive or, for the two bits of the bytes of an instance.
Xor(x, y) == ((Bit(x, 0) + Bit(y, 0)) % 2) + 2 * ((Bit(x, 1) + Bit(y, 1)) % 2)

Key == Byte \ {0}

Xored(s, k) == [i \in DOMAIN s |-> Xor(s[i], k)]

\* Zeroes interleaved.
Widened(s) == [i \in 1..(2 * Len(s)) |-> IF i % 2 = 1 THEN s[(i + 1) \div 2] ELSE 0]

\* What differs from s in the case of letters only.
CaseCombinations(s) == {c \in [DOMAIN s -> Byte] : \A i \in DOMAIN s : Lower[c[i]] = Lower[s[i]]}

\* yr_parser_reduce_string_declaration: a string is ascii unless it is
\* declared something else.
Ascii(s) == s.ascii \/ (~s.wide /\ ~s.xor)

FitsInAtom(s, part) == (IF s.wide THEN 2 ELSE 1) * Len(part.text) <= MaxAtom

-----------------------------------------------------------------------------
(* yr_parser_reduce_string_declaration *)

TextPart(text) == [literal |-> TRUE, text |-> text]

RegexpPart(re) ==
  IF IsLiteral(re) THEN TextPart(LiteralOf(re))
  ELSE [literal |-> FALSE, re |-> re, forward |-> Code(re, FALSE), backward |-> Code(re, TRUE)]

\* What a declared string is compiled to: its body as parts, and what the
\* expression says of all of them.  Hex strings are dotall; without
\* alternatives they run fast.
Compiled(s) ==
  LET text  == s.kind = "text"
      chain == Chained(Operands(s.body))
      nodes == IF text THEN {} ELSE Nodes(s.body)
  IN [parts  |-> IF text THEN <<TextPart(s.body)>> ELSE [p \in DOMAIN chain |-> RegexpPart(chain[p].re)],
      gaps   |-> IF text THEN <<NoGap>> ELSE [p \in DOMAIN chain |-> chain[p].gap],
      greedy |-> \E r \in nodes : r.op \in Quantifiers /\ r.greedy,
      fast   |-> s.kind = "hex" /\ \A r \in nodes : r.op # "alt",
      dotall |-> s.kind = "hex" \/ s.dotall] @@ s

-----------------------------------------------------------------------------
(* yr_atoms_extract_from_string, with the window of the literal that the   *)
(* quality of its atoms chooses.                                           *)

PlainAtoms(s, part, window) ==
  {[bytes |-> SubSeq(part.text, window + 1, MinOf(Len(part.text), window + MaxAtom)),
    backtrack |-> window, code |-> [forward |-> 0, backward |-> 0]]}

\* The wide atom is cut where an atom ends.
WideAtom(a) ==
  [a EXCEPT !.bytes = SubSeq(Widened(@), 1, MinOf(2 * Len(@), MaxAtom)), !.backtrack = 2 * @]

WithWide(s, atoms) ==
  IF ~s.wide THEN atoms
  ELSE (IF Ascii(s) THEN atoms ELSE {}) \cup {WideAtom(a) : a \in atoms}

WithCases(s, atoms) ==
  IF ~s.nocase THEN atoms
  ELSE UNION {{[a EXCEPT !.bytes = c] : c \in CaseCombinations(a.bytes)} : a \in atoms}

\* The key zero is none of them: without another modifier the plain text is
\* not looked for.
WithXor(s, atoms) ==
  IF ~s.xor THEN atoms
  ELSE (IF Ascii(s) \/ s.wide \/ s.nocase THEN atoms ELSE {})
       \cup {[a EXCEPT !.bytes = Xored(a.bytes, k)] : a \in atoms, k \in Key}

AtomsOf(s, part, window) ==
  IF part.literal THEN WithXor(s, WithCases(s, WithWide(s, PlainAtoms(s, part, window))))
  ELSE WithCases(s, WithWide(s, AtomsOfRegexp(part.re, part.forward, part.backward)))

\* Where the atom of a literal may begin.
Windows(s, part) ==
  IF ~part.literal \/ Len(part.text) <= MaxAtom THEN {0} ELSE 0..(Len(part.text) - MaxAtom)

Parts(ss) == {<<k, p>> \in (1..Len(ss)) \X (1..3) : p <= Len(ss[k].parts)}

\* Each string's atoms enter the automaton in the order of its declaration,
\* the parts of a chain from the tail to the head.  The atoms of one string
\* come in any order: where two of its atoms end together, the order decides
\* only which of several lengths an ungreedy expression reports.
CompiledAtoms(ss, window) ==
  LET atoms(k, p) == FoldSet(LAMBDA a, list : Append(list, [bytes     |-> a.bytes,
                                                            backtrack |-> a.backtrack,
                                                            code      |-> a.code,
                                                            owner     |-> <<k, p>>]),
                             << >>, AtomsOf(ss[k], ss[k].parts[p], window[<<k, p>>]))
      ofString(k) == FlattenSeq(Reverse([p \in 1..Len(ss[k].parts) |-> atoms(k, p)]))
  IN FlattenSeq([k \in 1..Len(ss) |-> ofString(k)])

Init ==
  /\ case \in DOMAIN Cases
  /\ strings = [k \in DOMAIN Cases[case].strings |-> Compiled(Cases[case].strings[k])]
  /\ \E window \in [Parts(strings) -> 0..2] :
       /\ \A kp \in Parts(strings) :
            window[kp] \in Windows(strings[kp[1]], strings[kp[1]].parts[kp[2]])
       /\ InitAutomaton(CompiledAtoms(strings, window))
  /\ InitReading /\ result = "none"
  /\ matches = [k \in 1..Len(strings) |-> << >>]
  /\ unconfirmed = [k \in 1..Len(strings) |-> [p \in 1..Len(strings[k].parts) |-> << >>]]

Compile == Build /\ UNCHANGED <<rules, search>>

StartScan ==
  /\ result = "none"
  /\ \E block \in Cases[case].data : StartBlock(block)
  /\ result' = "scanning"
  /\ UNCHANGED <<automaton, rules, matches, unconfirmed>>

-----------------------------------------------------------------------------
(* The matches found so far travel through the checks of an atom as a      *)
(* record [matches, unconfirmed, failed].                                  *)

\* What the data holds at an offset, n bytes of it.
Here(offset, n) == SubSeq(data, offset + 1, offset + n)
HasRoom(offset, n) == offset + n <= Len(data)

\* _yr_scan_compare and its kin: how much of the data the text covers, or 0.
Compare(text, offset) ==
  IF HasRoom(offset, Len(text)) /\ Here(offset, Len(text)) = text THEN Len(text) ELSE 0

ICompare(text, offset) ==
  IF /\ HasRoom(offset, Len(text))
     /\ \A i \in DOMAIN text : Lower[data[offset + i]] = Lower[text[i]]
  THEN Len(text) ELSE 0

\* The zeroes between the letters are looked at here ...
WCompare(text, offset) ==
  IF /\ HasRoom(offset, 2 * Len(text)) /\ Here(offset, 2 * Len(text)) = Widened(text)
  THEN 2 * Len(text) ELSE 0

\* ... and not here.
WICompare(text, offset) ==
  IF /\ HasRoom(offset, 2 * Len(text))
     /\ \A i \in DOMAIN text : Lower[data[offset + 2 * i - 1]] = Lower[text[i]]
  THEN 2 * Len(text) ELSE 0

\* The key is what the first byte asks for, zero included.
XorCompare(text, offset) ==
  IF /\ HasRoom(offset, Len(text))
     /\ Here(offset, Len(text)) = Xored(text, Xor(data[offset + 1], text[1]))
  THEN Len(text) ELSE 0

\* The first of the comparisons, in their order, that covers something.
FirstOf(lengths) ==
  LET found == SelectSeq(lengths, LAMBDA n : n # 0) IN IF found = << >> THEN 0 ELSE found[1]

\* What of the data the text covers behind the offset, as its modifiers ask.
ForwardMatches(s, part, backtrack, offset) ==
  LET text == part.text IN
  IF FitsInAtom(s, part) THEN backtrack
  ELSE IF s.nocase
  THEN FirstOf(<< IF Ascii(s) THEN ICompare(text, offset) ELSE 0,
                  IF s.wide THEN WICompare(text, offset) ELSE 0 >>)
  ELSE FirstOf(<< IF Ascii(s) THEN Compare(text, offset) ELSE 0,
                  IF s.wide THEN WCompare(text, offset) ELSE 0,
                  IF s.xor /\ s.wide THEN XorCompare(Widened(text), offset) ELSE 0,
                  IF s.xor THEN XorCompare(text, offset) ELSE 0 >>)

IsAlnum(i) == data[i] \in Alnum

\* The word goes on before or behind the match, in the width of the match.
FullWord(offset, length, wide) ==
  LET end == offset + length IN
  IF wide
  THEN /\ ~(offset >= 2 /\ data[offset] = 0 /\ IsAlnum(offset - 1))
       /\ ~(end + 1 < Len(data) /\ data[end + 2] = 0 /\ IsAlnum(end + 1))
  ELSE /\ ~(offset >= 1 /\ IsAlnum(offset))
       /\ ~(end < Len(data) /\ IsAlnum(end + 1))

\* _yr_scan_add_match_to_list: sorted by offset, one match to an offset.
Added(list, m, replace) ==
  IF \E i \in DOMAIN list : list[i].offset = m.offset
  THEN IF replace THEN [i \in DOMAIN list |-> IF list[i].offset = m.offset THEN m ELSE list[i]] ELSE list
  ELSE SelectSeq(list, LAMBDA x : x.offset < m.offset) \o <<m>>
       \o SelectSeq(list, LAMBDA x : x.offset > m.offset)

Full(list) == Len(list) = MaxMatches

\* A match of the part before p, and the offset of one of p.
Fits(s, p, m, offset) ==
  LET end == m.offset + m.length IN
  end + s.gaps[p].max >= offset /\ end + s.gaps[p].min <= offset

\* _yr_scan_update_match_chain_length
RECURSIVE UpdateChain(_, _, _, _, _)
UpdateChain(un, k, p, i, length) ==
  IF un[k][p][i].chain = length THEN un
  ELSE LET set == [un EXCEPT ![k][p][i].chain = length] IN
       IF p = 1 THEN set
       ELSE FoldLeft(LAMBDA acc, j : IF Fits(strings[k], p, acc[k][p - 1][j], un[k][p][i].offset)
                                     THEN UpdateChain(acc, k, p - 1, j, length + 1) ELSE acc,
                     set, [j \in 1..Len(un[k][p - 1]) |-> j])

\* A head whose chain is complete becomes a match of the string.
ConfirmHead(acc, k, head, end) ==
  LET m == [offset |-> head.offset, length |-> end - head.offset] IN
  IF acc.failed \/ head.chain # Len(strings[k].parts) - 1 THEN acc
  ELSE LET removed == [acc EXCEPT !.unconfirmed[k][1] = SelectSeq(@, LAMBDA x : x # head)] IN
       IF Full(acc.matches[k]) THEN [removed EXCEPT !.failed = TRUE]
       ELSE [removed EXCEPT !.matches[k] = Added(@, m, FALSE)]

\* The tail of a chain has come.
ConfirmTail(acc, k, p, offset, length) ==
  LET s     == strings[k]
      chain == FoldLeft(LAMBDA un, j : IF Fits(s, p, un[k][p - 1][j], offset)
                                       THEN UpdateChain(un, k, p - 1, j, 1) ELSE un,
                        acc.unconfirmed, [j \in 1..Len(acc.unconfirmed[k][p - 1]) |-> j])
  IN FoldLeft(LAMBDA a, head : ConfirmHead(a, k, head, offset + length),
              [acc EXCEPT !.unconfirmed = chain], chain[k][1])

\* Mutant of LowestNeeded: what older matches of the part need is forgotten.
LowestOfMatch(acc, k, p, offset) == offset

LowestNeeded(acc, k, p, offset) ==
  IF acc.unconfirmed[k][p] = << >> THEN offset ELSE acc.unconfirmed[k][p][1].offset

\* Matches of the part before are given up when nothing can reach them any
\* more, as far as the list is read: to the first that fits.
WithoutOutdated(acc, k, p, offset) ==
  LET s        == strings[k]
      list     == acc.unconfirmed[k][p - 1]
      lower    == LowestNeeded(acc, k, p, offset)
      outdated(m) == m.offset + m.length + s.gaps[p].max < lower
      fitting  == {i \in DOMAIN list : ~outdated(list[i]) /\ Fits(s, p, list[i], offset)}
      before(i) == \A f \in fitting : i < f
      kept     == {i \in DOMAIN list : ~(before(i) /\ outdated(list[i]))}
  IN [rest |-> [i \in 1..Cardinality(kept) |->
                  list[CHOOSE j \in kept : Cardinality({h \in kept : h <= j}) = i]],
      found |-> fitting # {}]

\* _yr_scan_verify_chained_string_match
ChainedMatch(acc, k, p, offset, length) ==
  LET s      == strings[k]
      looked == IF p = 1 THEN [rest |-> << >>, found |-> TRUE] ELSE WithoutOutdated(acc, k, p, offset)
      kept   == IF p = 1 THEN acc ELSE [acc EXCEPT !.unconfirmed[k][p - 1] = looked.rest]
  IN
  IF ~looked.found THEN kept
  ELSE IF p = Len(s.parts) THEN ConfirmTail(kept, k, p, offset, length)
  ELSE IF Full(kept.unconfirmed[k][p]) THEN [kept EXCEPT !.failed = TRUE]
  ELSE [kept EXCEPT !.unconfirmed[k][p] = Added(@, [offset |-> offset, length |-> length, chain |-> 0], FALSE)]

\* _yr_scan_match_callback
Matched(acc, k, p, offset, length, wide) ==
  LET s == strings[k] IN
  IF acc.failed \/ (s.fullword /\ ~FullWord(offset, length, wide)) THEN acc
  ELSE IF Len(s.parts) > 1 THEN ChainedMatch(acc, k, p, offset, length)
  ELSE IF Full(acc.matches[k]) THEN [acc EXCEPT !.failed = TRUE]
  ELSE [acc EXCEPT !.matches[k] = Added(@, [offset |-> offset, length |-> length], s.greedy)]

\* _yr_scan_verify_literal_match
VerifyLiteral(acc, k, p, backtrack, offset) ==
  LET part   == strings[k].parts[p]
      length == ForwardMatches(strings[k], part, backtrack, offset)
  IN IF length = 0 THEN acc ELSE Matched(acc, k, p, offset, length, length = 2 * Len(part.text))

\* A run of a part's code from the atom.
RunOf(s, part, offset, backwards, wide) ==
  [code |-> IF backwards THEN part.backward.code ELSE part.forward.code,
   data |-> data, offset |-> offset, backwards |-> backwards, exhaustive |-> backwards,
   wide |-> wide, nocase |-> s.nocase, dotall |-> s.dotall]

\* Forwards from the atom; wide if it does not match ascii.
RunAhead(s, part, ip, offset) ==
  LET try(wide) == [wide |-> wide] @@ Execute(s.fast, RunOf(s, part, offset, FALSE, wide), ip)
      OrWide(ascii) == IF s.wide /\ ascii.lengths = << >> /\ ~ascii.failed THEN try(TRUE) ELSE ascii
  IN OrWide(IF Ascii(s) THEN try(FALSE) ELSE [wide |-> FALSE] @@ NoMatch)

\* Backwards, with a match of the string for every length behind the atom.
RunBehind(acc, k, p, ip, offset, length, wide) ==
  LET part == strings[k].parts[p]
      Take(behind) ==
        [FoldLeft(LAMBDA a, n : Matched(a, k, p, offset - n, n + length, wide), acc, behind.lengths)
           EXCEPT !.failed = @ \/ behind.failed]
  IN Take(Execute(strings[k].fast, RunOf(strings[k], part, offset, TRUE, wide), ip))

\* _yr_scan_verify_re_match
VerifyRegexp(acc, k, p, code, offset) ==
  LET Take(ahead) ==
        LET length == Last(ahead.lengths) IN
        IF ahead.failed THEN [acc EXCEPT !.failed = TRUE]
        ELSE IF ahead.lengths = << >> \/ (length = 0 /\ code.backward = 0) THEN acc
        ELSE IF code.backward = 0 THEN Matched(acc, k, p, offset, length, ahead.wide)
        ELSE RunBehind(acc, k, p, code.backward, offset, length, ahead.wide)
  IN Take(RunAhead(strings[k], strings[k].parts[p], code.forward, offset))

VerifyPart(acc, k, p, cell, offset) ==
  IF strings[k].parts[p].literal THEN VerifyLiteral(acc, k, p, cell.backtrack, offset)
  ELSE VerifyRegexp(acc, k, p, cell.code, offset)

\* Mutant of Verify: a fixed offset is not looked at.
VerifyAnywhere(acc, cell) ==
  LET offset == position - cell.backtrack IN
  IF acc.failed \/ cell.backtrack > position \/ Len(data) - offset <= 0 THEN acc
  ELSE VerifyPart(acc, cell.owner[1], cell.owner[2], cell, offset)

\* yr_scan_verify_match, when the atom does not begin before the data does.
\* Only a literal that is not chained to another part has a fixed offset.
Verify(acc, cell) ==
  LET k      == cell.owner[1]
      p      == cell.owner[2]
      s      == strings[k]
      offset == position - cell.backtrack
  IN
  IF acc.failed \/ cell.backtrack > position \/ Len(data) - offset <= 0 THEN acc
  ELSE IF s.at # Anywhere /\ p = 1 /\ s.parts[p].literal /\ s.at # offset THEN acc
  ELSE VerifyPart(acc, k, p, cell, offset)

\* The matches the state brings are verified, one after the other.
Verified ==
  FoldLeft(LAMBDA acc, c : Verify(acc, cells[c]),
           [matches |-> matches, unconfirmed |-> unconfirmed, failed |-> FALSE],
           AtomsHere)

\* _yr_scanner_scan_mem_block: the matches of the state, then the next byte.
\* A scan fails with ERROR_TOO_MANY_MATCHES or ERROR_TOO_MANY_RE_FIBERS.
Report(verified) == matches' = verified.matches /\ unconfirmed' = verified.unconfirmed

ScanByte ==
  LET Advance(verified) ==
        /\ Report(verified)
        /\ IF verified.failed
           THEN result' = "failed" /\ UNCHANGED reading
           ELSE ReadByte /\ UNCHANGED result
  IN
  /\ result = "scanning" /\ position < Len(data)
  /\ Advance(Verified)
  /\ UNCHANGED <<automaton, rules>>

ScanEnd ==
  LET Finish(verified) == Report(verified) /\ result' = IF verified.failed THEN "failed" ELSE "success"
  IN
  /\ result = "scanning" /\ position = Len(data)
  /\ Finish(Verified)
  /\ UNCHANGED <<automaton, rules, reading>>

Next == Compile \/ StartScan \/ ScanByte \/ ScanEnd

Spec == Init /\ [][Next]_vars

-----------------------------------------------------------------------------
(* What a string asks for, without atoms, automaton or lists.              *)

\* Whether a literal with its modifiers stands for these bytes: with `xor', the
\* text and all that a byte makes of it (writingrules.rst:369).
StandsFor(s, text, bytes) ==
  LET base  == (IF Ascii(s) \/ ~s.wide THEN {text} ELSE {})
               \cup (IF s.wide THEN {Widened(text)} ELSE {})
      same(c, d) == /\ Len(c) = Len(d)
                    /\ \A i \in DOMAIN c : IF s.nocase THEN Lower[c[i]] = Lower[d[i]] ELSE c[i] = d[i]
  IN \E c \in base : same(c, bytes) \/ (s.xor /\ \E k \in Key : same(c, Xored(bytes, k)))

\* Where a part occurs, how long it is there and whether it is wide.
LiteralOccurrences(s, text) ==
  UNION {{[offset |-> o, length |-> n, wide |-> n = 2 * Len(text)] :
            o \in {o \in 0..(Len(data) - n) : StandsFor(s, text, Here(o, n))}} :
          n \in {Len(text), 2 * Len(text)}}

RegexpOccurrences(s, re) ==
  LET widths == (IF Ascii(s) THEN {FALSE} ELSE {}) \cup (IF s.wide THEN {TRUE} ELSE {})
      run(w) == [data |-> data, wide |-> w, nocase |-> s.nocase, dotall |-> s.dotall]
  IN UNION {{[offset |-> o, length |-> e - o, wide |-> w] : e \in MatchEnds(run(w), re, o) \ {o}} :
              o \in 0..(Len(data) - 1), w \in widths}

Occurrences(s, p) ==
  LET part == s.parts[p] IN
  {o \in IF part.literal THEN LiteralOccurrences(s, part.text) ELSE RegexpOccurrences(s, part.re) :
     /\ s.fullword => FullWord(o.offset, o.length, o.wide)
     /\ p = 1 /\ part.literal /\ s.at # Anywhere => o.offset = s.at}

\* A chain is one occurrence of every part, each at the right distance.
ChainEnds(s, o) ==
  LET tails == {<<a, b>> \in Occurrences(s, 1) \X Occurrences(s, 2) : a = o /\ Fits(s, 2, a, b.offset)}
  IN IF Len(s.parts) = 1 THEN {o.offset + o.length}
     ELSE IF Len(s.parts) = 2 THEN {t[2].offset + t[2].length : t \in tails}
     ELSE {c.offset + c.length : c \in {c \in Occurrences(s, 3) :
                                          \E t \in tails : Fits(s, 3, t[2], c.offset)}}

\* A literal longer than an atom, whose text is compared when it is verified.
Long(s) == \E p \in DOMAIN s.parts : s.parts[p].literal /\ ~FitsInAtom(s, s.parts[p])

\* The text itself of a literal that is `xor' and nothing else: the code makes
\* no atom of it.
Unsought(s, o) ==
  s.xor /\ ~(Ascii(s) \/ s.wide \/ s.nocase) /\ Here(o.offset, o.length) = s.parts[1].text

\* What the code of an expression cannot do, or does not do as it is asked:
\* counting inside of what is counted, or what may be nothing;
Counted(re) == re.op = "range" /\ re.max > 1

Countable(re) ==
  \A r \in Nodes(re) : Counted(r) => MinLength(r.left) > 0 /\ \A q \in Nodes(r.left) : ~Counted(q)

\* an exact count with more behind it, whose atom may lie in a later round
\* than the code that goes on from it;
Overrun(re) ==
  \E c \in Nodes(re) : c.op = "concat" /\ \E r \in Nodes(c.left) : Counted(r) /\ r.min = r.max

\* an expression without atoms that begins behind its first split, or that
\* can be nothing and may prefer it.
Unentered(part) ==
  /\ \A a \in AtomsOfRegexp(part.re, part.forward, part.backward) : a.bytes = << >>
  /\ part.forward.entry > 0 \/ MinLength(part.re) = 0

\* The expressions a scan finds wherever they are.  One that is both ascii
\* and wide is not tried wide where what follows the atom matches ascii; of
\* the lengths behind an atom only one is tried, which full words and chains
\* may not do with.
Found(s, part) ==
  /\ Countable(part.re) /\ ~Overrun(part.re) /\ ~Unentered(part)
  /\ ~(Ascii(s) /\ s.wide)
  /\ s.fullword \/ Len(s.parts) > 1 => OneLength(part.re)

Expressions(s) == {part \in ToSet(s.parts) : ~part.literal}

\* Whether m is as long as the quantifier that decides its length asks for; a
\* fast run tries the least of a jump, then the most.
Preferred(s, m) ==
  Len(s.parts) = 1 /\ Expressions(s) # {} /\ ~s.fast =>
    LET re == s.parts[1].re IN
    Choosing(re) => \A o \in Occurrences(s, 1) :
      o.offset = m.offset => IF s.greedy THEN o.length <= m.length ELSE m.length <= o.length

(* A scan that ends without an error has found every place where a string  *)
(* occurs, whatever atom was taken from it, whatever other strings share   *)
(* the automaton, and whatever of a chain was given up on the way; a chain *)
(* ends at the first tail that completes it.  Where one quantifier decides *)
(* the length of an expression, a greedy one gives the longest match, the  *)
(* others the shortest.  Literals with nocase and xor that do not fit in   *)
(* an atom are left out: their xored texts are found by the automaton and  *)
(* then never compared; the text itself where a literal is xor and nothing *)
(* else, which the documentation counts among its occurrences and the code *)
(* does not look for; and the expressions that Found leaves out.           *)
NoneMissed ==
  result = "success" =>
    \A k \in 1..Len(strings) :
      LET s == strings[k] IN
      ~(Long(s) /\ s.nocase /\ s.xor) /\ (\A part \in Expressions(s) : Found(s, part)) =>
        \A o \in Occurrences(s, 1) :
          ChainEnds(s, o) # {} /\ ~Unsought(s, o) =>
            \E i \in DOMAIN matches[k] :
              LET m == matches[k][i] IN
              /\ m.offset = o.offset /\ Preferred(s, m)
              /\ Len(s.parts) > 1 => \A e \in ChainEnds(s, o) : m.offset + m.length <= e

(* A match is a place where the string occurs, at any time of a scan, also *)
(* of one that fails.  Two kinds of literals that do not fit in an atom    *)
(* are left out.  Wide ones with nocase: what lies between their letters   *)
(* is not compared.  Wide ones with xor that are not ascii: where a byte   *)
(* behind an atom happens to be its key, xored text that is not wide is    *)
(* taken too.                                                              *)
NoneInvented ==
  \A k \in 1..Len(strings) :
    LET s == strings[k] IN
    /\ ~(Long(s) /\ s.wide /\ (s.nocase \/ (s.xor /\ ~Ascii(s))))
    /\ \A part \in Expressions(s) : Countable(part.re)
    => \A i \in DOMAIN matches[k] :
         LET m == matches[k][i] IN
         \E o \in Occurrences(s, 1) :
           o.offset = m.offset /\ m.offset + m.length \in ChainEnds(s, o)
=============================================================================
