------------------------------ MODULE AhoCorasick ------------------------------
(***************************************************************************)
(* The automaton of libyara that finds the atoms of all strings in one     *)
(* pass: a trie, the failure links laid over it breadth first, the links   *)
(* that can be skipped taken out, and the states packed into one table in  *)
(* which the transitions of several states interleave.                     *)
(*                                                                         *)
(* A state of the trie is the sequence of bytes that leads to it.  The     *)
(* matches of the states are cells of linked lists which share their tails.*)
(***************************************************************************)
EXTENDS Integers, Sequences, FiniteSets, SequencesExt, TLC

CONSTANTS
  Byte,         \* 0 .. n
  InitialSize   \* entries of the table when it is first allocated

ASSUME AutomatonAssumption ==
  /\ IsFiniteSet(Byte) /\ Byte = 0..(Cardinality(Byte) - 1)
  /\ InitialSize \in Nat /\ InitialSize >= 2 * (Cardinality(Byte) + 1)

VARIABLES
  phase,     \* what is being built
  todo,      \* the atoms still to be added
  children,  \* the bytes of each state's children, the youngest first
  failure,   \* the failure link of each state
  cells,     \* the YR_AC_MATCHes, each with the number of the next or 0
  heads,     \* the first match of each state, or 0
  queue,     \* the QUEUE of states
  table,     \* the transition table; each entry has a target and an offset
  matchTable,     \* the match table: the first match of the state at a slot
  used,      \* the bitmask of taken entries
  tableSlot       \* where each state is in the table

automaton == <<phase, todo, children, failure, cells, heads, queue, table, matchTable, used, tableSlot>>

Root  == << >>
State == DOMAIN children
Width == Cardinality(Byte) + 1   \* a link and one entry for each byte

InitAutomaton(atoms) ==
  /\ phase = "add" /\ todo = atoms
  /\ children = [s \in {Root} |-> << >>]
  /\ failure = [s \in {Root} |-> Root] /\ heads = [s \in {Root} |-> 0]
  /\ cells = << >> /\ queue = << >>
  /\ table = << >> /\ matchTable = << >> /\ used = {} /\ tableSlot = << >>

Children(s) == [i \in 1..Len(children[s]) |-> Append(s, children[s][i])]

HasChild(s, b) == \E i \in 1..Len(children[s]) : children[s][i] = b

\* The places a walk comes to that goes from x to f[x], and on.
Iterated(f, x) == LET at[n \in Nat] == IF n = 0 THEN x ELSE f[at[n - 1]] IN at

\* The first step, of those up to a bound, after which a walk is in S.
FirstIn(S, walk, bound) ==
  CHOOSE n \in 0..bound : walk[n] \in S /\ \A m \in 0..(n - 1) : walk[m] \notin S

(* The cells of a list from c on, and its last one. *)
NextCell(cs) == [c \in 0..Len(cs) |-> IF c = 0 THEN 0 ELSE cs[c].next]

Cells(cs, c) ==
  LET walk == Iterated(NextCell(cs), c) IN [i \in 1..FirstIn({0}, walk, Len(cs)) |-> walk[i - 1]]

LastCell(cs, c) == Last(Cells(cs, c))

-----------------------------------------------------------------------------
\* yr_ac_add_string, for one atom: the states it lacks are created in front
\* of their siblings, its match goes to the head of the list of the last.
AddAtom ==
  LET atom  == Head(todo)
      path  == atom.bytes
      grown == State \cup {SubSeq(path, 1, n) : n \in 0..Len(path)}
      old(s) == IF s \in State THEN children[s] ELSE << >>
  IN
  /\ phase = "add" /\ todo # << >>
  /\ children' = [s \in grown |->
       IF Len(s) < Len(path) /\ IsPrefix(s, path) /\ SubSeq(path, 1, Len(s) + 1) \notin State
       THEN <<path[Len(s) + 1]>> \o old(s) ELSE old(s)]
  /\ failure' = [s \in grown |-> Root]
  /\ cells' = Append(cells, [backtrack |-> Len(path) + atom.backtrack, owner |-> atom.owner,
                             bytes |-> path, code |-> atom.code,
                             next |-> IF path \in State THEN heads[path] ELSE 0])
  /\ heads' = [s \in grown |-> IF s = path THEN Len(cells) + 1
                               ELSE IF s \in State THEN heads[s] ELSE 0]
  /\ todo' = Tail(todo)
  /\ UNCHANGED <<phase, queue, table, matchTable, used, tableSlot>>

Enter(next) ==
  /\ phase' = next
  /\ queue' = Children(Root)

StartLinks ==
  /\ phase = "add" /\ todo = << >>
  /\ Enter("link")
  /\ UNCHANGED <<todo, children, failure, cells, heads, table, matchTable, used, tableSlot>>

(* _yr_ac_create_failure_links, for one state of the queue. *)

\* Mutant of WithRoot: the end of the list is not looked at.
WithRootAlways(cs, hs, s) ==
  IF hs[s] = 0
  THEN [cells |-> cs, heads |-> [hs EXCEPT ![s] = hs[Root]]]
  ELSE [cells |-> [cs EXCEPT ![LastCell(cs, hs[s])].next = hs[Root]], heads |-> hs]

\* The root's matches hold in every state, so they end every list that does
\* not end in them already; those are the matches without backtracking.
WithRoot(cs, hs, s) ==
  IF hs[s] = 0
  THEN [cells |-> cs, heads |-> [hs EXCEPT ![s] = hs[Root]]]
  ELSE LET last == LastCell(cs, hs[s]) IN
       [cells |-> IF cs[last].backtrack > 0 THEN [cs EXCEPT ![last].next = hs[Root]] ELSE cs,
        heads |-> hs]

\* The state the child of f by b goes to when it fails, or none.
FailureTarget(f, b) ==
  LET walk == Iterated(failure, f)
      stop == walk[FirstIn({Root} \cup {t \in State : HasChild(t, b)}, walk, Len(f))]
  IN IF HasChild(stop, b) THEN <<Append(stop, b)>> ELSE << >>

\* Mutant of LinkChild: a state with matches of its own keeps only those.
LinkChildWithoutMatches(s, acc, b) ==
  LET child  == Append(s, b)
      target == FailureTarget(failure[s], b)
  IN
  IF target = << >> THEN [acc EXCEPT !.failure[child] = Root]
  ELSE IF acc.heads[child] = 0
  THEN [acc EXCEPT !.failure[child] = target[1], !.heads[child] = acc.heads[target[1]]]
  ELSE [acc EXCEPT !.failure[child] = target[1]]

\* The list of a state goes on with the list of the state it fails to.
LinkChild(s, acc, b) ==
  LET child  == Append(s, b)
      target == FailureTarget(failure[s], b)
  IN
  IF target = << >> THEN [acc EXCEPT !.failure[child] = Root]
  ELSE LET t == target[1] IN
       IF acc.heads[child] = 0
       THEN [acc EXCEPT !.failure[child] = t, !.heads[child] = acc.heads[t]]
       ELSE [acc EXCEPT !.failure[child] = t,
                        !.cells[LastCell(acc.cells, acc.heads[child])].next = acc.heads[t]]

\* The first n children of s, one after the other.
LinkChildren(s, unlinked, n) ==
  LET after[i \in 0..n] == IF i = 0 THEN unlinked ELSE LinkChild(s, after[i - 1], children[s][i])
  IN after[n]

LinkState ==
  /\ phase = "link" /\ queue # << >>
  /\ LET s      == Head(queue)
         rooted == WithRoot(cells, heads, s)
         linked == LinkChildren(s, [cells |-> rooted.cells, heads |-> rooted.heads, failure |-> failure],
                                Len(children[s]))
     IN /\ cells' = linked.cells /\ heads' = linked.heads /\ failure' = linked.failure
        /\ queue' = Tail(queue) \o Children(s)
  /\ UNCHANGED <<phase, todo, children, table, matchTable, used, tableSlot>>

StartOptimize ==
  /\ phase = "link" /\ queue = << >>
  /\ Enter("optimize")
  /\ UNCHANGED <<todo, children, failure, cells, heads, table, matchTable, used, tableSlot>>

\* What s2 accepts is accepted in s1 too.
TransitionsSubset(s1, s2) == ToSet(children[s2]) \subseteq ToSet(children[s1])

\* Where the next state fails on the same bytes, its failure link will do.
OptimizeState ==
  LET s == Head(queue) IN
  /\ phase = "optimize" /\ queue # << >>
  /\ failure' = IF failure[s] # Root /\ TransitionsSubset(s, failure[s])
                THEN [failure EXCEPT ![s] = failure[failure[s]]] ELSE failure
  /\ queue' = Tail(queue) \o Children(s)
  /\ UNCHANGED <<phase, todo, children, cells, heads, table, matchTable, used, tableSlot>>

(* _yr_ac_build_transition_table. *)

Empty == [to |-> 0, offset |-> 0]

\* The children of the state at slot k take the entries of their bytes.
WithChildren(t, s, k) ==
  [e \in DOMAIN t |-> IF \E b \in ToSet(children[s]) : e = k + b + 1
                      THEN [to |-> 0, offset |-> e - k] ELSE t[e]]

Taken(s, k) == {k} \cup {k + b + 1 : b \in ToSet(children[s])}

SlotsWithChildren(sl, s, k) ==
  [c \in DOMAIN sl \cup ToSet(Children(s)) |->
     IF c \in ToSet(Children(s)) THEN k + Last(c) + 1 ELSE sl[c]]

StartTable ==
  /\ phase = "optimize" /\ queue = << >>
  /\ Enter("table")
  /\ table' = WithChildren([e \in 0..(InitialSize - 1) |-> Empty], Root, 0)
  /\ matchTable' = [e \in 0..(InitialSize - 1) |-> IF e = 0 THEN heads[Root] ELSE 0]
  /\ used' = Taken(Root, 0)
  /\ tableSlot' = SlotsWithChildren([s \in {Root} |-> 0], Root, 0)
  /\ UNCHANGED <<todo, children, failure, cells, heads>>

\* Mutant of SuitableSlot: only the entry of the link is asked for.
SlotOfFreeLink(s) ==
  CHOOSE k \in 0..Cardinality(DOMAIN table) : k \notin used /\ \A lower \in 0..(k - 1) : lower \in used

\* yr_bitmask_find_non_colliding_offset: the lowest slot where none of the
\* state's entries is taken; past the end of the table all are free.
SuitableSlot(s) ==
  CHOOSE k \in 0..Cardinality(DOMAIN table) :
    /\ Taken(s, k) \cap used = {}
    /\ \A lower \in 0..(k - 1) : Taken(s, lower) \cap used # {}

\* The table doubles when a state could reach past its end.
PlaceState ==
  LET s    == Head(queue)
      size == Cardinality(DOMAIN table)
      k    == SuitableSlot(s)
      room == 0..((IF k > size - Width THEN 2 * size ELSE size) - 1)
      old  == [e \in room |-> IF e < size THEN table[e] ELSE Empty]
  IN
  /\ phase = "table" /\ queue # << >>
  /\ table' = WithChildren(
       [old EXCEPT ![tableSlot[s]].to = k, ![k] = [to |-> tableSlot[failure[s]], offset |-> 0]], s, k)
  /\ matchTable' = [e \in room |-> IF e = k THEN heads[s] ELSE IF e < size THEN matchTable[e] ELSE 0]
  /\ used' = used \cup Taken(s, k)
  /\ tableSlot' = SlotsWithChildren([tableSlot EXCEPT ![s] = k], s, k)
  /\ queue' = Tail(queue) \o Children(s)
  /\ UNCHANGED <<phase, todo, children, failure, cells, heads>>

TableDone ==
  /\ phase = "table" /\ queue = << >>
  /\ phase' = "ready"
  /\ UNCHANGED <<todo, children, failure, cells, heads, queue, table, matchTable, used, tableSlot>>

Build ==
  \/ AddAtom \/ StartLinks \/ LinkState \/ StartOptimize \/ OptimizeState
  \/ StartTable \/ PlaceState \/ TableDone

\* The next state of a scan: links are followed until a state has the byte.
Follow(state, index) ==
  LET Has(k)   == table[k + index].offset = index
      Stops(k) == k = 0 \/ Has(k)
      walk     == Iterated([k \in DOMAIN table |-> table[k].to], state)
      last     == CHOOSE n \in 0..Cardinality(DOMAIN table) :
                    Stops(walk[n]) /\ \A m \in 0..(n - 1) : ~Stops(walk[m])
      stop     == walk[last]
  IN IF Has(stop) THEN table[stop + index].to ELSE 0

-----------------------------------------------------------------------------
(* Linking never closes a list into a ring: following next from any state  *)
(* ends within as many steps as there are matches.  A ring would keep the  *)
(* scan of the first file that reaches the state from ever ending.         *)
ListsEnd == \A s \in State : \E n \in 0..Len(cells) : Iterated(NextCell(cells), heads[s])[n] = 0

(* Once the links are made, a state lists each atom that ends where it     *)
(* stands, once, its own and those of every state it fails to.             *)
ListsComplete ==
  phase \notin {"add", "link"} =>
    \A s \in State :
      LET list == Cells(cells, heads[s]) IN
      /\ ToSet(list) = {c \in 1..Len(cells) : IsSuffix(cells[c].bytes, s)}
      /\ IsInjective(list)

-----------------------------------------------------------------------------
(* Every step leaves the trie, the failure links and the lists as they     *)
(* have to be then: each link leads to the longest suffix there is, and    *)
(* each list goes on, from any of its cells, with the next that belongs to *)
(* it, however many lists share the cell.                                  *)

\* What an atom needs to be: the one that is empty, of a string without
\* atoms, has no backtracking.
IsAtom(a) == a.bytes \in Seq(Byte) /\ a.backtrack \in Nat /\ (a.bytes = Root => a.backtrack = 0)

Atoms(list) == list \in Seq(ToSet(list)) /\ \A a \in ToSet(list) : IsAtom(a)

\* The states are the beginnings of atoms; each knows its children.
Trie ==
  /\ State \subseteq Seq(Byte) /\ Root \in State
  /\ \A u \in State : \A n \in 0..Len(u) : SubSeq(u, 1, n) \in State
  /\ \A u \in State :
       /\ children[u] \in Seq(Byte) /\ IsInjective(children[u])
       /\ \A b \in Byte : HasChild(u, b) <=> Append(u, b) \in State
  /\ failure = [u \in State |-> failure[u]] /\ heads = [u \in State |-> heads[u]]

IsCell(c) ==
  c = [backtrack |-> c.backtrack, owner |-> c.owner, bytes |-> c.bytes, code |-> c.code, next |-> c.next]

Matches(cs) ==
  /\ cs \in Seq(ToSet(cs))
  /\ \A c \in 1..Len(cs) :
       /\ IsCell(cs[c])
       /\ cs[c].bytes \in State /\ cs[c].next \in 0..Len(cs)
       /\ cs[c].backtrack \in Nat /\ (cs[c].backtrack = 0 <=> cs[c].bytes = Root)

\* The cells of u, those that belong to its list, and those but the root's.
Own(cs, u)    == {c \in 1..Len(cs) : cs[c].bytes = u}
Ending(cs, u) == {c \in 1..Len(cs) : IsSuffix(cs[c].bytes, u)}
Proper(cs, u) == Ending(cs, u) \ Own(cs, Root)

\* In all lists longer atoms come first and, of one atom, the latest cell.
Under(cs, d, c) ==
  \/ Len(cs[d].bytes) < Len(cs[c].bytes)
  \/ Len(cs[d].bytes) = Len(cs[c].bytes) /\ d < c

Below(cs, c) == {d \in 1..Len(cs) : Under(cs, d, c)}

IsFirst(cs, x, S) ==
  IF S = {} THEN x = 0 ELSE x \in S /\ \A d \in S \ {x} : Under(cs, d, x)

(* x is where the list of u goes on, of the cells in S.  An unlinked state *)
(* lists its own cells; a rooted one all that belong to it; in between the *)
(* root's may be missing, or there because a list that is shared has them. *)
GoesOn(cs, hs, unlinked, rooted, x, u, S) ==
  IF u \in unlinked THEN IsFirst(cs, x, S \cap Own(cs, u))
  ELSE IF u \in rooted THEN IsFirst(cs, x, S \cap Ending(cs, u))
  ELSE \/ IsFirst(cs, x, S \cap Proper(cs, u))
       \/ S \cap Proper(cs, u) = {} /\ x = hs[Root]

Listing(cs, hs, unlinked, rooted) ==
  /\ \A u \in State : GoesOn(cs, hs, unlinked, rooted, hs[u], u, 1..Len(cs))
  /\ \A c \in 1..Len(cs) :
       GoesOn(cs, hs, unlinked, rooted, cs[c].next, cs[c].bytes, Below(cs, c))

\* The longest state that u ends in, u itself excepted.
Fails(f, u) ==
  /\ f \in State /\ f # u /\ IsSuffix(f, u)
  /\ \A v \in State : v # u /\ IsSuffix(v, u) => IsSuffix(v, f)

\* Below the states of the queue nothing is linked; the others but they have
\* the root's matches.
Unlinked == {u \in State : \E i \in 1..Len(queue) : IsPrefix(queue[i], u) /\ u # queue[i]}
Rooted   == {u \in State : \A i \in 1..Len(queue) : ~IsPrefix(queue[i], u)}

\* The queue goes breadth first: by depth, and no state is below another.
Breadth ==
  /\ queue \in Seq(State \ {Root})
  /\ \A i, j \in 1..Len(queue) :
       i < j => /\ Len(queue[i]) <= Len(queue[j]) /\ Len(queue[j]) <= Len(queue[1]) + 1
                /\ ~IsPrefix(queue[i], queue[j]) /\ ~IsPrefix(queue[j], queue[i])

Construction ==
  /\ phase \in {"add", "link", "optimize", "table", "ready"}
  /\ Trie /\ Matches(cells)
  /\ phase = "add"  => /\ Atoms(todo) /\ Listing(cells, heads, State, {})
                       /\ \A u \in State : failure[u] = Root
  /\ phase = "link" => /\ Breadth /\ Listing(cells, heads, Unlinked, Rooted)
                       /\ failure[Root] = Root
                       /\ \A u \in State \ (Unlinked \cup {Root}) : Fails(failure[u], u)
  /\ phase \notin {"add", "link"} => Listing(cells, heads, {}, State)

-----------------------------------------------------------------------------
(* The inductive invariant of the tables.                                  *)

\* A failure link may be shortened past states that accept nothing more.
Skips(f, u) ==
  /\ f \in State /\ f # u /\ IsSuffix(f, u)
  /\ \A v \in State : v # u /\ IsSuffix(v, u) /\ Len(f) < Len(v) => TransitionsSubset(u, v)

Shortened == failure[Root] = Root /\ \A u \in State \ {Root} : Skips(failure[u], u)

TableSize == Cardinality(DOMAIN table)

\* The states that left the queue have their own entries.
Placed == Rooted

TakenBy(u) == Taken(u, tableSlot[u])

\* The first leads where u fails to, the others to the children that have
\* entries of their own.
Row(u) ==
  LET k == tableSlot[u] IN
  /\ k \in Nat /\ k + Width <= TableSize /\ failure[u] \in Placed
  /\ table[k] = [to |-> tableSlot[failure[u]], offset |-> 0]
  /\ matchTable[k] = heads[u]
  /\ \A b \in Byte : HasChild(u, b) =>
       /\ table[k + b + 1].offset = b + 1
       /\ Append(u, b) \in Placed => table[k + b + 1].to = tableSlot[Append(u, b)]

\* The entries lie across each other and no two are one.
Packed ==
  /\ TableSize \in Nat /\ TableSize >= Width
  /\ table \in [0..(TableSize - 1) -> [to : Nat, offset : Nat]]
  /\ tableSlot[Root] = 0 /\ \A u \in Placed : Row(u)
  /\ used = UNION {TakenBy(u) : u \in Placed}
  /\ \A u, v \in Placed : u # v => TakenBy(u) \cap TakenBy(v) = {}
  /\ \A e \in (0..(TableSize - 1)) \ used : table[e].offset = 0
  /\ DOMAIN tableSlot = Placed \cup ToSet(queue)
  /\ \A u \in Placed : \A b \in Byte :
       HasChild(u, b) /\ Append(u, b) \notin Placed => tableSlot[Append(u, b)] = tableSlot[u] + b + 1

Packing ==
  /\ phase \in {"optimize", "table"} => Breadth
  /\ phase \notin {"add", "link"} => Shortened
  /\ phase \in {"table", "ready"} => Packed
  /\ phase = "ready" => queue = << >>
=============================================================================
