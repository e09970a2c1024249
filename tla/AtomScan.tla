------------------------------- MODULE AtomScan -------------------------------
(***************************************************************************)
(* How libyara reads a block of data with the automaton: byte by byte, the *)
(* state goes on in the packed table, and what the state lists are the     *)
(* atoms that end where the reading is.                                    *)
(***************************************************************************)
EXTENDS AhoCorasick

VARIABLES
  data,         \* the block scanned
  position,     \* the bytes of it read
  state         \* the state of the automaton, a slot of the table

reading == <<data, position, state>>

InitReading == data = << >> /\ position = 0 /\ state = 0

\* _yr_scanner_scan_mem_block starts every block in the root.
StartBlock(block) ==
  /\ phase = "ready"
  /\ data' = block /\ position' = 0 /\ state' = 0

ReadByte ==
  /\ position < Len(data)
  /\ position' = position + 1 /\ state' = Follow(state, data[position + 1] + 1)
  /\ UNCHANGED data

\* The automaton is built, and blocks of any bytes are read with it.
ReadingNext ==
  \/ Build /\ UNCHANGED reading
  \/ UNCHANGED automaton /\ (ReadByte \/ \E block \in Seq(Byte) : StartBlock(block))

\* The matches that are verified at this position.
AtomsHere == Cells(cells, matchTable[state])

-----------------------------------------------------------------------------
\* The slot k is that of the longest state that what was read ends in.
AtLongest(read, k) ==
  \E s \in State : /\ tableSlot[s] = k /\ IsSuffix(s, read)
                   /\ \A t \in State : IsSuffix(t, read) => Len(t) <= Len(s)

(* The automaton stands where the bytes read last are the longest ones     *)
(* that begin an atom - although links are left out and the tables of its  *)
(* states lie across each other.                                           *)
LongestSuffix == phase = "ready" => AtLongest(SubSeq(data, 1, position), state)

(* So at each position the atoms that end there are looked at, all of      *)
(* them, no others, and none twice: a missing one is a string not found.   *)
AtomsFound ==
  phase = "ready" =>
    /\ ToSet(AtomsHere) = {c \in 1..Len(cells) : IsSuffix(cells[c].bytes, SubSeq(data, 1, position))}
    /\ IsInjective(AtomsHere)
=============================================================================
