# Judge-Jury-and-Executable: a TLA+ verification project

Judge-Jury-and-Executable reads the Master File Table (MFT) of an NTFS volume, computes
properties of every file it lists (hashes, entropy, signature trust, PE data, YARA
matches) and stores one row per file in CSV, SQLite or SQL Server. It has a Windows
Forms front end and a console front end over one core, and scans with a copy of libyara
that it carries. This directory holds TLA+ modules that model its logic, TLC
configurations that check them on small instances, and TLAPS proofs that hold for every
instance.

Paths below are relative to `src/Source/` unless they start with `src/`. Shortened names:
*FileProperties* and `Helpers/` are under `Core/FilePropertiesDataObject/`, *NtfsReader*
is `Core/NtfsReader/System/IO/Filesystem/Ntfs/`, the data layers are under
`Core/DataAccessLayers/`, *libyara* is `Core/YaraSharp/yara-master/libyara/`, and
`writingrules.rst` is in the `docs/` beside it.

Contents: 1 Inventory; 2 Plan; 3 Modules and the code; 4 Runs; 5 Bounds; 6 Fairness;
7 Proofs; 8 Disagreements found; 9 What is abstracted and what is not modelled.

## 1. Inventory

| Component | State it keeps | Operations | Talks to | Module |
|---|---|---|---|---|
| **Scan session** (`JudgeJuryAndExecutableGUI/Toggle.cs`, scanning part of `MainForm.cs`, `Core/FilePropertiesEnumerator/FileEnumerator.cs`) | `Toggle.CurrentState`; the form's enabled flags; `cancelTokenSource`; the task and its continuation; counts | Scan, Cancel, Enter, close; `BeginScanning`, `LaunchFileEnumerator`, `Worker`, `ReportTotals`, `SetState` | UI thread and thread pool share the toggle with no lock; the task calls the form through `Invoke`; the token travels in `FileEnumeratorParameters` | `ScanSession`, `ExclusiveScan` |
| **File properties** (`FileProperties.cs`, `PeData.cs`, `Helpers/`) | one object per file; static cancellation token and timers | `PopulateFileProperties` (large and small path) | called by `Worker` once per node; reads file data through the NTFS reader | in part: `ScanSession`, `YaraRuleCache` |
| **YARA rules of a scan** (`FileProperties.cs`, `YaraFilter.cs`, `Helpers/YaraHelper.cs`) | static dictionary of compiled rules; static YARA context | `GetCompiledYaraRules`, `PopulateYaraInfo`, `CleanUp`, `ProcessRule`, `FilterMatches` | rule files on disk, which analysts edit; the native scanners of YaraSharp | `YaraRuleCache` |
| **YaraSharp wrapper** (`Core/YaraSharp/YaraSharp/*.cpp`) | native compiler, rules, scanner; the matches of a scan | `TryAddFile`, `GetRules`, `ScanMemory` | C++/CLI over libyara | in part: `NativeScans`, `YaraRuleCache` |
| **libyara: slots and scans** (`scanner.c`, `modules.c`) | per compiled rules: a mask of slots and arrays indexed by slot; per scanner: entry point, modules, lists of what it touched | `yr_scanner_scan_mem_blocks` and what it calls | the rules are shared by all scanners | `NativeScans` |
| **libyara: search for strings** (`ahocorasick.c`, `atoms.c`, `bitmask.c`, `scan.c`) | the automaton; matches of a scan | compiling the atoms, scanning a block, verifying atoms, chains | called per block by the scan | `AhoCorasick`, `AtomScan`, `StringSearch` |
| **libyara: expressions** (`re.c`, `atoms.c`, part of `parser.c`) | code of an expression in both directions; the fibers of a run and their pool | cutting into chains, emitting code, extracting atoms, running the code | strings call it when they are compiled and when an atom of theirs is found | `Regexp` |
| **libyara: conditions** (`grammar.y`, `parser.c`, `exec.c`) | emitted code; stack and loop memory | the grammar's actions for loops and strings; `yr_execute_code` | called once per scan, reads the matches | `RuleConditions` |
| **SQL Server layer** (`SqlDataAccessLayer/`) | a connection string; one table shared by machines | constructor (check, create), `PersistFileProperties`, `GetExistingYaraRules` | called by `Worker` once per row; other machines share the table | `SqlPersistence` |
| **SQLite layer** (`SqliteDataAccessLayer/`, `Helpers/SequentialFilename.cs`) | a lazy connection, a static connection string, a database file | `PrepareDatabase`, `PersistFileProperties`, `Dispose`, the console's search for a name | called by `Worker` once per row; other programs may choose the same file | `SqlitePersistence` |
| **CSV layer** (`CsvDataAccessLayer/`) | a writer on one file | constructor (header), `PersistFileProperties`, `Dispose` | called by `Worker` once per row | none |
| **MFT reading** (`NtfsReader.cs`: `ProcessMft`, `ReadNextChunk`, `ReadFile`, `FixupRawMftdata`) | a 256 KB buffer; positions by reference; table of nodes | chunked reading and decoding of records | the raw volume, which is in use | `MftChunks` |
| **Record attributes and run lists** (`NtfsReader.cs`: `ProcessAttributes`, `ProcessFragments`) | streams and fragments of a node | decoding | called per record by `ProcessMftRecord` | in part: `FileContents` |
| **Node paths** (`NtfsReader.Algorithms.cs`, `NtfsReader.Public.cs`, `Internal/NodeWrapper.cs`) | parent numbers, name index | `GetNodes`, `GetNodeFullNameCore` | the nodes read before | `NodePath` |
| **File contents** (`NtfsReader.Public.cs`: `ReadFileSafe`) | positions of one iterator | reading the clusters of every fragment | hashing, entropy and YARA of files that cannot be opened | `FileContents` |
| **YARA filter editor** (`MainForm.cs`) | list of filters, the filter being edited, its unsaved rule files | add, edit, remove, save, load | the list is copied into the parameters when a scan starts | none |
| **Console front end** (`JudgeJuryAndExecutableConsole/Program.cs`) | parsed flags | `Main`, `GetFlags`, `ReportResults` | runs the worker on its own thread | in part: `SqlitePersistence`, `ScanSession` |
| **Helpers** (`EntropyHelper`, `Hash`, `TimingMetrics`, `Logging/Log.cs`) | counters, a log file | pure or file-system operations | everybody | in part |
| **libyara: generated parsers, file formats**, `src/Binaries`, SQL scripts, designer files | generated tables, field offsets, build output | | | none |

### What is hard in this code, and what correct means

* **Scan session.** Three threads of control (UI thread, pool task, continuation) share a
  toggle without a lock; cancellation, closing, reporting and restarting race, and the UI
  thread serves `Invoke` only while it pumps messages. Correct: one scan at a time uses
  the static members; cancelling stops the running scan soon and no other; the counts of
  the report add up; the program returns to Ready.
* **YARA rules.** The dictionary of compiled rules is static, keyed by rule file names,
  filled lazily, and emptied only by a scan that was not cancelled. Correct: a file is
  scanned with the rules its filters select, by a scanner that is alive, compiled from
  the rule files as they are in this scan; the matches recorded are its own.
* **Native scans.** What a scan finds is stored in the compiled rules themselves, and the
  scan may fail, meet an exception or be aborted at many places. Correct: slots are
  exclusive and clean when free, and a scan that succeeds reports what its file satisfies.
* **Search for strings.** Failure links, interleaved tables, shared match lists, atoms
  chosen from anywhere in a string, modifiers that multiply, chains whose parts are
  forgotten on the way. Correct: every occurrence is reported and nothing else.
* **Expressions.** An expression is entered in the middle, where its atom is, and run from
  there in both directions; repeated bodies are emitted more than once; fibers are merged,
  bounded and given up. Correct: what matches from the atom is what the expression says.
* **Conditions.** Loops in loops on one stack and one memory, undefined values, strings
  that are looked for less thoroughly because of how conditions use them. Correct: a
  rule matches if and only if its condition holds.
* **Data layers.** Several programs update one table with read-modify-write sequences that
  are not transactions; the statements of a row may fail one at a time, and programs die
  between them; SQLite files are created by whoever finds them missing. Correct: one row
  per file, a prevalence count equal to the number of sightings, no rule name lost, and no
  success reported for a file that is not recorded.
* **MFT reading.** A fragmented table is read in chunks that are cut at the ends of the
  runs, with positions that survive from chunk to chunk, into unsafe memory, and a failed
  read is silent. Correct: record *n* is decoded from where the disk holds record *n*, never
  outside the buffer, and no record in use is passed over.
* **Node paths.** The records are read one by one while the volume changes, so parents
  read at different times need not form a tree. Correct: the walk up ends, it names every
  file along the parents that were read, and it gives up only over a real loop.
* **File contents, run lists.** Sparse runs, signed relative offsets, last clusters longer
  than what remains, several streams. Correct: the bytes of the file, in order - the hash
  of these bytes is part of the key under which the file is recorded.

Every hazard, with its line and the properties that would catch it, is listed in
`PROJECT.json`.

## 2. Plan

Done, in this order, the most important behaviour first:

1. `ScanSession` with the abstract `ExclusiveScan` it implements: the control of the whole
   program, and the assumption of every static member.
2. `SqlPersistence`, `NodePath`, `MftChunks`, `YaraRuleCache`: four parts whose correctness
   depends on a world that changes between two of their steps.
3. `SqlitePersistence`: programs that share files which they create themselves.
4. libyara, the part of the program that decides what is reported: `NativeScans` (the
   scans and their slots), `AhoCorasick`, `AtomScan`, `Regexp` and `StringSearch` (what is
   found; the second reads what the first has built, the last composes them all),
   `RuleConditions` (what follows from it).
5. `FileContents`: runs decoded and contents read, in one module, so that the reading is
   checked on the fragments the decoding makes.

Left, for whoever continues: an abstract `Catalog` (one row per file, exact counts) that
both database layers implement up to their named disturbances; the composition of
`YaraRuleCache` with the turns of `ExclusiveScan`; the lexers and grammars that make the
tree of an expression; the filter editor.

## 3. Modules and the code

Each component has its specification `M`, an `MCM` that binds constants for TLC, cfg files
`M_<run>.cfg`, and where there are theorems `MProofs` (`LibyaraProofs` for `NativeScans` and
`AhoCorasick`, `YaraProofs` for `YaraRuleCache` and `RuleConditions`). Operators that start with the comment
"Mutant of" are faulty variants of one definition, used to see that a property can fail;
no specification refers to them.

### ScanSession and ExclusiveScan

| Model | Code |
|---|---|
| `toggle` | `Toggle.CurrentState`, read and written without a lock: `SetState` is split at each read (`Set38`, `Set46`, `Set50`, `Set59` on the UI thread, `Read38` ... `WriteReady` in the continuation; the numbers are the lines of `Toggle.cs`) |
| `ui`, `goal` | the statement the UI thread is at in `btnSearch_Click`, `BeginScanning`, `MainForm_FormClosing`; `Pumping` are the places where `Invoke` is served, an open message box among them |
| `form`, `panels`, `button` | the checks of `btnSearch_Click`; `panelParameters.Enabled`; `btnSearch` |
| `session`, `cancelled` | `cancelTokenSource`, one per activation |
| `worker`, `left`, `tally`, `layer` | the task: `FileEnumerator.Worker`, its counts, its data layer; `tally.late` is a history variable |
| `report` | the continuation: `antecedent.Result`, `ReportTotals`, `SetState(Ready)`, `SetUiState(true)` through `Invoke` |

`DisableWorkerThread`, the setting with which the scan runs inside the click handler, is a
variable that is chosen once: one run covers both ways. `ExclusiveScan` says in a few lines
what the static members of `FileProperties` need, scans that take turns;
`ScanSession!ScansTakeTurns` is the refinement.

### SqlPersistence

One process per running program (`Scanner`), one shared `table`. `PersistFileProperties`
is split where the server can interleave: the query for the recorded rules, and each
statement of the untransacted batch (`SelectPrevalenceCount`, `UpdatePrevalenceCount`,
`UpdateYaraRules`, `Insert`), then `Return`, which looks at the number of affected rows
like `SqlHelper.ExecuteNonQuery`. `BatchFails` ends a batch before any statement,
`Restart` ends the program anywhere. `seen`, `matched`, `confirmed` and `disturbed` are
history: the calls, the rules they brought, the calls that returned true, and the keys
whose calls overlapped, failed or broke off.

### SqlitePersistence

Processes are forms and consoles, files are names; a `Place` is a row of a file.

| Model | Code |
|---|---|
| `FormStarts`, `ConsoleStarts`, `NextName` | the choice of a file: any name in the form, in the console the search of `SequentialFilename` |
| `TestFile`, `CreateFile`, `CreateTable`, `DeleteFile` | `SqliteDataClient.PrepareDatabase` in steps, so that another program can come between; a failed `CREATE TABLE` deletes the file |
| `Persist`, `GetPrevalenceCount`, `InsertRow`, `UpdatePrevalenceCount`, `Return` | `PersistFileProperties`, a statement a step |
| `StatementFails`, `Cancelled`, `Finish`, `Collect`, `Die` | how a scan ends, with its connection disposed of or leaked until the finalizer runs, and how a process does |
| `raced`, `disturbed`, `calls`, `confirmed`, `hits` | history |

### NodePath

`disk` is the volume, a tree that other programs change while `ReadRecord` visits the
records in the order of their numbers; `parentIndex` and `named` are what `_nodes` then
holds. A record not in use leaves an empty node, whose parent is 0, the record of `$MFT`.
`PickNode` is the loop of `GetNodes`; `Climb`, `DetectLoop` and `ReachRoot` the loop of
`GetNodeFullNameCore`, with its two variables and its stack.

### MftChunks

The walk of `ProcessMft` over the records, `ReadNextChunk` as a small loop over the
fragments (`EnterReadNextChunk`, `SkipFragment`, `OutOfFragments`, `ReadFile`) and the
decoding. A slot of `buffer` says from where on the disk its content came, whether it is a
record in use, and whether it has been fixed up; a read writes any number of the records
it was asked for, because `ReadFile` ignores failures. `bitmap` and `files` are chosen
independently: the bitmap is read first, and the volume is in use.

### FileContents

| Model | Code |
|---|---|
| `file` | the non-resident attributes of a record, each with the runs it has on the volume; `Stored` is how NTFS writes a run, in bytes of base `Base` |
| `EnterAttribute`, `DecodeRun`, `NextAttribute` | the loop of `ProcessAttributes` and that of `ProcessFragments`; `RunLength` and `RunOffset` decode the bytes. A run without offset bytes makes `ProcessRunOffset` ask the byte below its number for a sign (`NtfsReader.cs:392`): a choice of two outcomes, recorded in `garbled` |
| `BeginReading` ... `LeaveFragment` | `ReadFileSafe`, its three loops with their variables; `Yield` is the part that is cut and handed out |
| `Parts`, `Extents` | what each attribute has given a stream, and what the volume has of it |
| `content` | history: the addresses of the bytes handed out |

### YaraRuleCache

The static `dictionary` over several scans of one process: `PopulateFile` chooses a kind of
file, `DistinctRulesToRun` is the selection of `YaraHelper.ProcessRule` with the fallback
`ElseNoMatch`, `UseCompiled` and `CompileRules` are `GetCompiledYaraRules`, the clean-up is
one step per scanner (`DisposeScanner`, `DisposeNull`, `ClearDictionary`), and `Cancel`
leaves without it. `EditRuleFile` happens at any time. A collection with an invalid file,
or with two files that define the same rule, is kept as null.

### NativeScans

| Model | Code |
|---|---|
| `mask`, `lists`, `matched`, `unsatisfied` | `tidx_mask` and what the compiled rules keep for each slot: lists of matches, `RULE_TFLAGS_MATCH`, the flag of a namespace whose global rule failed |
| `slot`, `touched`, `entry`, `modules` | the `YR_SCANNER` of a thread; `entry` and, after an exception, `modules` outlive the scan |
| `TakeSlot` ... `ReleaseSlot` | `yr_scanner_scan_mem_blocks` step by step: slot, arenas, blocks, modules, rules, report, cleaning, slot back |
| `End` | each way out of it: an error, an exception caught, an answer of the callback, a refusal for want of slots |
| `ScanMemory`, `Report` | `YSScanner::ScanMemory` and its callback |

### AhoCorasick, AtomScan, Regexp and StringSearch

`AddAtom`, `StartLinks`, `LinkState`, `StartOptimize`, `OptimizeState`, `StartTable` and
`PlaceState` build the automaton as `ahocorasick.c` does, queue and all: the trie, the
failure links, their shortening, and the tables that interleave (`SuitableSlot` is the
search of `_yr_ac_find_suitable_transition_table_slot` on the bitmask). `cells` are the
`YR_AC_MATCH`es, with `next` as a number, so that tails are shared as in the code; `heads` is
`matches` of a `YR_AC_STATE`, and a state is the sequence of bytes that leads to it. Loops
that follow a link are walks (`Iterated`) up to the first place asked for (`FirstIn`), which
are functions rather than recursive operators: the module can be proved about. Its last
section is the inductive invariant of the tables.

`AtomScan` is the loop of `_yr_scanner_scan_mem_block` without what is done at an atom:
`StartBlock` goes to the root, `ReadByte` follows the packed table (`Follow`) to the state for
one more byte, and `AtomsHere` are the matches to verify there. It is a module of its own
because it declares no recursive operator, so that the search can be proved right up to
here, for any atoms and blocks (`ReadingNext`). `StringSearch` uses its actions: each step of
a search is a `Build`, a `StartBlock`, a `ReadByte`, or leaves the automaton and the reading as
they are.

`Regexp` has operators only, on the tree that a grammar makes of an expression or of a hex
string:

| Model | Code |
|---|---|
| `Chained` | `yr_re_ast_split_at_chaining_point`, repeated: a long jump cuts the string |
| `Emit`, `EmitRange`, `Code` | `_yr_re_emit`: a sequence of instructions for each direction, with relative offsets. `marks` are the places `forward_code` and `backward_code` of each literal; as in the code, a body emitted again overwrites them where its flags allow |
| `Extract`, `Lengthened`, `Choose`, `AtomsOfRegexp` | the tree of atoms and the best of them, by `Quality` |
| `Sync`, `Branches` | `_yr_re_fiber_sync`: a fiber goes on until it takes a byte, splitting in the order of preference, within `MaxFibers` |
| `Walk`, `Distinct`, `Rounds`, `Exec` | `yr_re_exec`, a byte a round |
| `FastExec` | `yr_re_fast_exec` and its stack of `MaxFastStack` |
| `MatchEnds` | the reference: where a match can end, by recursion over the tree |

`StringSearch` compiles declared strings into parts (`Compiled`) and atoms under their
modifiers (`AtomsOf`), feeds the block byte by byte (`ScanByte`, `ScanEnd`), and verifies the
atoms found before each byte and at the end (`Verify`: fixed offsets; `VerifyLiteral`, the compares of `scan.c`;
`VerifyRegexp`, forwards from the atom and then backwards; full words; `ChainedMatch` with
the matches that are confirmed, unconfirmed and given up).

### RuleConditions

A condition is the sequence of its nodes in the order in which the parser reduces them: each
node has an operator, the places of its operands and the loops around it, and `WellFormed`
is what the grammar accepts.

| Model | Code |
|---|---|
| `Pieces`, `Loop`, `CloseLoop`, `ShortCircuit` | what the actions of `grammar.y` emit for a node around the code of its operands, with jumps relative to the instruction |
| `Codes`, `RuleCode`, `Program` | the code of each node, of each rule between `OP_INIT_RULE` and `OP_MATCH_RULE`, and of all rules up to `OP_HALT` |
| `Use`, `FlagsAfter`, `FlagsOf` | `STRING_GFLAGS_SINGLE_MATCH` and `FIXED_OFFSET`, changed by each use of a string as the parser meets it; `Constants` are the values it knows |
| `LookedFor`, `Matches` | what `yr_scan_verify_match` keeps of the places where a string occurs |
| `InitRule`, `PushRule`, `Move`, `Store`, `JumpIf`, `Logic`, `Calculate`, `ReadByte`, `AskString`, `Of`, `MatchRule`, `Halt` | the instructions of `yr_execute_code` by kind, over one `stack` and one `mem`, which begins with garbage |
| `Meanings`, `Outcome`, `Held` | the reference: the meaning of a node as a function of the loop variables around it; the rules that hold, each in the light of those before |
| `And`, `Or` | the reading "documented" of `and` and `or`, by `writingrules.rst:1226`: an operation with an undefined operand is undefined, but `or` takes it for false |
| `MadeAnd`, `MadeOr` | the reading "made", which the machine follows: a true operand `and` an undefined one is 0, two undefined ones with `or` are undefined |

All else is common to the two readings. Where they differ, the documented value is `Doubt`:
not true for either, but false for one and undefined for the other. `and`, `or`, the body of
a loop and the rule itself only ask whether it is true; any other operator over `Doubt`, as the
`not` of `not ($a and uint8(filesize) == 0)`, would show the difference, and such a
condition means `Disorder`. `Disorder` is the meaning of all conditions that the code
evaluates to something else than they say: also of a list with an undefined value before
its last, a loop whose body has a value other than 0, 1 and undefined, and, in the documented
reading, a range with an undefined bound (section 8). A quantifier without a value is
read as `all` by both, since that is how the grammar writes `all`. `ConditionTrees` writes
conditions as trees and lays out their nodes for TLC.

## 4. Runs

| Run | Question | Result |
|---|---|---|
| `session_scans` | two scans of up to two files, on the thread pool or in the handler: exclusion, the token, the totals, termination, the refinement of `ExclusiveScan` | holds |
| `sql_machines` | two machines, two files, two rules: counts, merges and confirmations under failures and restarts | holds |
| `sqlite_files` | a form and a console over two files that they make if missing | holds |
| `sqlite_matches` | a sighting that returned true lists the rules that matched | violated |
| `path_names` | six records, two changes of the volume at any moment | holds |
| `path_loops` | a walk that repeats a node is stopped | violated |
| `mft_records` | four run lists, two sizes, every bitmap, any read failing | holds |
| `contents_files` | 258 files: runs in both directions, sparse, at cluster 0, second streams | holds |
| `yara_scans` | two scans, restarts, one edit, three rule files, four kinds of file | holds |
| `native_slots` | three threads, two slots, every way a scan may end | holds |
| `strings_blocks` | every set of modifiers, expressions with every operator, hex strings, chains, offsets, in thousands of blocks | holds |
| `conditions_rules` | some thirty conditions over whatever may be found | holds |

What the properties of the passing runs say:

* **Session.** `ReadyMeansQuiet`: no second scan begins before the report of the first has
  released the toggle. `CancelHitsTheScan`: the form's one token source is the running
  task's. `CancelStopsWithinOneFile`: after Cancel at most one more node is enumerated or one
  more row written. `TotalsAddUp`: enumerated and written differ by the node at which the
  scan was cut off, at most, and a scan that finished left nothing out. `ScansEnd`,
  `ReportResetsToggle`: tasks end, and their report brings Ready back.
* **SQL Server.** `NeverOvercounts`, `SuccessIsRecorded` hold whatever overlaps, fails or dies.
  `ExactUnlessDisturbed`: a row is exact unless calls for that very file overlapped or broke
  off. `MatchesStayListed`: a row with matches never goes back to none.
* **SQLite.** `NeverOvercounts` as above; `ConfirmedKept`: a row that was confirmed is lost only
  in a file that two clients found missing and made at once; `ExactUnlessDisturbed`: apart
  from that, and from calls for the same row that overlapped or broke off, counts are exact -
  leaked connections, cancelled scans and deaths elsewhere harm no row.
* **Paths.** `NobodyLost`: a finished list holds every record that was in use when it was
  read. `NoFalseAlarm`: the loop exception is thrown only over two nodes that name each
  other. `OneChangeHarmless`, `WalksEnd`: one change of the volume makes no loop, so every
  node gets its name. `QuietVolumeExact`: an unchanged volume is listed exactly, but for
  `$MFT`, whose name has the index that means "no name".
* **MFT.** `SlotInsideBuffer`, `OwnRecordOnly`, `EveryRecordDecoded`, `Terminates`. It takes a
  failed read and a bitmap older than the records together to put another record's data
  into a node.
* **Contents.** `FragmentsExact`: the fragments decoded are those of the volume, up to the
  made-up distance of a sparse run. `ContentExact`: the bytes handed out are the file's, in
  place, up to the first gap, also when the reading fails later, and a reading that ends
  without a gap is complete and has handed out no byte of another stream.
* **YARA.** `ScannersLive` and `MatchesAreTrue` hold over any history. `EditsTakeEffect` and
  `NothingLeaks` hold up to the first cancelled scan of a process, and again after the next
  clean-up: the code does not promise more.
* **Native scans.** `SlotsExclusive`: running scans have slots of their own and no slot is lost
  to an error. `FreeSlotsClean`: a scan never starts on what another left. `ReportsExact`: a
  successful scan reports the rules its file satisfies, where neither the rule nor a global
  rule over it asks for what the scanner kept from an earlier file.
* **Strings.** `ListsEnd`, `ListsComplete`: match lists have no ring and hold the atoms that end
  at their state, once. `LongestSuffix`: walking the packed table, the scan is always at the
  longest suffix of the text that is in the trie. `NoneMissed`, `NoneInvented`: a scan that
  succeeds has found every occurrence, and no scan reports anything else; where one
  quantifier decides the length of a match, it is the one asked for. Both leave out the
  strings that section 8 names, by operators named for the reason: `Countable`, `Overrun`,
  `Unentered`, `Found`, `Long` and, for the plain text of a string that is `xor` alone, `Unsought`.
* **Conditions.** `MatchedExact`: a rule matches if and only if its condition holds by the
  documentation, among rules none of which means `Disorder`; `StackEmptyAtEnd`: the assertions
  of `exec.c:530`, except for the lists and bodies that section 8 names; `CodeEnds`. The cases
  have one rule and more of each kind that means `Disorder`, so what the properties leave out
  is run, and leaving out less is seen to fail.

Every property has a mutant in `PROJECT.json`, a plausible fault of one mapped definition
under which TLC finds it violated.

## 5. Bounds

| Bound | Value | Why it is enough |
|---|---|---|
| `MaxScans`, `MaxFiles` (session) | 2, 2 | a late reset of one scan meets the next; a cancellation falls before, between and after files. Exclusion, late work and totals concern one pair of scans |
| `Scanner`, `Key`, `Rule`, `MaxSightings` (SQL Server) | 2, 2, 2, 2 sightings of each key | a row is made, updated and merged while the other machine is at any statement, and another row beside it; statements name one key |
| `Process`, `LastName`, `Key`, `Rule`, `MaxScans`, `MaxCalls` (SQLite) | a form and a console, 2 names, 1 row a file, 1 rule, 2 scans, 2 calls a row | two clients meet at every step of making a file, in the first and in the second scan; rows of one file do not affect each other |
| `Record`, `MaxChanges` | 4 below `$MFT` and the root, 2 | loops of two need two changes, the rings of `path_loops` need three directories |
| `MaxDepth` | 8 | longer than any path without a repetition; it only stops the endless walk |
| `Layout`, `Sizes`, `BitmapBits` | runs of one and two clusters in any order on the disk, one list that ends early; tables of 4 and 6 records | chunks that end at the buffer, at a run and at the table, several chunks per run and several runs per chunk |
| `ClusterSize`, `RecordSize`, `BufferSize` (MFT) | 4, 2, 5 | two records a cluster, a buffer of two records with a remainder |
| `File`, `Base`, `MaxClustersToRead`, `ClusterSize` (contents) | up to 3 runs of 1 to 5 clusters; bytes of 4 values; arrays of 2 clusters of 2 bytes | numbers of one and two bytes of either sign, chunks that fill an array, that do not, and that end with the file inside |
| `RuleFile`, `FilterLists`, `MaxScans`, `MaxEdits` (YARA) | 3, three lists, 2, 1 | an edit before, during or between scans; overlapping collections; a clash |
| `Thread`, `MaxThreads`, `Rules`, `MaxScans` (native) | 3 threads, 2 slots, 4 rules, 3 scans | a thread is refused; a slot changes hands; a scanner has a second and a third file |
| `Byte`, `MaxAtom`, `MaxMatches`, `InitialSize` (strings) | 4 bytes (zero, a letter in both cases, the end of a line), atoms of 2, 4 matches, 10 entries | literals shorter than, as long as and longer than an atom, under all 32 sets of modifiers; the table has to grow; lists run full |
| `Cases` (strings) | 14 trees by themselves, others with modifiers, as hex strings and in chains; blocks of up to 6 bytes for these | each operator of an expression, with its atom before, inside of and behind what repeats, in each branch, or nowhere; greedy and not; atoms shared between strings |
| `MaxFibers`, `MaxFastStack`, `ScanLimit`, `Threshold` (expressions) | 6, 2, 8, 1 | one expression needs more fibers and one hex string more stack than there is, the others run within them; jumps of 2 are cut. No block with an expression is longer than the limit: matches cut at `RE_SCAN_LIMIT` do not happen |
| `StackSize`, `LoopNesting`, `Garbage` (conditions) | 8, 4, {0, 2} | loops in loops, a stack that overflows; memory that looks used |
| numbers of conditions | -1 stands for no value, 0 to 9 | sums, offsets and bounds of ranges, also undefined ones; a range from no value has few turns, as -1 is near; no number is near `INT64_MAX` (section 9) |

The bounds limit the state space only: none of the theorems of section 7 depends on the
value of a bound.

## 6. Fairness

* `ScanSession!FairSpec`: a UI handler that has begun returns, and the pool runs the task
  and the continuation (weak fairness, each scan on its own) until the process ends. No
  user action is fair: boxes may stay open, nobody need cancel. `Invoke` is served at the
  pumping places, which the Windows message loop and the loop of a message box guarantee.
* `NodePath!FairSpec` and `MftChunks!FairSpec`: the sequential code keeps running. The
  volume is not obliged to change or to stay.
* `RuleConditions!Execution`: the loop `while(!stop)` of `yr_execute_code` takes the next instruction.
* The other modules have safety properties only.

`CHECK_DEADLOCK FALSE` is set where the system stops: a closed form, a finished or abandoned
list, a finished table, a file that has been read, scans and processes that have done what
the bound allows, code that has halted.

## 7. Proofs

All theorems are checked by TLAPS with no assumption but the named ones on the constants:
`ScanAssumption`, `SqlAssumption` (finitely many scanners), `SqliteAssumption` (finitely many
processes), `PathAssumption` (`$MFT` and the root are records), `ChunksAssumption` and
`LayoutAssumption` (positive sizes; runs that are not empty, not sparse and hold whole
records), `ContentsAssumption` (positive sizes, an even base) and `FilesAssumption` (numbers
of at most eight bytes; a stream goes on, in a later attribute, behind the earlier one),
`YaraAssumption` and `NativeAssumption`
(shapes of filters, rules and files), `AutomatonAssumption` (finitely many bytes),
`MachineAssumption` (the value for no value is a negative number; `Disorder` and `Doubt` are
two things that are no numbers; matches are pairs of numbers)
and `ConditionsAssumption` (every condition is one the grammar accepts). Each module proves `Invariance`, `Spec => []IInv`, by one
step per action, and the other theorems from it.

* **ScanSessionProofs.** `OneScanAtATime` alone is not inductive: one has to know that only
  the latest session has a task (`TaskFollowsSession`), what the UI thread has read before it
  goes on (`HandlerAssertions`: between the second test of the toggle and the launch nobody
  else can make it Ready), and that Ready means quiet. `CountsPerNode` and `LateOnce` follow
  the counters through the worker's loop. Theorems: `TypeCorrect`, `MutualExclusion`,
  `ReadyIsQuiet`, `CancelReachesScan`, `CancellationSafe`, `ReportAddsUp`, `FormUsable`,
  `TakingTurns` (the refinement of `ExclusiveScan`, for any number of scans and files).
* **SqlPersistenceProofs.** The count of a row leaves room for the calls that have yet to
  count theirs, `count + Cardinality(Pending) <= seen`: hence the finiteness of `Scanner`.
  For an undisturbed key the one call under way determines what the row is at each
  statement (`CallProgress`). Theorems: `TypeCorrect`, `CountsBounded`, `RulesMatched` (a row
  lists only rules that matched its file), `SuccessRecorded`, `ExactRows`, `RowsKeepMatches`.
* **SqlitePersistenceProofs.** A file that some connection holds open is not replaced
  (`Held`), the client that makes a file alone finds no table in it (`PreparedAlone`), and
  then as for SQL Server. Theorems: `TypeCorrect`, `CountsBounded`, `RowsKept`, `ExactRows`.
* **NodePathProofs.** The stack is the chain of parents from its head to the wanted node
  (`Walk`), and listed nodes keep a right path because `parentIndex` no longer changes. Up to
  one change, everything read so far is part of one tree, the one before or the one after
  it (`OneTree`), and a tree has no loop. Theorems: `TypeCorrect`, `AlarmsAreTrue`,
  `EverybodyListed`, `OneChange`, `QuietExact`.
* **MftChunksProofs.** `Vcn` and `RealVcn` agree and lie at the start of a run that begins no
  later than the record wanted (`Positions`, `Walked`); each slot ahead of the walk is fresh,
  all others are fixed up or no file (`Buffered`). The arithmetic of clusters and records is
  in lemmas of its own. Theorems: `TypeCorrect`, `InsideTheBuffer`, `NoStrangersRecord`,
  `NoneForgotten`.
* **FileContentsProofs.** Two invariants. `Decoding`: an attribute that was entered has the one
  stream of its name (`OneStream`), the locals are where the decoded runs end (`AtRun`), and
  every fragment ends before the attributes to come begin (`Behind`); `FragmentsExact` is
  inductive only with these. Its step for a run rests on facts about recursive functions:
  division and digits give the number back (`DigitsGive`, `Signed`), runs and distances add
  up (`Totals`, `LastLcn`), and a fragment appended to the last part is appended to the whole
  (`FlattenAppend`). The library's induction takes an operator, so the module proves one for
  sets of numbers from the pigeonhole principle (`Induction`), and with it that functions
  defined by recursion exist (`Recursion`). `Reading`: the bytes handed out end with the
  cluster that is read next, or with the file (`Reached` in `AtFragment` and `InFragment`), and
  a fragment that was passed is in them (`Covered`), for fragments in order (`Ordered`, a part
  of `Decoding`). Theorems: `FragmentsAreExact`, `ContentIsExact`, for any files.
* **YaraProofs, the dictionary.** The collections of the dictionary are pairwise different,
  none is disposed of outside the clean-up, and those of an uncancelled history are no older
  than the scan (`Collections`, `NewCollections`). Theorems: `TypeCorrect`, `ScannerLifetimes`,
  `NoneLeaks`, `SelectedRulesRun`, `OwnMatches`, `EditsInForce`.
* **YaraProofs, the conditions.** What an instruction does is a relation of two
  configurations (`Steps`, for a stack without a limit), so the correctness of the compiler can be
  stated without time: `NodesEvaluated`, by induction over the nodes, says of the code of *any*
  node that, laid anywhere in the program and begun on any stack with the variables of the
  loops around it in memory, it reaches its end with the node's meaning pushed and the memory
  of those loops as it was (`Evaluated`, `Comes`). The meaning there is the one of the reading "made". A loop
  is followed turn by turn, its counters holding the true and the finished turns
  (`TurnRuns`); that an inner loop keeps its hands off the places of an outer one is the part
  of `Comes` about memory (`KeepsBelow`), and a condition cannot see what garbage its own places
  begin with.
  `StackEmptyAtEnd` and `MatchedExact` are not inductive, as the stack in the middle of a rule
  may be anything. `ConditionsInv` says instead where the machine is (`Position`): at the
  beginning of a rule with an empty stack, in a configuration from which it *reaches* the
  end of the condition with its meaning (`Reaching`), or behind the rule. A step keeps that
  because the machine has only one way to go, or the stack is full and the run ends with an
  error. The other half are the flags: a use of a string
  can only take a flag away, so the flags at the end respect every use (`StillMinded`,
  `FlagsOfFacts`), and for what a condition asks, the matches kept under them answer as all
  occurrences would (`SameAnswer`); so `MatchesDecide`. It needs that what the parser takes
  for a constant is the value at run time. The last step is from what is made to what is
  documented: by induction over the nodes, a documented meaning other than `Disorder` and
  `Doubt` is the value made, and `Doubt` is made something that is not true (`Stands`), so the same
  rules hold (`MadeAsDocumented`, `HeldStands`). Since the library's induction takes an operator,
  the induction over nodes, rules and turns and the existence of the recursive functions
  rest on the pigeonhole principle, as in FileContentsProofs. Theorems: `NodesEvaluated`,
  `MatchesDecide`, `ConditionsInvariant`, `MadeAsDocumented`, `StackEmpty`, `ConditionsExact`, for
  any rules the grammar accepts, any matches, contents, nesting and size of stack. The last
  two carry the exemption of their properties: if a rule comes to `Disorder` they say nothing.
* **LibyaraProofs, the scans.** Whatever marks a slot is in the lists by which its scan will
  clean it (`Dirt`), what a scanner keeps is what it met first (`Kept`), and the slot of a
  running scan says of each rule so far what the file says (`Progress`). Theorems:
  `TypeCorrect`, `SlotsAreExclusive`, `SlotsAreClean`, `ReportsAreExact`, for any number of
  threads, slots and rules.
* **LibyaraProofs, the automaton.** `ListsEnd` says nothing of where a list leads, and lists
  share tails: an assignment to the `next` of one cell changes the list of every state whose
  list goes through it. The invariant (`Construction`) therefore puts all cells in one order,
  longer atoms first (`Under`), and says of each *cell* with which cell its list has to go on
  (`GoesOn`), by how far its state is: not linked yet, linked, or given the root's matches.
  Linking a child then touches the last of its own cells only (`LastOfOwn`), and what it
  appends is the list of the longest suffix, which has all that the child's needs
  (`ProperOf`, `ChildLinking`). That it is the longest suffix follows the walk along failure
  links (`PassesOn`, `StopPasses`, `TargetFails`) and needs the queue to be breadth first
  (`InOrderPopped`): all shorter states are linked before. The root's matches may come to a
  list through a tail that another state has already extended, which is why `WithRoot` must
  look at the last cell (`Rooting`). Theorems: `ConstructionInvariance`, `ListsAlwaysEnd`,
  `ListsAreComplete`, for any number of atoms over any number of bytes. Their assumption
  `Atoms` is what the callers of `yr_ac_add_string` pass: bytes, a backtrack that is no
  negative number, and none for the empty atom (`atoms.c:1288`); without the last, a cell of
  the root would be taken for one after which its list is still to be appended.
* **LibyaraProofs, the tables and the reading.** After the links are shortened, each leads to a
  suffix that is a state, and skips only states that accept nothing more than the state
  itself (`Shortened`). While states are placed (`Packed`), the entries of two placed states
  are never one, the bitmask is the union of them all, each placed state has an entry for its
  link and one for each child, and an entry that nobody has taken is the entry of no byte.
  A state has its slot before it has entries: until it is placed its slot is the entry of its
  parent that will lead to it, so one entry changes its meaning at each step (`KeptEntries`,
  `Placing`), and what a state fails to must have been placed before it, which the breadth
  first queue gives (`NextState`). Once the queue is empty no entry is mistaken for that of
  another state (`TableReads`): the test of a scan at an entry is the test for the child
  (`SlotStops`). The walk along the links of the table is then the walk of the states
  (`WalksTogether`), it comes to the root within as many steps as the table has entries,
  since links lead to shorter states (`LinkIsShorter`, `WalkEnds`), and it passes no state that
  has the child (`CoversOn`). So the state after each byte is the longest one that the bytes
  read end in, and what it lists is, by `ListsComplete`, what ends there. Theorems:
  `PackingInvariance`, `LongestSuffixInvariance`, `AtomsAreFound`, under the same `Atoms`, the
  last two for blocks of any bytes.

Only model-checked: everything under fairness (`ScansEnd`, `ReportResetsToggle`, `WalksEnd`,
`Terminates`, `CodeEnds`), which needs `ENABLED`; and how the atoms found become matches of
strings (`NoneMissed`, `NoneInvented`): `Regexp` declares recursive operators, as expressions
are trees, and a theorem about these would be an induction over trees. That the steps
of `StringSearch` are steps of `ReadingNext` is read off its actions, for the same reason:
`LongestSuffix` is therefore checked there as well.

## 8. Disagreements found

Shown by runs:

* A row of the SQLite layer never lists the rules that matched: the first sighting inserts
  without them, the second fails on `SELECT TOP`, which is no SQLite (`sqlite_matches`;
  `src/README.md:65`).
* A ring of three directories, left by renames between two reads, is walked for ever
  although "Detected a loop in the tree structure." is meant to stop it (`path_loops`).

Met while modelling, and part of the modules' behaviours:

* The button is disabled whenever the program returns to Ready (`MainForm.cs:435`), against
  its tool tip "Start/Stop the scanning procedure" (`MainForm.Designer.cs:183`). Only Enter in
  a text box starts a second scan; if a box was left incomplete, the checks of the button
  then keep it from cancelling that scan.
* `SetState` writes Ready before the form is reset (`Toggle.cs:55`): a click on the button
  still labelled "Cancel" starts a new scan. The last branch, "Unhandled ToggleState", is
  reachable when UI thread and continuation interleave. Answering No to "Overwrite it?"
  leaves the toggle Active with no scan behind it (`MainForm.cs:286`).
* Two machines that see a file at once both report success and count one sighting, against
  "aggregating results over many scans and/or many machines" of `src/README.md:15`. A batch
  that updates both count and rules affects two rows and so is reported as a failure
  (`SqlDataAccessLayer/SqlHelper.cs:69`, "Should be 1").
* Two SQLite clients that find a name missing race: the later one truncates the file, or its
  `CREATE TABLE` fails and deletes it. After a failed `CREATE TABLE` the exception is swallowed
  and the next statement makes the file anew, without a table: the scan fails, and so does
  every later one into that name, since the file is no longer missing. The console may
  append to a file that was made between its own test and that of `PrepareDatabase`. The
  static connection string does no harm while scans take turns.
* A failed read of the volume is silent, and the records it should have brought have no row,
  against `src/README.md:43`. One loop in the tree ends the scan of the whole volume.
* `ReadFileSafe` passes over a sparse run without moving `lastVcn` (`NtfsReader.Public.cs:210`):
  the next run is read from its place, but too long. A run that begins where the run before
  began, and so the first run of a file at cluster 0 (`$Boot`), has the distance 0 and is
  taken for sparse. `ProcessRunOffset` reads the byte below its number for a run without
  offset bytes; if its highest bit is set, the sparse run gets the distance -1 and all later
  runs of the stream are one cluster off. The size and the contents of a node are those of
  its first non-resident stream: a file with resident data and a named non-resident stream
  is read as that stream. A chunk longer than the rest of its stream but not of the file is
  an exception (line 248), and a stream without runs is null and an exception. Attribute
  lists are skipped (`NtfsReader.cs:508`), so runs in extension records are missing.
* One broken rule file leaves all files of its collection unscanned, and its null ends the
  clean-up with an exception.
* The entry point of a scanner is that of the first executable it met (`scanner.c:384`), for
  all later files, against `writingrules.rst:754` ("any rule using this variable evaluates to
  false"); `YaraHelper` uses one scanner for all files.
* `exec.c:530` asserts an empty stack after each rule; a loop over an enumeration with an
  undefined item, as in `for 1 i in (1, @a[2], 3)`, leaves items there. The value of a loop's
  body is added to a counter as "0, 1 or UNDEFINED" (`grammar.y:1135`), but a body may be a
  number, as in `for 3 i in (1..2) : (i)`, which counts for that many. Both mean `Disorder` in
  both readings, so neither property says anything of rules that come to it. A range whose
  upper bound is below the lower one runs its body once; the reference has that as well.
* By `writingrules.rst:1226` to 1229 a boolean operation with an undefined operand is undefined,
  except that `or` takes the operand for false. `exec.c:376` makes 0 of a true operand `and` an
  undefined one, which a `not` around it turns into a match; `exec.c:391` leaves two
  undefined operands of `or` undefined, so that a `not` around them is no match. A range with
  an undefined bound takes the number that stands for no value (-1483400188077313): its body
  runs once if that is the upper bound, and about 1.5 * 10^15 times if it is the lower one.
  `MatchedExact` leaves all these out by name, as `Disorder` in the documented reading; with
  `And` undefined where it is `Doubt`, TLC finds that it is violated by `not ($a and
  <undefined>)`. They are among the cases of the run, and `NodesEvaluated` and `StackEmpty`
  cover what the code does with them.
* Literals longer than an atom: with `wide nocase` what lies between their letters is not
  compared (`scan.c:199`, against `writingrules.rst:328`); with `xor nocase` their xored texts are
  found by the automaton and never matched (against `writingrules.rst:302` and 384); with
  `xor wide` text that is xored but not wide may be reported. `NoneMissed` and `NoneInvented`
  name these three kinds and hold for all other literals.
* A string that is `xor` alone does not match its plain text: the automaton gets texts for the
  keys from 1 on only (`atoms.c`, `_yr_atoms_xor`), against `writingrules.rst:369` to 382, which gives
  the plain text (`$xor_string_00`) as one of the strings it is equivalent to. `StandsFor` is as
  documented, `NoneMissed` leaves out such an occurrence by name (`Unsought`), and is violated
  without that.
* Expressions, against the quantifiers of `writingrules.rst:482` to 499. An exact count with
  more behind it may be missed: `/a{2}bcd/` does not find "aabcd", because the atom lies in a
  round of the body that the code does not go on from (`re.c:1074`). An expression without
  atoms that begins with `e{0,1}`, as `/a?[bc]/`, is entered behind its first split. Counted
  bodies that may be nothing lose matches, as in `/(a?){4}bcde/`, and counts inside of counts
  invent some, as in `/(a{3,4}b){4,6}/`: the inner counter stays on the stack where the
  maximum is reached (`re.c:1639`). One that is `ascii wide` is not tried wide where what
  follows the atom matches ascii: `/[ac]b/ ascii wide` misses wide text (`scan.c:671`).
* Repeated places: `/(\b)+abcd/` ends the scan with `ERROR_TOO_MANY_RE_FIBERS`, and the
  ungreedy `/(\b)*?abcd/` never ends, although "keeping track of executed splits is required
  to avoid infinite loops" (`re.c:1510`): the splits are forgotten after each place that holds.
  The instance has the first; the second has no value that TLC could compute.

## 9. Abstractions, and what is not modelled

* **Session.** Which nodes match is a free number per scan; text boxes are complete or not;
  the exceptions of a scan are one `Fault` at each place that can throw. The static timers
  appear as the fate of the report constructor.
* **SQL Server, SQLite.** The columns other than key, count and rules; a rule list is a set; a
  count of 0 stands for the missing row. Time-outs are failures. How SQLite and Windows
  share an open file is external: an open file is not replaced.
* **Paths.** A name is its node; several names of one record, and the sequence numbers of
  parent references, which the code does not compare either, are left out.
* **MFT.** Addresses are unbounded integers; the runs of `$MFT` are not sparse and hold whole
  records (named as `LayoutAssumption`); extension records are not in `files`; a torn record
  counts as one the read did not bring.
* **Contents.** A byte is its address on the volume; lists of runs are well-formed; reads
  outside the volume raise an exception, others may. `stream.Size` subtraction wraps at
  `Word`. Resident data, names and times are left out.
* **YARA.** The rule files of a collection are read at one moment; the native context is
  renewed with the dictionary and is no variable of its own; matches are named by file.
* **Native scans.** What a block holds is a set of strings; a rule asks for one string, the
  entry point or module data. Timeouts and the fast mode, which this program does not ask
  for, are left out.
* **Strings.** Which window of a literal becomes its atom is any choice (`Init`), so the
  quality heuristics are covered without being modelled; expressions choose theirs as the
  code does. The atoms of one string are in any order.
* **Expressions.** An instruction is one place of the code whatever its size, a byte class is
  a set. The trees are given: lexers and grammars are left out, and so are the limits on
  the size of code and the number of splits, the atoms guessed for a class between two
  literals (`yr_atoms_extract_triplets`), and `matches` in conditions (`RE_FLAGS_SCAN`).
* **Conditions.** Modules, functions, text and floating point are left out. Numbers are
  unbounded: sums do not wrap, and a range up to `INT64_MAX`, whose counter wraps before it
  passes the bound, is beyond what `CodeEnds` shows. The grammar refuses `for..of` loops inside each other; the module has them, and
  the theorems hold for them as well.
* **Not modelled:** the CSV layer (one appended line per row, never read back), the filter
  editor (one thread; its result is a constant of `YaraRuleCache`), the parsing of the
  console's flags (one pass without state), hashes, entropy, PE and certificate data
  (platform calls without state), settings, dialogs and designer code, binaries and SQL
  scripts. Of libyara: the output of bison and flex (`grammar.c`, `lexer.c`, `re_lexer.c`,
  `hex_lexer.c`, `re_grammar.c`, `hex_grammar.c`, about 16 000 lines), the parsers of file
  formats (`modules/`, about 10 000 lines), both tables and offsets without state that outlives
  a call; the files of saved rules.
  These are more than half of the native code, so the modelled share of it stays small: the
  modules cover the parts of libyara that a scan of this program runs through and that keep
  state, and all of the C# that does.
