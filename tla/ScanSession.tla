----------------------------- MODULE ScanSession -----------------------------
(***************************************************************************)
(* One scanning session of the Windows Forms program: the three-state      *)
(* toggle, the form's UI thread, the thread-pool task that scans, and the  *)
(* continuation of that task that reports the totals.                      *)
(*                                                                         *)
(* The toggle is read and written by the UI thread and by the continuation *)
(* with no lock, so every read of CurrentState is a step of its own.  The  *)
(* UI thread serves Control.Invoke requests only while it pumps messages:  *)
(* when no handler runs, or while a modal box of a handler is open.        *)
(***************************************************************************)
EXTENDS Naturals

CONSTANTS
  MaxScans,   \* bound: how often the toggle may be activated
  MaxFiles    \* bound: the nodes of the MFT that match, per scan

ASSUME ScanAssumption ==
  /\ MaxScans \in Nat
  /\ MaxFiles \in Nat

Scan == 1..MaxScans

VARIABLES
  toggle,     \* Toggle.CurrentState
  ui,         \* where the UI thread is
  goal,       \* why the UI thread calls SetState(Inactive): cancel or close
  form,       \* whether the text boxes pass the checks of btnSearch_Click
  DisableWorkerThread,  \* the setting, read once when the program starts
  panels,     \* panelParameters.Enabled
  button,     \* btnSearch.Enabled and btnSearch.Text
  session,    \* activations so far: the token in cancelTokenSource
  cancelled,  \* the tokens on which Cancel was called
  worker,     \* where the enumeration task of each session is
  report,     \* where its continuation is
  layer,      \* its data persistence layer
  left,       \* nodes its enumeration has not reached yet
  tally       \* its counts, and what it did after it was cancelled

uiVars     == <<ui, goal, form, DisableWorkerThread>>
formVars   == <<panels, button>>
scanVars   == <<worker, layer, left, tally>>
vars == <<toggle, uiVars, formVars, session, cancelled, report, scanVars>>

-----------------------------------------------------------------------------
ToggleState == {"Ready", "Active", "Inactive"}

Starting == {"choose", "prompt", "construct", "validate", "invalidBox", "launch"}
Setting  == {"set38", "set46", "set50", "set59"}
UiState  == {"idle", "test262", "askClose", "sync", "closed"}
              \cup Starting \cup Setting

Pumping  == {"idle", "prompt", "invalidBox", "askClose"}

Working   == {"queued", "started", "parsing", "next", "logging", "populate",
              "persist", "check", "dispose", "cleanup"}
Reported  == {"finished", "unwound"}   \* Worker returned a report
Crashed   == {"faulted", "revoked"}    \* the task has no result
WorkerState == {"none"} \cup Working \cup Reported \cup Crashed

Reporting   == {"waiting", "totals", "read38", "read46", "read59", "write"}
ReportState == {"none", "reset", "done", "faulted"} \cup Reporting

Button == [enabled : BOOLEAN, text : {"Scan", "Cancel"}]
Tally  == [enumerated : 0..MaxFiles, succeeded : 0..MaxFiles, failed : 0..MaxFiles, late : Nat]

TypeOK ==
  /\ toggle \in ToggleState
  /\ ui \in UiState
  /\ goal \in {"cancel", "close"}
  /\ form \in {"complete", "incomplete"}
  /\ DisableWorkerThread \in BOOLEAN
  /\ panels \in BOOLEAN
  /\ button \in Button
  /\ session \in 0..MaxScans
  /\ cancelled \in SUBSET Scan
  /\ worker \in [Scan -> WorkerState]
  /\ report \in [Scan -> ReportState]
  /\ layer \in [Scan -> {"none", "open", "disposed"}]
  /\ left \in [Scan -> 0..MaxFiles]
  /\ tally \in [Scan -> Tally]

NoCounts == [enumerated |-> 0, succeeded |-> 0, failed |-> 0, late |-> 0]

Init ==
  /\ toggle = "Ready"
  /\ ui = "idle"
  /\ goal = "cancel"
  /\ form \in {"complete", "incomplete"}
  /\ DisableWorkerThread \in BOOLEAN
  /\ panels = TRUE
  /\ button = [enabled |-> TRUE, text |-> "Scan"]
  /\ session = 0
  /\ cancelled = {}
  /\ worker = [s \in Scan |-> "none"]
  /\ report = [s \in Scan |-> "none"]
  /\ layer = [s \in Scan |-> "none"]
  /\ left = [s \in Scan |-> 0]
  /\ tally = [s \in Scan |-> NoCounts]

-----------------------------------------------------------------------------
(* The user and the form. *)

SetUiState(on) ==
  /\ panels' = on
  /\ button' = [enabled |-> ~on, text |-> IF on THEN "Scan" ELSE "Cancel"]

GoTo(next) == ui' = next /\ UNCHANGED <<goal, form, DisableWorkerThread>>

EditForm ==
  /\ ui = "idle" /\ panels
  /\ form' \in {"complete", "incomplete"} \ {form}
  /\ UNCHANGED <<toggle, ui, goal, DisableWorkerThread, formVars, session, cancelled, report, scanVars>>

\* btnSearch_Click: an incomplete form ends the handler before BeginScanning.
ClickCancel ==
  /\ ui = "idle" /\ button.enabled /\ form = "complete"
  /\ toggle = "Active"
  /\ button' = [button EXCEPT !.enabled = FALSE]
  /\ ui' = "set38" /\ goal' = "cancel"
  /\ UNCHANGED <<toggle, form, DisableWorkerThread, panels, session, cancelled, report, scanVars>>

ClickScan ==
  /\ ui = "idle" /\ button.enabled /\ form = "complete"
  /\ toggle # "Active" /\ session < MaxScans
  /\ GoTo("test262")
  /\ UNCHANGED <<toggle, formVars, session, cancelled, report, scanVars>>

\* textbox_KeyDown makes none of those checks.
PressEnter ==
  /\ ui = "idle" /\ panels
  /\ toggle = "Ready" /\ session < MaxScans
  /\ GoTo("test262")
  /\ UNCHANGED <<toggle, formVars, session, cancelled, report, scanVars>>

NotReady ==
  /\ ui = "test262" /\ toggle # "Ready"
  /\ GoTo("idle")
  /\ UNCHANGED <<toggle, formVars, session, cancelled, report, scanVars>>

\* SetState(Active): no other thread moves the toggle away from Ready.
Activate ==
  /\ ui = "test262" /\ toggle = "Ready"
  /\ toggle' = "Active"
  /\ session' = session + 1
  /\ SetUiState(FALSE)
  /\ GoTo("choose")
  /\ UNCHANGED <<cancelled, report, scanVars>>

\* The handler's second test of the toggle.
BeginScanning == IF toggle = "Ready" THEN Activate ELSE NotReady

\* An existing CSV or SQLite file opens the "Overwrite it?" box.
ChooseOutput ==
  /\ ui = "choose"
  /\ \E next \in {"prompt", "construct"} : GoTo(next)
  /\ UNCHANGED <<toggle, formVars, session, cancelled, report, scanVars>>

AnswerNo ==
  /\ ui = "prompt"
  /\ GoTo("idle")
  /\ UNCHANGED <<toggle, formVars, session, cancelled, report, scanVars>>

AnswerYes ==
  /\ ui = "prompt"
  /\ GoTo("construct")
  /\ UNCHANGED <<toggle, formVars, session, cancelled, report, scanVars>>

ConstructLayer ==
  /\ ui = "construct"
  /\ layer' = [layer EXCEPT ![session] = "open"]
  /\ GoTo("validate")
  /\ UNCHANGED <<toggle, formVars, session, cancelled, report, worker, left, tally>>

\* A constructor of a layer throws out of the click handler.
ConstructFails ==
  /\ ui = "construct"
  /\ GoTo("idle")
  /\ UNCHANGED <<toggle, formVars, session, cancelled, report, scanVars>>

\* ThrowIfAnyParametersInvalid, and the box that shows what it threw.
Validate ==
  /\ ui = "validate"
  /\ \E next \in {"invalidBox", "launch"} : GoTo(next)
  /\ UNCHANGED <<toggle, formVars, session, cancelled, report, scanVars>>

DismissInvalid ==
  /\ ui = "invalidBox"
  /\ IF toggle = "Ready"
     THEN UNCHANGED <<toggle, formVars>>
     ELSE toggle' = "Ready" /\ SetUiState(TRUE)
  /\ GoTo("idle")
  /\ UNCHANGED <<session, cancelled, report, scanVars>>

LaunchFileEnumerator ==
  /\ ui = "launch"
  /\ worker' = [worker EXCEPT ![session] =
                  IF DisableWorkerThread THEN "started" ELSE "queued"]
  /\ report' = [report EXCEPT ![session] = "waiting"]
  /\ GoTo(IF DisableWorkerThread THEN "sync" ELSE "idle")
  /\ UNCHANGED <<toggle, formVars, session, cancelled, layer, left, tally>>

-----------------------------------------------------------------------------
(* SetState(Inactive) on the UI thread, and closing the form. *)

Return == GoTo(IF goal = "close" THEN "closed" ELSE "idle")

Set38 ==
  /\ ui = "set38"
  /\ IF toggle = "Ready" THEN Return ELSE GoTo("set46")
  /\ UNCHANGED <<toggle, formVars, session, cancelled, report, scanVars>>

Set46 ==
  /\ ui = "set46"
  /\ GoTo(IF toggle = "Active" THEN "set50" ELSE "set59")
  /\ UNCHANGED <<toggle, formVars, session, cancelled, report, scanVars>>

\* Mutant of Set50: cancelling makes the program ready without waiting.
Set50Ready ==
  /\ ui = "set50"
  /\ toggle' = "Ready" /\ SetUiState(TRUE)
  /\ cancelled' = cancelled \cup {session}
  /\ Return
  /\ UNCHANGED <<session, report, scanVars>>

\* The write of CurrentState, then DeactivationBehavior: Cancel().
Set50 ==
  /\ ui = "set50"
  /\ toggle' = "Inactive"
  /\ cancelled' = cancelled \cup {session}
  /\ Return
  /\ UNCHANGED <<formVars, session, report, scanVars>>

\* Anything but Inactive here throws, and the form stays open.
Set59 ==
  /\ ui = "set59"
  /\ IF toggle = "Inactive" THEN Return ELSE GoTo("idle")
  /\ UNCHANGED <<toggle, formVars, session, cancelled, report, scanVars>>

AskClose ==
  /\ ui = "idle" /\ toggle # "Ready"
  /\ GoTo("askClose")
  /\ UNCHANGED <<toggle, formVars, session, cancelled, report, scanVars>>

AnswerStay ==
  /\ ui = "askClose"
  /\ GoTo("idle")
  /\ UNCHANGED <<toggle, formVars, session, cancelled, report, scanVars>>

AnswerExit ==
  /\ ui = "askClose"
  /\ ui' = "set38" /\ goal' = "close"
  /\ UNCHANGED <<toggle, form, DisableWorkerThread, formVars, session, cancelled, report, scanVars>>

\* No question when the toggle is Ready, or when Windows is what closes it.
CloseAtOnce ==
  /\ ui = "idle"
  /\ GoTo("closed")
  /\ UNCHANGED <<toggle, formVars, session, cancelled, report, scanVars>>

-----------------------------------------------------------------------------
(* The enumeration task of session s. *)

CancelRequested(s) == s \in cancelled

Move(s, next) == worker' = [worker EXCEPT ![s] = next]

\* The counters of the report, and how much was done after the cancellation.
Late(s) == tally[s].late + IF CancelRequested(s) THEN 1 ELSE 0

Enumerated(s) == [tally[s] EXCEPT !.enumerated = @ + 1, !.late = Late(s)]
Succeeded(s)  == [tally[s] EXCEPT !.succeeded = @ + 1, !.late = Late(s)]
Failed(s)     == [tally[s] EXCEPT !.failed = @ + 1, !.late = Late(s)]

\* Task.Run was given the token: a task cancelled while queued never runs.
StartTask(s) ==
  /\ worker[s] = "queued"
  /\ Move(s, IF CancelRequested(s) THEN "revoked" ELSE "started")
  /\ UNCHANGED <<toggle, uiVars, formVars, session, cancelled, report, layer, left, tally>>

\* A cancellation seen here leaves GetReport with no timing above zero, and
\* Max() of the empty sequence throws outside the try.
EnterWorker(s) ==
  /\ worker[s] = "started"
  /\ Move(s, IF CancelRequested(s) THEN "faulted" ELSE "parsing")
  /\ UNCHANGED <<toggle, uiVars, formVars, session, cancelled, report, layer, left, tally>>

ParseMft(s) ==
  /\ worker[s] = "parsing"
  /\ \E n \in 0..MaxFiles : left' = [left EXCEPT ![s] = n]
  /\ Move(s, "next")
  /\ UNCHANGED <<toggle, uiVars, formVars, session, cancelled, report, layer, tally>>

NextNode(s) ==
  /\ worker[s] = "next"
  /\ Move(s, IF left[s] = 0 THEN "dispose" ELSE "logging")
  /\ UNCHANGED <<toggle, uiVars, formVars, session, cancelled, report, layer, left, tally>>

\* Mutant of LogNode: lines are shown only while no handler and no box is open.
LogNodeAtRest(s) ==
  /\ worker[s] = "logging"
  /\ ui = "idle"
  /\ left' = [left EXCEPT ![s] = @ - 1]
  /\ tally' = [tally EXCEPT ![s] = Enumerated(s)]
  /\ Move(s, "populate")
  /\ UNCHANGED <<toggle, uiVars, formVars, session, cancelled, report, layer>>

\* LogOutput blocks until the UI thread has shown the line.
LogNode(s) ==
  /\ worker[s] = "logging"
  /\ ui \in Pumping \/ ui = "sync"
  /\ left' = [left EXCEPT ![s] = @ - 1]
  /\ tally' = [tally EXCEPT ![s] = Enumerated(s)]
  /\ Move(s, "populate")
  /\ UNCHANGED <<toggle, uiVars, formVars, session, cancelled, report, layer>>

\* Mutant of PopulateFileProperties: it does not look at the token.
PopulateRegardless(s) ==
  /\ worker[s] = "populate"
  /\ Move(s, "persist")
  /\ UNCHANGED <<toggle, uiVars, formVars, session, cancelled, report, layer, left, tally>>

\* The last test of the token inside PopulateFileProperties is its last line.
PopulateFileProperties(s) ==
  /\ worker[s] = "populate"
  /\ Move(s, IF CancelRequested(s) THEN "unwound" ELSE "persist")
  /\ UNCHANGED <<toggle, uiVars, formVars, session, cancelled, report, layer, left, tally>>

\* Mutant of PersistFileProperties: a row that was not written is not counted.
PersistUncounted(s) ==
  /\ worker[s] = "persist"
  /\ \/ tally' = [tally EXCEPT ![s] = Succeeded(s)]
     \/ UNCHANGED tally
  /\ Move(s, "check")
  /\ UNCHANGED <<toggle, uiVars, formVars, session, cancelled, report, layer, left>>

PersistFileProperties(s) ==
  /\ worker[s] = "persist"
  /\ \/ tally' = [tally EXCEPT ![s] = Succeeded(s)]
     \/ tally' = [tally EXCEPT ![s] = Failed(s)]
  /\ Move(s, "check")
  /\ UNCHANGED <<toggle, uiVars, formVars, session, cancelled, report, layer, left>>

CheckCancel(s) ==
  /\ worker[s] = "check"
  /\ Move(s, IF CancelRequested(s) THEN "unwound" ELSE "next")
  /\ UNCHANGED <<toggle, uiVars, formVars, session, cancelled, report, layer, left, tally>>

DisposeLayer(s) ==
  /\ worker[s] = "dispose"
  /\ layer' = [layer EXCEPT ![s] = "disposed"]
  /\ Move(s, "cleanup")
  /\ UNCHANGED <<toggle, uiVars, formVars, session, cancelled, report, left, tally>>

CleanUp(s) ==
  /\ worker[s] = "cleanup"
  /\ Move(s, "finished")
  /\ UNCHANGED <<toggle, uiVars, formVars, session, cancelled, report, layer, left, tally>>

\* Any exception but OperationCanceledException leaves Worker: opening the
\* volume, reading a node, writing a row, disposing of the scanners.
Fault(s) ==
  /\ worker[s] \in {"parsing", "next", "populate", "persist", "dispose", "cleanup"}
  /\ Move(s, "faulted")
  /\ UNCHANGED <<toggle, uiVars, formVars, session, cancelled, report, layer, left, tally>>

-----------------------------------------------------------------------------
(* The continuation of session s: ReportTotals, then SetState(Ready). *)

Step(s, next) == report' = [report EXCEPT ![s] = next]

\* Mutant of BeginReport: the continuation does not wait for its task.
BeginReportEarly(s) ==
  /\ report[s] = "waiting" /\ ~DisableWorkerThread
  /\ Step(s, "totals")
  /\ UNCHANGED <<toggle, uiVars, formVars, session, cancelled, scanVars>>

\* antecedent.Result rethrows when the task was cancelled or faulted.
BeginReport(s) ==
  /\ report[s] = "waiting" /\ ~DisableWorkerThread
  /\ worker[s] \in Reported \cup Crashed
  /\ Step(s, IF worker[s] \in Reported THEN "totals" ELSE "faulted")
  /\ UNCHANGED <<toggle, uiVars, formVars, session, cancelled, scanVars>>

LogTotals(s) ==
  /\ report[s] = "totals" /\ ui \in Pumping
  /\ Step(s, "read38")
  /\ UNCHANGED <<toggle, uiVars, formVars, session, cancelled, scanVars>>

Read38(s) ==
  /\ report[s] = "read38"
  /\ Step(s, IF toggle = "Ready" THEN "done" ELSE "read46")
  /\ UNCHANGED <<toggle, uiVars, formVars, session, cancelled, scanVars>>

\* Mutant of Read46: only an Active toggle may become Ready.
Read46Strict(s) ==
  /\ report[s] = "read46"
  /\ Step(s, IF toggle = "Active" THEN "write" ELSE "faulted")
  /\ UNCHANGED <<toggle, uiVars, formVars, session, cancelled, scanVars>>

Read46(s) ==
  /\ report[s] = "read46"
  /\ Step(s, IF toggle = "Active" THEN "write" ELSE "read59")
  /\ UNCHANGED <<toggle, uiVars, formVars, session, cancelled, scanVars>>

Read59(s) ==
  /\ report[s] = "read59"
  /\ Step(s, IF toggle = "Inactive" THEN "write" ELSE "faulted")
  /\ UNCHANGED <<toggle, uiVars, formVars, session, cancelled, scanVars>>

WriteReady(s) ==
  /\ report[s] = "write"
  /\ toggle' = "Ready"
  /\ Step(s, "reset")
  /\ UNCHANGED <<uiVars, formVars, session, cancelled, scanVars>>

\* ResetBehavior: SetUiState(true), marshalled to the UI thread.
ResetForm(s) ==
  /\ report[s] = "reset" /\ ui \in Pumping
  /\ SetUiState(TRUE)
  /\ Step(s, "done")
  /\ UNCHANGED <<toggle, uiVars, session, cancelled, scanVars>>

\* With DisableWorkerThread the handler itself reports, or propagates.
ReportInline ==
  /\ ui = "sync"
  /\ \/ /\ worker[session] \in Reported
        /\ Step(session, "done")
        /\ IF toggle = "Ready"
           THEN UNCHANGED <<toggle, formVars>>
           ELSE toggle' = "Ready" /\ SetUiState(TRUE)
     \/ /\ worker[session] \in Crashed
        /\ Step(session, "faulted")
        /\ UNCHANGED <<toggle, formVars>>
  /\ GoTo("idle")
  /\ UNCHANGED <<session, cancelled, scanVars>>

-----------------------------------------------------------------------------
UserAction ==
  \/ EditForm \/ ClickCancel \/ ClickScan \/ PressEnter
  \/ AnswerNo \/ AnswerYes \/ DismissInvalid
  \/ AskClose \/ AnswerStay \/ AnswerExit \/ CloseAtOnce

UiHandler ==
  \/ BeginScanning \/ ChooseOutput \/ ConstructLayer \/ ConstructFails
  \/ Validate \/ LaunchFileEnumerator
  \/ Set38 \/ Set46 \/ Set50 \/ Set59
  \/ ReportInline

Worker(s) ==
  \/ StartTask(s) \/ EnterWorker(s) \/ ParseMft(s) \/ NextNode(s)
  \/ LogNode(s) \/ PopulateFileProperties(s) \/ PersistFileProperties(s)
  \/ CheckCancel(s) \/ DisposeLayer(s) \/ CleanUp(s) \/ Fault(s)

Continuation(s) ==
  \/ BeginReport(s) \/ LogTotals(s) \/ Read38(s) \/ Read46(s) \/ Read59(s)
  \/ WriteReady(s) \/ ResetForm(s)

\* The process ends with its form, and its pool threads with it.
Next ==
  \/ UserAction
  \/ UiHandler
  \/ \E s \in Scan : ui # "closed" /\ (Worker(s) \/ Continuation(s))

Spec == Init /\ [][Next]_vars

\* A handler that has begun returns, and both pool threads are scheduled.  No
\* user action is fair: a box may stay open, and a user may never cancel.
Fairness ==
  /\ WF_vars(UiHandler)
  /\ \A s \in Scan : /\ WF_vars(ui # "closed" /\ Worker(s))
                     /\ WF_vars(ui # "closed" /\ Continuation(s))

FairSpec == Spec /\ Fairness
-----------------------------------------------------------------------------
InProgress(s) == worker[s] \in Working \/ report[s] \in Reporting

(* The compiled rules, the YARA context, the timers and the cancellation   *)
(* token of FileProperties are static: two scans at once would share them. *)
(* However cancelling, closing and reporting interleave, at most one scan  *)
(* is between its launch and the reset of the toggle.                      *)
OneScanAtATime ==
  \A s, t \in Scan : InProgress(s) /\ InProgress(t) => s = t

(* A toggle that reads Ready, the only state from which a scan can start,  *)
(* is never seen while the task or the report of a scan is under way.      *)
ReadyMeansQuiet ==
  toggle = "Ready" => \A s \in Scan : ~InProgress(s)

(* The form keeps one cancelTokenSource and replaces it at every           *)
(* activation: while a task works, that source is still the task's own, so *)
(* DeactivationBehavior cannot cancel a token nobody looks at.             *)
CancelHitsTheScan ==
  \A s \in Scan : worker[s] \in Working => s = session

(* The token is tested by Worker and by PopulateFileProperties: after      *)
(* Cancel a task enumerates one more node or writes one more row, never    *)
(* both and never a second one.                                            *)
CancelStopsWithinOneFile ==
  \A s \in Scan : tally[s].late <= 1

Written(s) == tally[s].succeeded + tally[s].failed

(* The totals the report shows: every enumerated node has its row counted  *)
(* as succeeded or failed but for the node at which the task was cut off,  *)
(* and a task that ends without cancellation has left no node out.         *)
TotalsAddUp ==
  \A s \in Scan :
    /\ worker[s] \in Reported => Written(s) \in {tally[s].enumerated, tally[s].enumerated - 1}
    /\ worker[s] = "finished" => /\ Written(s) = tally[s].enumerated
                                 /\ left[s] = 0
                                 /\ layer[s] = "disposed"

(* Whenever the toggle is Ready and no reset is still queued for the UI    *)
(* thread, the text boxes are enabled, so Enter can start the next scan.   *)
ReadyFormUsable ==
  toggle = "Ready" /\ (\A s \in Scan : report[s] # "reset") => panels

(* Inactive means the current token is cancelled, and the button that      *)
(* cancelled it cannot be pressed again.                                   *)
InactiveMeansCancelled ==
  toggle = "Inactive" /\ ui # "closed" => session \in cancelled /\ ~button.enabled

(* Every task ends, cancelled or not, unless the process ends first.       *)
ScansEnd ==
  \A s \in Scan : worker[s] \in Working ~> (worker[s] \notin Working \/ ui = "closed")

(* A task that returned its report brings the toggle back to Ready, unless *)
(* it was cancelled after its last test of the token.                      *)
ReportResetsToggle ==
  \A s \in Scan : worker[s] \in Reported /\ report[s] = "waiting"
    ~> \/ toggle = "Ready" \/ ui = "closed"
       \/ worker[s] = "finished" /\ s \in cancelled

-----------------------------------------------------------------------------
(* The detailed session implements ExclusiveScan: the launch of a task is  *)
(* a Begin, the step that ends its report an End, all others stutter.      *)
Using    == {s \in Scan : InProgress(s)}
Launched == {s \in Scan : worker[s] # "none"}

Exclusive == INSTANCE ExclusiveScan
               WITH Scans <- Scan, using <- Using, used <- Launched

(* Scans take turns with the static members, in order and once each.       *)
ScansTakeTurns == Exclusive!Spec

-----------------------------------------------------------------------------
(* The inductive invariant behind the safety properties.                   *)

\* Task and continuation start together; only the latest session has any.
TaskFollowsSession(s) ==
  /\ worker[s] = "none" <=> report[s] = "none"
  /\ worker[s] \in Working => report[s] = "waiting"
  /\ report[s] \in {"totals", "read38", "read46", "read59", "write", "reset"}
       => worker[s] \in Reported
  /\ worker[s] # "none" => s <= session
  /\ InProgress(s) => s = session

\* What the UI thread may rely on between two steps of a handler.
HandlerAssertions ==
  /\ ui = "test262" => session < MaxScans
  /\ ui \in Starting => toggle = "Active" /\ worker[session] = "none"
  /\ ui \in {"validate", "invalidBox", "launch"} => layer[session] = "open"
  /\ ui = "sync" => /\ toggle = "Active" /\ DisableWorkerThread
                    /\ report[session] = "waiting"
  /\ ui \in Setting /\ goal = "cancel" => ~button.enabled
  /\ toggle # "Ready" \/ ui \in Setting \cup {"askClose"} \cup Starting \cup {"sync"}
       => session > 0

CountsPerNode(s) ==
  /\ worker[s] \in {"populate", "persist"} => tally[s].enumerated = Written(s) + 1
  /\ worker[s] \in {"unwound", "faulted"}
       => tally[s].enumerated \in {Written(s), Written(s) + 1}
  /\ worker[s] \notin {"populate", "persist", "unwound", "faulted"}
       => tally[s].enumerated = Written(s)
  /\ worker[s] \in {"none", "queued", "started", "parsing"} => tally[s] = NoCounts
  /\ left[s] + tally[s].enumerated <= MaxFiles
  /\ worker[s] = "logging" => left[s] > 0
  /\ worker[s] \in {"dispose", "cleanup", "finished"} => left[s] = 0
  /\ worker[s] \in {"cleanup", "finished"} => layer[s] = "disposed"

LateOnce(s) ==
  tally[s].late # 0 => /\ tally[s].late = 1
                       /\ s \in cancelled
                       /\ worker[s] \in {"populate", "check", "unwound", "faulted"}

(* TLC checks that it holds; ScanSessionProofs that it is inductive.       *)
IInv ==
  /\ TypeOK
  /\ \A s \in Scan : TaskFollowsSession(s) /\ CountsPerNode(s) /\ LateOnce(s)
  /\ HandlerAssertions
  /\ ReadyMeansQuiet
  /\ ReadyFormUsable
  /\ InactiveMeansCancelled

=============================================================================
