-------------------------- MODULE ScanSessionProofs --------------------------
(***************************************************************************)
(* The safety of ScanSession for every number of scans and files, with and *)
(* without a worker thread.  IInv is inductive; each of its conjuncts has  *)
(* a lemma that says a step keeps it, split by the thread that steps.      *)
(***************************************************************************)
EXTENDS ScanSession, TLAPS

(* SetUiState leaves a panel flag and a button of the right shape.         *)
LEMMA SetUiStateType ==
  ASSUME NEW on \in BOOLEAN, SetUiState(on)
  PROVE  panels' \in BOOLEAN /\ button' \in Button
BY DEF SetUiState, Button

(* Changing one counter of a tally leaves a tally.                         *)
LEMMA TallyUpdate ==
  ASSUME NEW r \in Tally, NEW k \in 0..MaxFiles, NEW n \in Nat
  PROVE  /\ [r EXCEPT !.enumerated = k, !.late = n] \in Tally
         /\ [r EXCEPT !.succeeded = k, !.late = n] \in Tally
         /\ [r EXCEPT !.failed = k, !.late = n] \in Tally
BY ScanAssumption DEF Tally

(* The steps of the UI thread keep the types.                              *)
LEMMA TypeUi == ASSUME IInv, UserAction \/ UiHandler PROVE TypeOK'
<1> USE ScanAssumption DEF TypeOK, GoTo, Return, Scan, uiVars, formVars, scanVars
<1>0. TypeOK
  BY DEF IInv
<1> USE <1>0
<1>1. CASE EditForm \/ PressEnter \/ ClickScan \/ CloseAtOnce
  BY <1>1 DEF EditForm, PressEnter, ClickScan, CloseAtOnce, UiState
<1>2. CASE ClickCancel
  BY <1>2 DEF ClickCancel, Button, UiState, Setting
<1>3. CASE AnswerNo \/ AnswerYes \/ AskClose \/ AnswerStay \/ AnswerExit
  BY <1>3 DEF AnswerNo, AnswerYes, AskClose, AnswerStay, AnswerExit, UiState, Starting, Setting
<1>4. CASE DismissInvalid
  BY <1>4, SetUiStateType DEF DismissInvalid, ToggleState, UiState
<1>5. CASE NotReady \/ ChooseOutput \/ ConstructFails \/ Validate
  BY <1>5 DEF NotReady, ChooseOutput, ConstructFails, Validate, UiState, Starting
<1>6. CASE Activate
  <2>1. session' \in 0..MaxScans
    BY <1>6 DEF Activate, IInv, HandlerAssertions
  <2>2. panels' \in BOOLEAN /\ button' \in Button
    BY <1>6, SetUiStateType DEF Activate
  <2> QED
    BY <1>6, <2>1, <2>2 DEF Activate, ToggleState, UiState, Starting
<1>7. CASE ConstructLayer
  BY <1>7 DEF ConstructLayer, UiState, Starting
<1>8. CASE LaunchFileEnumerator
  BY <1>8 DEF LaunchFileEnumerator, UiState, WorkerState, Working, ReportState, Reporting
<1>9. CASE Set38 \/ Set46 \/ Set59
  BY <1>9 DEF Set38, Set46, Set59, UiState, Setting
<1>10. CASE Set50
  BY <1>10 DEF Set50, IInv, HandlerAssertions, ToggleState, UiState, Setting
<1>11. CASE ReportInline
  <2>1. toggle' \in ToggleState /\ panels' \in BOOLEAN /\ button' \in Button
    BY <1>11, SetUiStateType DEF ReportInline, ToggleState
  <2>2. report' \in [Scan -> ReportState]
    BY <1>11 DEF ReportInline, Step, ReportState
  <2> QED
    BY <1>11, <2>1, <2>2 DEF ReportInline, UiState
<1> QED
  BY <1>1, <1>2, <1>3, <1>4, <1>5, <1>6, <1>7, <1>8, <1>9, <1>10, <1>11
     DEF UserAction, UiHandler, BeginScanning

(* So do the steps of a task: its counters stay below MaxFiles because it  *)
(* enumerates only the nodes that are left and writes one row for each.    *)
LEMMA TypeWorker == ASSUME IInv, NEW s \in Scan, Worker(s) PROVE TypeOK'
<1> USE ScanAssumption DEF TypeOK, Move, uiVars, formVars
<1>0. TypeOK /\ CountsPerNode(s) /\ tally[s] \in Tally
  BY DEF IInv
<1> USE <1>0
<1>1. CASE StartTask(s) \/ EnterWorker(s) \/ NextNode(s) \/ CheckCancel(s)
  BY <1>1 DEF StartTask, EnterWorker, NextNode, CheckCancel, WorkerState, Working, Reported, Crashed
<1>2. CASE PopulateFileProperties(s) \/ DisposeLayer(s) \/ CleanUp(s) \/ Fault(s)
  BY <1>2 DEF PopulateFileProperties, DisposeLayer, CleanUp, Fault, WorkerState, Working, Reported, Crashed
<1>3. CASE ParseMft(s)
  <2>1. left' \in [Scan -> 0..MaxFiles]
    BY <1>3 DEF ParseMft
  <2> QED
    BY <1>3, <2>1 DEF ParseMft, WorkerState, Working
<1>9. Late(s) \in Nat
  BY DEF Late, Tally
<1>4. CASE LogNode(s)
  <2>1. left[s] > 0 /\ tally[s].enumerated < MaxFiles
    BY <1>4 DEF LogNode, CountsPerNode, Tally
  <2>2. left' \in [Scan -> 0..MaxFiles]
    BY <1>4, <2>1 DEF LogNode
  <2>5. tally[s].enumerated + 1 \in 0..MaxFiles
    BY <2>1 DEF Tally
  <2>3. Enumerated(s) \in Tally
    BY <2>5, <1>9, TallyUpdate DEF Enumerated
  <2>4. tally' \in [Scan -> Tally]
    BY <1>4, <2>3 DEF LogNode
  <2> QED
    BY <1>4, <2>2, <2>4 DEF LogNode, WorkerState, Working
<1>5. CASE PersistFileProperties(s)
  <2>1. Written(s) < MaxFiles
    BY <1>5 DEF PersistFileProperties, CountsPerNode, Written, Tally
  <2>4. tally[s].succeeded + 1 \in 0..MaxFiles /\ tally[s].failed + 1 \in 0..MaxFiles
    BY <2>1 DEF Written, Tally
  <2>2. Succeeded(s) \in Tally /\ Failed(s) \in Tally
    BY <2>4, <1>9, TallyUpdate DEF Succeeded, Failed
  <2>3. tally' \in [Scan -> Tally]
    BY <1>5, <2>2 DEF PersistFileProperties
  <2> QED
    BY <1>5, <2>3 DEF PersistFileProperties, WorkerState, Working
<1> QED
  BY <1>1, <1>2, <1>3, <1>4, <1>5 DEF Worker

(* So do the steps of a continuation.                                      *)
LEMMA TypeContinuation == ASSUME IInv, NEW s \in Scan, Continuation(s) PROVE TypeOK'
<1> USE DEF TypeOK, Step, uiVars, formVars, scanVars
<1>0. TypeOK
  BY DEF IInv
<1> USE <1>0
<1>1. CASE BeginReport(s) \/ LogTotals(s)
  BY <1>1 DEF BeginReport, LogTotals, ReportState, Reporting
<1>2. CASE Read38(s) \/ Read46(s) \/ Read59(s)
  BY <1>2 DEF Read38, Read46, Read59, ReportState, Reporting
<1>3. CASE WriteReady(s) 
  BY <1>3 DEF WriteReady, ReportState, ToggleState
<1>4. CASE ResetForm(s) 
  BY <1>4, SetUiStateType DEF ResetForm, ReportState
<1> QED
  BY <1>1, <1>2, <1>3, <1>4 DEF Continuation

-----------------------------------------------------------------------------
(* The handlers that neither start a session nor a task.                   *)
QuietHandler ==
  \/ UserAction
  \/ NotReady \/ ChooseOutput \/ ConstructLayer \/ ConstructFails \/ Validate
  \/ Set38 \/ Set46 \/ Set50 \/ Set59

(* What a step of each kind leaves alone.                                  *)
LEMMA QuietFrame == QuietHandler => UNCHANGED <<session, report, worker, left, tally>>
BY DEF QuietHandler, UserAction, EditForm, ClickCancel, ClickScan, PressEnter, AnswerNo,
       AnswerYes, DismissInvalid, AskClose, AnswerStay, AnswerExit, CloseAtOnce, NotReady,
       ChooseOutput, ConstructLayer, ConstructFails, Validate, Set38, Set46, Set50, Set59,
       scanVars

(* A task touches only its own entries; it reads the toggle nowhere.       *)
LEMMA WorkerFrame ==
  ASSUME NEW s, Worker(s)
  PROVE  UNCHANGED <<toggle, uiVars, formVars, session, cancelled, report>>
BY DEF Worker, StartTask, EnterWorker, ParseMft, NextNode, LogNode, PopulateFileProperties,
       PersistFileProperties, CheckCancel, DisposeLayer, CleanUp, Fault

(* A continuation touches the toggle, the form and its own entry.          *)
LEMMA ContinuationFrame ==
  ASSUME NEW s, Continuation(s)
  PROVE  UNCHANGED <<uiVars, session, cancelled, scanVars>>
BY DEF Continuation, BeginReport, LogTotals, Read38, Read46, Read59, WriteReady, ResetForm

(* Task and continuation stay together, in the latest session.             *)
LEMMA TaskStep ==
  ASSUME IInv, [Next]_vars, NEW t \in Scan
  PROVE  TaskFollowsSession(t)'
<1>0. TypeOK /\ HandlerAssertions /\ ReadyMeansQuiet /\ TaskFollowsSession(t)
  BY DEF IInv
<1> USE <1>0 DEF TypeOK, TaskFollowsSession, InProgress, Scan
<1>1. CASE QuietHandler
  BY <1>1, QuietFrame
<1>2. CASE Activate
  BY <1>2 DEF Activate, ReadyMeansQuiet, scanVars
<1>3. CASE LaunchFileEnumerator
  BY <1>3 DEF LaunchFileEnumerator, HandlerAssertions, Starting, Working, Reporting, Reported
<1>4. CASE ReportInline
  BY <1>4 DEF ReportInline, HandlerAssertions, Step, scanVars, Working, Reporting, Reported, Crashed
<1>5. ASSUME NEW s \in Scan, Worker(s) PROVE TaskFollowsSession(t)'
  BY <1>5, WorkerFrame DEF Worker, StartTask, EnterWorker, ParseMft, NextNode, LogNode,
       PopulateFileProperties, PersistFileProperties, CheckCancel, DisposeLayer, CleanUp,
       Fault, Move, Working, Reported, Reporting
<1>6. ASSUME NEW s \in Scan, Continuation(s) PROVE TaskFollowsSession(t)'
  BY <1>6, ContinuationFrame DEF Continuation, BeginReport, LogTotals, Read38, Read46, Read59,
       WriteReady, ResetForm, Step, scanVars, Working, Reported, Crashed, Reporting
<1>7. CASE UNCHANGED vars
  BY <1>7 DEF vars, scanVars
<1> QED
  BY <1>1, <1>2, <1>3, <1>4, <1>5, <1>6, <1>7 DEF Next, UiHandler, BeginScanning, QuietHandler

(* The counters of a task follow its place in the loop over the nodes.     *)
LEMMA CountsStep ==
  ASSUME IInv, [Next]_vars, NEW t \in Scan
  PROVE  CountsPerNode(t)'
<1>0. TypeOK /\ HandlerAssertions /\ CountsPerNode(t)
  BY DEF IInv
<1> USE <1>0, ScanAssumption DEF TypeOK, CountsPerNode, Written
<1>1. CASE QuietHandler
  <2>1. CASE ConstructLayer
    <3>1. t # session \/ worker[t] = "none"
      BY <2>1 DEF ConstructLayer, HandlerAssertions, Starting
    <3> QED
      BY <2>1, <3>1 DEF ConstructLayer
  <2>2. CASE UNCHANGED layer
    BY <1>1, <2>2, QuietFrame
  <2> QED
    BY <1>1, <2>1, <2>2 DEF QuietHandler, UserAction, EditForm, ClickCancel, ClickScan, PressEnter,
         AnswerNo, AnswerYes, DismissInvalid, AskClose, AnswerStay, AnswerExit, CloseAtOnce,
         NotReady, ChooseOutput, ConstructFails, Validate, Set38, Set46, Set50, Set59, scanVars
<1>2. CASE Activate \/ ReportInline
  BY <1>2 DEF Activate, ReportInline, scanVars
<1>3. CASE LaunchFileEnumerator
  BY <1>3 DEF LaunchFileEnumerator, HandlerAssertions, Starting
<1>4. ASSUME NEW s \in Scan, Worker(s) PROVE CountsPerNode(t)'
  <2> USE DEF Move
  <2>1. tally[t] \in Tally
    OBVIOUS
  <2>2. CASE LogNode(s)
    BY <2>1, <2>2 DEF LogNode, Enumerated, Tally
  <2>3. CASE PersistFileProperties(s)
    <3>1. CASE tally' = [tally EXCEPT ![s] = Succeeded(s)]
      BY <2>1, <2>3, <3>1 DEF PersistFileProperties, Succeeded, Tally
    <3>2. CASE tally' = [tally EXCEPT ![s] = Failed(s)]
      BY <2>1, <2>3, <3>2 DEF PersistFileProperties, Failed, Tally
    <3> QED
      BY <2>3, <3>1, <3>2 DEF PersistFileProperties
  <2>4. CASE ParseMft(s)
    BY <2>1, <2>4 DEF ParseMft, NoCounts, Tally
  <2>5. CASE StartTask(s) \/ EnterWorker(s) \/ NextNode(s) \/ PopulateFileProperties(s)
             \/ CheckCancel(s)
    BY <2>1, <2>5 DEF StartTask, EnterWorker, NextNode, PopulateFileProperties, CheckCancel, Tally
  <2>6. CASE DisposeLayer(s) \/ CleanUp(s) \/ Fault(s)
    BY <2>1, <2>6 DEF DisposeLayer, CleanUp, Fault, Tally
  <2> QED
    BY <1>4, <2>2, <2>3, <2>4, <2>5, <2>6 DEF Worker
<1>5. ASSUME NEW s \in Scan, Continuation(s) PROVE CountsPerNode(t)'
  BY <1>5, ContinuationFrame DEF scanVars
<1>6. CASE UNCHANGED vars
  BY <1>6 DEF vars, scanVars
<1> QED
  BY <1>1, <1>2, <1>3, <1>4, <1>5, <1>6 DEF Next, UiHandler, BeginScanning, QuietHandler

(* After a cancellation a task does one thing more, then unwinds.          *)
LEMMA LateStep ==
  ASSUME IInv, [Next]_vars, NEW t \in Scan
  PROVE  LateOnce(t)'
<1>0. TypeOK /\ HandlerAssertions /\ LateOnce(t)
  BY DEF IInv
<1> USE <1>0, ScanAssumption DEF TypeOK, LateOnce
<1>1. CASE QuietHandler
  <2>1. cancelled \subseteq cancelled'
    BY <1>1 DEF QuietHandler, UserAction, EditForm, ClickCancel, ClickScan, PressEnter,
         AnswerNo, AnswerYes, DismissInvalid, AskClose, AnswerStay, AnswerExit, CloseAtOnce,
         NotReady, ChooseOutput, ConstructLayer, ConstructFails, Validate, Set38, Set46, Set50, Set59
  <2> QED
    BY <1>1, <2>1, QuietFrame
<1>2. CASE Activate \/ ReportInline
  BY <1>2 DEF Activate, ReportInline, scanVars
<1>3. CASE LaunchFileEnumerator
  BY <1>3 DEF LaunchFileEnumerator, HandlerAssertions, Starting
<1>4. ASSUME NEW s \in Scan, Worker(s) PROVE LateOnce(t)'
  <2> USE DEF Move, CancelRequested
  <2>1. tally[t] \in Tally /\ cancelled' = cancelled
    BY <1>4, WorkerFrame
  <2>2. CASE LogNode(s)
    BY <2>1, <2>2 DEF LogNode, Enumerated, Late, Tally
  <2>3. CASE PersistFileProperties(s)
    <3>1. CASE tally' = [tally EXCEPT ![s] = Succeeded(s)]
      BY <2>1, <2>3, <3>1 DEF PersistFileProperties, Succeeded, Late, Tally
    <3>2. CASE tally' = [tally EXCEPT ![s] = Failed(s)]
      BY <2>1, <2>3, <3>2 DEF PersistFileProperties, Failed, Late, Tally
    <3> QED
      BY <2>3, <3>1, <3>2 DEF PersistFileProperties
  <2>4. CASE StartTask(s) \/ EnterWorker(s) \/ ParseMft(s) \/ NextNode(s)
             \/ PopulateFileProperties(s)
    BY <2>1, <2>4 DEF StartTask, EnterWorker, ParseMft, NextNode, PopulateFileProperties
  <2>5. CASE CheckCancel(s) \/ DisposeLayer(s) \/ CleanUp(s) \/ Fault(s)
    BY <2>1, <2>5 DEF CheckCancel, DisposeLayer, CleanUp, Fault
  <2> QED
    BY <1>4, <2>2, <2>3, <2>4, <2>5 DEF Worker
<1>5. ASSUME NEW s \in Scan, Continuation(s) PROVE LateOnce(t)'
  BY <1>5, ContinuationFrame DEF scanVars
<1>6. CASE UNCHANGED vars
  BY <1>6 DEF vars, scanVars
<1> QED
  BY <1>1, <1>2, <1>3, <1>4, <1>5, <1>6 DEF Next, UiHandler, BeginScanning, QuietHandler

(* Only a step that ends a scan makes the toggle Ready.                    *)
LEMMA QuietStep == IInv /\ [Next]_vars => ReadyMeansQuiet'
<1> SUFFICES ASSUME IInv, [Next]_vars, toggle' = "Ready", NEW t \in Scan PROVE ~InProgress(t)'
  BY DEF ReadyMeansQuiet
<1>0. /\ TypeOK /\ HandlerAssertions /\ TaskFollowsSession(t)
      /\ toggle = "Ready" => ~InProgress(t)
  BY DEF IInv, ReadyMeansQuiet
<1> USE <1>0 DEF InProgress
<1>1. CASE QuietHandler /\ toggle = "Ready"
  BY <1>1, QuietFrame
<1>2. CASE QuietHandler /\ toggle # "Ready"
  <2>1. CASE DismissInvalid
    BY <2>1 DEF DismissInvalid, HandlerAssertions, TaskFollowsSession, Starting, scanVars, Working, Reporting
  <2> QED
    BY <1>2, <2>1 DEF QuietHandler, UserAction, EditForm, ClickCancel, ClickScan, PressEnter, AnswerNo,
       AnswerYes, AskClose, AnswerStay, AnswerExit, CloseAtOnce, NotReady,
       ChooseOutput, ConstructLayer, ConstructFails, Validate, Set38, Set46, Set50, Set59
<1>3. CASE Activate \/ LaunchFileEnumerator
  BY <1>3 DEF Activate, LaunchFileEnumerator, HandlerAssertions, Starting
<1>4. CASE ReportInline
  BY <1>4 DEF ReportInline, HandlerAssertions, TaskFollowsSession, Step, scanVars, Working, Reporting, Reported, Crashed, TypeOK, Scan
<1>5. ASSUME NEW s \in Scan, Worker(s) PROVE ~InProgress(t)'
  <2>1. worker' = [worker EXCEPT ![s] = worker'[s]] /\ worker[s] \in Working
    BY <1>5 DEF Worker, StartTask, EnterWorker, ParseMft, NextNode, LogNode,
       PopulateFileProperties, PersistFileProperties, CheckCancel, DisposeLayer, CleanUp,
       Fault, Move, Working
  <2>2. toggle = "Ready" /\ report' = report
    BY <1>5, WorkerFrame
  <2>3. ~InProgress(s)
    BY <2>2 DEF IInv, ReadyMeansQuiet
  <2> QED
    BY <2>1, <2>2, <2>3
<1>6. ASSUME NEW s \in Scan, Continuation(s) PROVE ~InProgress(t)'
  <2>1. TaskFollowsSession(s) /\ TaskFollowsSession(t)
    BY DEF IInv
  <2>2. CASE WriteReady(s)
    BY <2>1, <2>2 DEF WriteReady, Step, scanVars, TaskFollowsSession, Working, Reporting, Reported, TypeOK
  <2> QED
    BY <1>6, <2>1, <2>2 DEF Continuation, BeginReport, LogTotals, Read38, Read46, Read59,
       ResetForm, Step, scanVars, Working, Reported, Crashed, Reporting, ReadyMeansQuiet, TypeOK
<1>7. CASE UNCHANGED vars
  BY <1>7 DEF vars, scanVars
<1> QED
  BY <1>1, <1>2, <1>3, <1>4, <1>5, <1>6, <1>7 DEF Next, UiHandler, BeginScanning, QuietHandler

(* No step of a pool thread invalidates what a handler relies on: while a  *)
(* handler starts a scan, no task or report of an earlier one is left.     *)
LEMMA HandlerStep == IInv /\ [Next]_vars => HandlerAssertions'
<1> SUFFICES ASSUME IInv, [Next]_vars PROVE HandlerAssertions'
  OBVIOUS
<1>0. TypeOK /\ HandlerAssertions /\ (session > 0 => session \in Scan)
  BY ScanAssumption DEF IInv, TypeOK, Scan
<1> USE <1>0 DEF HandlerAssertions, GoTo, Starting, Setting
<1>1. CASE QuietHandler
  <2>1. session' = session /\ worker' = worker /\ report' = report
    BY <1>1, QuietFrame
  <2>2. CASE UserAction \/ NotReady \/ ChooseOutput
    BY <2>1, <2>2 DEF UserAction, EditForm, ClickCancel, ClickScan, PressEnter, AnswerNo,
         AnswerYes, DismissInvalid, AskClose, AnswerStay, AnswerExit, CloseAtOnce, NotReady,
         ChooseOutput, scanVars, formVars, TypeOK, Button
  <2>3. CASE ConstructLayer \/ ConstructFails \/ Validate
    BY <2>1, <2>3 DEF ConstructLayer, ConstructFails, Validate, scanVars, formVars, TypeOK
  <2>4. CASE Set38 \/ Set46 \/ Set50 \/ Set59
    BY <2>1, <2>4 DEF Set38, Set46, Set50, Set59, Return, scanVars, formVars
  <2> QED
    BY <1>1, <2>2, <2>3, <2>4 DEF QuietHandler
<1>2. CASE Activate
  <2>1. session + 1 \in Scan
    BY <1>2, ScanAssumption DEF Activate, TypeOK, Scan
  <2>2. worker[session + 1] = "none"
    BY <2>1 DEF IInv, TaskFollowsSession, TypeOK
  <2> QED
    BY <1>2, <2>1, <2>2 DEF Activate, scanVars, TypeOK
<1>3. CASE LaunchFileEnumerator
  BY <1>3 DEF LaunchFileEnumerator, TypeOK
<1>7. CASE ReportInline
  BY <1>7 DEF ReportInline
<1>4. ASSUME NEW s \in Scan, Worker(s) PROVE HandlerAssertions'
  <2>1. UNCHANGED <<toggle, ui, goal, DisableWorkerThread, button, session, report>>
    BY <1>4, WorkerFrame DEF uiVars, formVars
  <2>2. worker[s] # "none" /\ worker' = [worker EXCEPT ![s] = worker'[s]]
    BY <1>4 DEF Worker, StartTask, EnterWorker, ParseMft, NextNode, LogNode, PopulateFileProperties,
       PersistFileProperties, CheckCancel, DisposeLayer, CleanUp, Fault, Move, TypeOK
  <2>3. s # session /\ session \in Scan => layer'[session] = layer[session]
    BY <1>4 DEF Worker, StartTask, EnterWorker, ParseMft, NextNode, LogNode, PopulateFileProperties,
       PersistFileProperties, CheckCancel, DisposeLayer, CleanUp, Fault, TypeOK
  <2>4. ui \in Starting => /\ s # session
                          /\ worker'[session] = worker[session]
                          /\ layer'[session] = layer[session]
    BY <2>2, <2>3 DEF TypeOK
  <2> QED
    BY <2>1, <2>4
<1>5. ASSUME NEW s \in Scan, Continuation(s) PROVE HandlerAssertions'
  <2>1. UNCHANGED <<ui, goal, DisableWorkerThread, session, worker, layer>>
    BY <1>5, ContinuationFrame DEF uiVars, scanVars
  <2>2. TaskFollowsSession(s)
    BY DEF IInv
  <2>3. CASE WriteReady(s)
    <3>1. s = session /\ worker[s] \in Reported
      BY <2>2, <2>3 DEF WriteReady, TaskFollowsSession, InProgress, Reporting
    <3>2. ui \notin Starting \cup {"sync"}
      BY <2>3, <3>1 DEF WriteReady, Reported
    <3> QED
      BY <2>1, <2>3, <3>2 DEF WriteReady, formVars
  <2>4. CASE ResetForm(s)
    <3>1. ui \notin Setting \cup {"sync", "test262", "validate", "launch"}
      BY <2>4 DEF ResetForm, Pumping
    <3> QED
      BY <2>1, <2>4, <3>1 DEF ResetForm
  <2>5. CASE BeginReport(s)
    BY <2>1, <2>5 DEF BeginReport, formVars
  <2>6. CASE LogTotals(s) \/ Read38(s) \/ Read46(s) \/ Read59(s)
    <3>1. UNCHANGED <<toggle, button>> /\ report[s] # "waiting" /\ report' = [report EXCEPT ![s] = report'[s]]
      BY <2>6 DEF LogTotals, Read38, Read46, Read59, Step, formVars, TypeOK
    <3>2. ui = "sync" => report'[session] = report[session]
      BY <3>1 DEF TypeOK
    <3> QED
      BY <2>1, <3>1, <3>2
  <2> QED
    BY <1>5, <2>3, <2>4, <2>5, <2>6 DEF Continuation
<1>6. CASE UNCHANGED vars
  BY <1>6 DEF vars, uiVars, formVars, scanVars
<1> QED
  BY <1>1, <1>2, <1>3, <1>4, <1>5, <1>6, <1>7 DEF Next, UiHandler, BeginScanning, QuietHandler

(* The step that makes the toggle Ready either enables the panels or      *)
(* leaves the continuation waiting to do so.                               *)
LEMMA FormStep == IInv /\ [Next]_vars => ReadyFormUsable'
<1> SUFFICES ASSUME IInv, [Next]_vars PROVE ReadyFormUsable'
  OBVIOUS
<1>0. TypeOK /\ HandlerAssertions /\ ReadyFormUsable
  BY DEF IInv
<1> USE <1>0 DEF ReadyFormUsable, formVars
<1>1. CASE QuietHandler
  <2>1. report' = report
    BY <1>1, QuietFrame
  <2> QED
    BY <1>1, <2>1 DEF QuietHandler, UserAction, EditForm, ClickCancel, ClickScan, PressEnter, AnswerNo,
       AnswerYes, DismissInvalid, AskClose, AnswerStay, AnswerExit, CloseAtOnce, NotReady,
       ChooseOutput, ConstructLayer, ConstructFails, Validate, Set38, Set46, Set50, Set59, SetUiState
<1>2. CASE Activate \/ LaunchFileEnumerator
  BY <1>2 DEF Activate, LaunchFileEnumerator, HandlerAssertions, Starting
<1>3. CASE ReportInline
  BY <1>3 DEF ReportInline, HandlerAssertions, SetUiState
<1>4. ASSUME NEW s \in Scan, Worker(s) PROVE ReadyFormUsable'
  BY <1>4, WorkerFrame
<1>5. ASSUME NEW s \in Scan, Continuation(s) PROVE ReadyFormUsable'
  BY <1>5 DEF Continuation, BeginReport, LogTotals, Read38, Read46, Read59, WriteReady, ResetForm,
     Step, SetUiState, TypeOK
<1>6. CASE UNCHANGED vars
  BY <1>6 DEF vars
<1> QED
  BY <1>1, <1>2, <1>3, <1>4, <1>5, <1>6 DEF Next, UiHandler, BeginScanning, QuietHandler

(* The toggle becomes Inactive in the step that cancels the token.         *)
LEMMA InactiveStep == IInv /\ [Next]_vars => InactiveMeansCancelled'
<1> SUFFICES ASSUME IInv, [Next]_vars PROVE InactiveMeansCancelled'
  OBVIOUS
<1>0. TypeOK /\ HandlerAssertions /\ InactiveMeansCancelled
  BY DEF IInv
<1> USE <1>0 DEF InactiveMeansCancelled, formVars, uiVars, GoTo
<1>1. CASE UserAction
  BY <1>1 DEF UserAction, EditForm, ClickCancel, ClickScan, PressEnter, AnswerNo, AnswerYes,
       DismissInvalid, AskClose, AnswerStay, AnswerExit, CloseAtOnce
<1>2. CASE NotReady \/ Activate \/ ChooseOutput \/ ConstructLayer \/ ConstructFails \/ Validate
             \/ LaunchFileEnumerator \/ ReportInline
  BY <1>2 DEF NotReady, Activate, ChooseOutput, ConstructLayer, ConstructFails, Validate,
       LaunchFileEnumerator, ReportInline, HandlerAssertions
<1>3. CASE Set38 \/ Set46 \/ Set50 \/ Set59
  BY <1>3 DEF Set38, Set46, Set50, Set59, Return, HandlerAssertions, Setting, TypeOK
<1>4. ASSUME NEW s \in Scan, Worker(s) PROVE InactiveMeansCancelled'
  BY <1>4, WorkerFrame
<1>5. ASSUME NEW s \in Scan, Continuation(s) PROVE InactiveMeansCancelled'
  <2>1. UNCHANGED <<ui, session, cancelled>>
    BY <1>5, ContinuationFrame
  <2>2. CASE WriteReady(s)
    BY <2>2 DEF WriteReady
  <2>3. CASE ResetForm(s)
    BY <2>1, <2>3 DEF ResetForm, SetUiState
  <2>4. CASE BeginReport(s) \/ LogTotals(s) \/ Read38(s) \/ Read46(s) \/ Read59(s)
    BY <2>1, <2>4 DEF BeginReport, LogTotals, Read38, Read46, Read59
  <2> QED
    BY <1>5, <2>2, <2>3, <2>4 DEF Continuation
<1>6. CASE UNCHANGED vars
  BY <1>6 DEF vars
<1> QED
  BY <1>1, <1>2, <1>3, <1>4, <1>5, <1>6 DEF Next, UiHandler, BeginScanning

-----------------------------------------------------------------------------
(* The initial states satisfy the invariant: no scan, nothing cancelled.   *)
LEMMA InitStep == Init => IInv
<1> SUFFICES ASSUME Init PROVE IInv
  OBVIOUS
<1> USE ScanAssumption DEF Init
<1>1. NoCounts \in Tally
  BY DEF NoCounts, Tally
<1>2. TypeOK
  BY <1>1 DEF TypeOK, ToggleState, UiState, Button, WorkerState, ReportState
<1>3. ASSUME NEW s \in Scan PROVE TaskFollowsSession(s) /\ CountsPerNode(s) /\ LateOnce(s)
  BY DEF TaskFollowsSession, CountsPerNode, LateOnce, InProgress, Written, NoCounts,
       Working, Reporting
<1>4. HandlerAssertions
  BY DEF HandlerAssertions, Starting, Setting
<1>5. ReadyMeansQuiet /\ ReadyFormUsable /\ InactiveMeansCancelled
  BY DEF ReadyMeansQuiet, ReadyFormUsable, InactiveMeansCancelled, InProgress, Working, Reporting
<1> QED
  BY <1>2, <1>3, <1>4, <1>5 DEF IInv

(* Every step keeps the invariant.                                         *)
LEMMA NextStep == IInv /\ [Next]_vars => IInv'
<1> SUFFICES ASSUME IInv, [Next]_vars PROVE IInv'
  OBVIOUS
<1>1. TypeOK'
  <2>1. CASE UNCHANGED vars
    BY <2>1 DEF IInv, TypeOK, vars, uiVars, formVars, scanVars
  <2> QED
    BY <2>1, TypeUi, TypeWorker, TypeContinuation DEF Next
<1>2. Scan' = Scan /\ ReadyMeansQuiet' /\ ReadyFormUsable' /\ InactiveMeansCancelled'
  BY QuietStep, FormStep, InactiveStep DEF Scan
<1> QED
  BY <1>1, <1>2, TaskStep, CountsStep, LateStep, HandlerStep DEF IInv

(* The inductive invariant holds in every reachable state, for any number  *)
(* of scans and of files with and without worker threads.                        *)
THEOREM Invariance == Spec => []IInv
<1> QED
  BY InitStep, NextStep, PTL DEF Spec

(* Every variable of the session keeps its type.                           *)
THEOREM TypeCorrect == Spec => []TypeOK
<1>1. IInv => TypeOK
  BY DEF IInv
<1> QED
  BY <1>1, Invariance, PTL

(* The static members of FileProperties serve one scan at a time.          *)
THEOREM MutualExclusion == Spec => []OneScanAtATime
<1>1. IInv => OneScanAtATime
  BY DEF IInv, TaskFollowsSession, OneScanAtATime
<1> QED
  BY <1>1, Invariance, PTL

(* No scan can start while another's task or report is under way.          *)
THEOREM ReadyIsQuiet == Spec => []ReadyMeansQuiet
<1>1. IInv => ReadyMeansQuiet
  BY DEF IInv
<1> QED
  BY <1>1, Invariance, PTL

(* A Cancel reaches the token of the scan that is running.                 *)
THEOREM CancelReachesScan == Spec => [](CancelHitsTheScan /\ InactiveMeansCancelled)
<1>1. IInv => CancelHitsTheScan /\ InactiveMeansCancelled
  BY DEF IInv, TaskFollowsSession, CancelHitsTheScan, InProgress
<1> QED
  BY <1>1, Invariance, PTL

(* A cancelled scan enumerates or writes at most one more file.            *)
THEOREM CancellationSafe == Spec => []CancelStopsWithinOneFile
<1>1. IInv => CancelStopsWithinOneFile
  BY DEF IInv, TypeOK, Tally, LateOnce, CancelStopsWithinOneFile
<1> QED
  BY <1>1, Invariance, PTL

(* The totals of a report account for every enumerated node.               *)
THEOREM ReportAddsUp == Spec => []TotalsAddUp
<1>1. IInv => TotalsAddUp
  <2> SUFFICES ASSUME IInv, NEW s \in Scan, worker[s] \in Reported
               PROVE  /\ Written(s) \in {tally[s].enumerated, tally[s].enumerated - 1}
                      /\ worker[s] = "finished" => /\ Written(s) = tally[s].enumerated
                                                   /\ left[s] = 0 /\ layer[s] = "disposed"
    BY DEF TotalsAddUp, Reported
  <2>1. CountsPerNode(s) /\ tally[s] \in Tally
    BY DEF IInv, TypeOK
  <2> QED
    BY <2>1 DEF CountsPerNode, Written, Reported, Tally
<1> QED
  BY <1>1, Invariance, PTL

(* With the toggle Ready and no reset queued, the form can start a scan.   *)
THEOREM FormUsable == Spec => []ReadyFormUsable
<1>1. IInv => ReadyFormUsable
  BY DEF IInv
<1> QED
  BY <1>1, Invariance, PTL

-----------------------------------------------------------------------------
(* A launch is a Begin: no scan is in progress, none launched is later.    *)
LEMMA LaunchBegins == IInv /\ LaunchFileEnumerator => Exclusive!Begin(session) /\ session \in Scan
<1> SUFFICES ASSUME IInv, LaunchFileEnumerator
             PROVE  Exclusive!Begin(session) /\ session \in Scan
  OBVIOUS
<1>1. session \in Scan /\ worker[session] = "none" /\ report[session] = "none"
  BY ScanAssumption DEF IInv, TypeOK, HandlerAssertions, TaskFollowsSession,
     LaunchFileEnumerator, Starting, Scan
<1>2. \A t \in Scan : TaskFollowsSession(t) /\ ~InProgress(t)
  BY <1>1 DEF IInv, TaskFollowsSession, InProgress, Working, Reporting
<1>3. \A t \in Scan : InProgress(t)' <=> t = session
  BY <1>1, <1>2 DEF LaunchFileEnumerator, InProgress, IInv, TypeOK, Working, Reporting
<1>4. Launched' = Launched \cup {session} /\ \A t \in Launched : t < session
  BY <1>1, <1>2, ScanAssumption DEF Launched, LaunchFileEnumerator, IInv, TypeOK,
     TaskFollowsSession, Scan
<1>5. Using = {} /\ Using' = {session}
  BY <1>1, <1>2, <1>3 DEF Using, Scan
<1> QED
  BY <1>1, <1>4, <1>5 DEF Exclusive!Begin

(* A step that leaves the tasks alone and moves one report is an End when  *)
(* it takes its scan out of progress, and a stutter otherwise.             *)
LEMMA ReportEnds ==
  ASSUME IInv, NEW s \in Scan, UNCHANGED worker, InProgress(s),
         report' = [report EXCEPT ![s] = report'[s]]
  PROVE  Exclusive!End(s) \/ UNCHANGED <<Using, Launched>>
<1>1. Scan' = Scan /\ Launched' = Launched
  BY DEF Launched, Scan
<1>2. Using = {s}
  BY DEF Using, IInv, TaskFollowsSession
<1>3. \A t \in Scan \ {s} : ~InProgress(t)'
  BY <1>2 DEF Using, InProgress, IInv, TypeOK
<1>4. Using' = {s} \/ Using' = {}
  BY <1>1, <1>3 DEF Using
<1> QED
  BY <1>1, <1>2, <1>4 DEF Exclusive!End

(* Every step of the session is a step of ExclusiveScan or a stutter.      *)
LEMMA StepTakesTurn == IInv /\ [Next]_vars => [Exclusive!Next]_<<Using, Launched>>
<1> SUFFICES ASSUME IInv, [Next]_vars
             PROVE  Exclusive!Next \/ UNCHANGED <<Using, Launched>>
  OBVIOUS
<1>1. ASSUME UNCHANGED <<worker, report>> PROVE UNCHANGED <<Using, Launched>>
  BY <1>1 DEF Using, Launched, InProgress, Scan
<1>2. CASE QuietHandler \/ Activate \/ UNCHANGED vars
  BY <1>1, <1>2, QuietFrame DEF Activate, vars, scanVars
<1>3. CASE LaunchFileEnumerator
  BY <1>3, LaunchBegins DEF Exclusive!Next
<1>4. CASE ReportInline
  <2>1. session \in Scan /\ InProgress(session) /\ UNCHANGED worker
    BY <1>4, ScanAssumption DEF ReportInline, IInv, TypeOK, HandlerAssertions, InProgress,
       Reporting, Scan, scanVars
  <2>2. report' = [report EXCEPT ![session] = report'[session]]
    BY <1>4, <2>1 DEF ReportInline, Step, IInv, TypeOK
  <2> QED
    BY <2>1, <2>2, ReportEnds DEF Exclusive!Next
<1>5. ASSUME NEW s \in Scan, Worker(s) PROVE UNCHANGED <<Using, Launched>>
  <2>1. worker[s] \in Working /\ worker'[s] # "none" /\ worker' = [worker EXCEPT ![s] = worker'[s]]
    BY <1>5 DEF Worker, StartTask, EnterWorker, ParseMft, NextNode, LogNode,
       PopulateFileProperties, PersistFileProperties, CheckCancel, DisposeLayer, CleanUp, Fault,
       Move, Working, IInv, TypeOK
  <2>2. report' = report /\ report[s] = "waiting"
    BY <1>5, <2>1, WorkerFrame DEF IInv, TaskFollowsSession
  <2>3. \A t \in Scan : /\ worker'[t] = "none" <=> worker[t] = "none"
                        /\ InProgress(t)' <=> InProgress(t)
    BY <2>1, <2>2 DEF InProgress, Working, Reporting, IInv, TypeOK
  <2> QED
    BY <2>3 DEF Using, Launched, Scan
<1>6. ASSUME NEW s \in Scan, Continuation(s)
      PROVE  Exclusive!Next \/ UNCHANGED <<Using, Launched>>
  <2>1. UNCHANGED worker /\ report' = [report EXCEPT ![s] = report'[s]]
    BY <1>6, ContinuationFrame DEF Continuation, BeginReport, LogTotals, Read38, Read46, Read59,
       WriteReady, ResetForm, Step, scanVars, IInv, TypeOK
  <2>2. CASE ResetForm(s)
    <3>1. \A t \in Scan : InProgress(t)' <=> InProgress(t)
      BY <2>1, <2>2 DEF ResetForm, Step, InProgress, Reporting, IInv, TypeOK
    <3> QED
      BY <2>1, <3>1 DEF Using, Launched, Scan
  <2>3. CASE ~ResetForm(s)
    <3>1. InProgress(s)
      BY <1>6, <2>3 DEF Continuation, BeginReport, LogTotals, Read38, Read46, Read59, WriteReady,
         InProgress, Reporting
    <3> QED
      BY <2>1, <3>1, ReportEnds DEF Exclusive!Next
  <2> QED
    BY <2>2, <2>3
<1> QED
  BY <1>2, <1>3, <1>4, <1>5, <1>6 DEF Next, UiHandler, BeginScanning, QuietHandler

(* The session implements ExclusiveScan.                                   *)
THEOREM TakingTurns == Spec => ScansTakeTurns
<1>1. Init => Exclusive!Init
  BY DEF Init, Exclusive!Init, Using, Launched, InProgress, Working, Reporting
<1> QED
  BY <1>1, StepTakesTurn, Invariance, PTL DEF Spec, ScansTakeTurns, Exclusive!Spec
=============================================================================
