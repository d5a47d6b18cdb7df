------------------------ MODULE PmSyncAttemptsProofs ------------------------
(***************************************************************************)
(* Proofs about PmSyncAttempts, for any number of callers and workers, any *)
(* retry and give-up limit and any number of enqueues.                     *)
(***************************************************************************)
EXTENDS PmSyncAttempts, TLAPS

-----------------------------------------------------------------------------
(* The control points. *)

LEMMA AgeType ==
    /\ 0 \in Age /\ 0 \in Tried
    /\ \A a \in Age : Older(a, GiveUpAfter) \in Age
    /\ \A a \in Tried : Older(a, RetryAfter) \in Tried
BY AgeAssumption DEF Older, Age, Tried

LEMMA CallType ==
    ASSUME NEW pc \in CallPC, NEW a \in Nat, NEW s \in Age
    PROVE  Calling(pc, a, s) \in CallState
BY DEF Calling, CallState

LEMMA RunType ==
    ASSUME NEW pc \in RunPC, NEW a \in Nat, NEW o \in BOOLEAN
    PROVE  Running(pc, a, o) \in RunState
BY DEF Running, RunState

LEMMA ExecType ==
    ASSUME NEW pc \in ExecPC, NEW a \in Nat, NEW n \in BOOLEAN, NEW l \in BOOLEAN
    PROVE  Executing(pc, a, n, l) \in ExecState
BY DEF Executing, ExecState

LEMMA WatchType ==
    ASSUME NEW pc \in WatchPC, NEW a \in Nat, NEW g \in Age, NEW r \in Answer
    PROVE  Watching(pc, a, g, r) \in WatchState
BY DEF Watching, WatchState

LEMMA IdleTypes ==
    /\ IdleCall \in CallState
    /\ NoRun \in RunState
    /\ IdleExec \in ExecState
    /\ IdleWatch \in WatchState
<1>1. IdleCall \in CallState
  BY AgeType, CallType DEF IdleCall, CallPC
<1>2. NoRun \in RunState
  BY RunType DEF NoRun, RunPC
<1>3. IdleExec \in ExecState
  BY ExecType DEF IdleExec, ExecPC
<1>4. IdleWatch \in WatchState
  BY AgeType, WatchType DEF IdleWatch, WatchPC, Answer
<1> QED
  BY <1>1, <1>2, <1>3, <1>4

(* What the control points hold. *)
LEMMA StateFields ==
    ASSUME TypeOK
    PROVE  /\ \A c \in Caller : /\ call[c].pc \in CallPC
                                /\ call[c].attempt \in Nat
                                /\ call[c].since \in Age
           /\ run.pc \in RunPC /\ run.attempt \in Nat /\ run.orphan \in BOOLEAN
           /\ \A w \in Worker : /\ exec[w].pc \in ExecPC
                                /\ exec[w].attempt \in Nat
                                /\ exec[w].create \in BOOLEAN
                                /\ exec[w].latest \in BOOLEAN
           /\ watch.pc \in WatchPC /\ watch.attempt \in Nat
           /\ watch.age \in Age /\ watch.answer \in Answer
BY DEF TypeOK, CallState, RunState, ExecState, WatchState

LEMMA MoveCallType ==
    ASSUME TypeOK, NEW c \in Caller, NEW pc \in CallPC, MoveCall(c, pc) \/ EndCall(c)
    PROVE  call' \in [Caller -> CallState]
<1>1. Calling(pc, call[c].attempt, call[c].since) \in CallState
  BY StateFields, CallType
<1> QED
  BY <1>1, IdleTypes DEF MoveCall, EndCall, TypeOK

LEMMA MoveRunType ==
    ASSUME TypeOK, NEW pc \in RunPC, MoveRun(pc)
    PROVE  run' \in RunState
BY StateFields, RunType DEF MoveRun

LEMMA ReportType ==
    ASSUME TypeOK, NEW w \in Worker, NEW pc \in RunPC, NEW o \in BOOLEAN,
           Report(w, pc, o)
    PROVE  /\ exec' \in [Worker -> ExecState]
           /\ run' \in RunState
<1>1. exec' \in [Worker -> ExecState]
  BY IdleTypes DEF Report, TypeOK
<1>2. run' \in RunState
  BY StateFields, RunType DEF Report, TypeOK
<1> QED
  BY <1>1, <1>2

LEMMA NewContentType ==
    ASSUME TypeOK, NewContent
    PROVE  /\ covered' \in BOOLEAN
           /\ exec' \in [Worker -> ExecState]
<1>1. \A w \in Worker :
        Executing(exec[w].pc, exec[w].attempt, exec[w].create, FALSE) \in ExecState
  BY StateFields, ExecType
<1> QED
  BY <1>1 DEF NewContent

(* The row's columns and history, which a write of its status keeps typed. *)
RowOK ==
    /\ status \in Status
    /\ attempt \in Nat
    /\ since \in Age
    /\ tried \in Tried
    /\ linked \in BOOLEAN
    /\ enqueues \in 0 .. MaxEnqueues
    /\ age \in Age
    /\ covered \in BOOLEAN
    /\ by \in {"run", "other"}
    /\ status = "PENDING" => attempt # 0

(* A step that writes a settled status, or leaves the row alone. *)
Settles ==
    KeepStatus \/ \E s \in Status \ {"PENDING"}, who \in {"run", "other"} :
                     /\ WriteStatus(s, who)
                     /\ s = "SUCCESS" /\ who = "run" => covered

LEMMA SettlesType ==
    ASSUME TypeOK, Settles
    PROVE  RowOK'
BY DEF TypeOK, Settles, RowOK, KeepStatus, WriteStatus, row, history

(***************************************************************************)
(* Type correctness; a PENDING row names an attempt.                       *)
(***************************************************************************)
LEMMA TypeStep ==
    ASSUME TypeOK, [Next]_vars
    PROVE  TypeOK'
<1> USE AgeAssumption, AgeType, StateFields
<1> DEFINE Rest == /\ lastId' \in Nat
                   /\ call' \in [Caller -> CallState]
                   /\ starts' \in SUBSET Nat
                   /\ run' \in RunState
                   /\ exec' \in [Worker -> ExecState]
                   /\ watch' \in WatchState
<1> SUFFICES RowOK' /\ Rest
  BY DEF RowOK, TypeOK
<1>k. ASSUME UNCHANGED <<row, history>>
      PROVE  RowOK'
  BY <1>k DEF TypeOK, RowOK, row, history
<1>w. ASSUME NEW s \in {"FAILED", "NONE"}, NEW a, WriteIfPendingFor(a, s)
      PROVE  RowOK'
  BY <1>w DEF TypeOK, RowOK, WriteIfPendingFor, WriteStatus, KeepStatus, Status, row, history
<1>a. ASSUME NEW s \in Status \ {"PENDING"}, NEW a, NEW who \in {"run", "other"},
             WriteForAttempt(a, s, who)
      PROVE  RowOK'
  BY <1>a DEF TypeOK, RowOK, WriteForAttempt, WriteStatus, KeepStatus, Status, row, history
<1>s. ASSUME NEW s \in Status \ {"PENDING"}, NEW who \in {"run", "other"},
             WriteStatus(s, who)
      PROVE  RowOK'
  BY <1>s DEF TypeOK, RowOK, WriteStatus
<1>1. ASSUME NEW c \in Caller, CallerStep(c)
      PROVE  RowOK' /\ Rest
  <2>1. CASE Enqueue(c)
    <3>1. Calling("stamped", lastId + 1, 0) \in CallState
      BY CallType DEF CallPC, TypeOK
    <3>2. covered' \in BOOLEAN /\ exec' \in [Worker -> ExecState]
      BY <2>1, NewContentType DEF Enqueue
    <3> QED
      BY <2>1, <3>1, <3>2 DEF Enqueue, TypeOK, RowOK, Status
  <2>2. CASE ClientFails(c)
    BY <2>2, <1>k, MoveCallType DEF ClientFails, TypeOK, CallPC
  <2>3. CASE SendStart(c)
    BY <2>3, <1>k, MoveCallType DEF SendStart, TypeOK, CallPC
  <2>4. CASE StartAnswered(c) \/ CallerDies(c) \/ RetrySuperseded(c)
    BY <2>4, <1>k, MoveCallType DEF StartAnswered, CallerDies, RetrySuperseded, TypeOK, CallPC
  <2>5. CASE StartThrows(c)
    BY <2>5, <1>k, MoveCallType DEF StartThrows, TypeOK, CallPC
  <2>6. CASE Describe(c)
    <3>1. MoveCall(c, "compensating") \/ EndCall(c)
      BY <2>6 DEF Describe
    <3> QED
      BY <2>6, <3>1, <1>k, MoveCallType DEF Describe, TypeOK, CallPC
  <2>7. CASE Compensate(c)
    <3>1. RowOK'
      BY <2>7, <1>k, <1>w DEF Compensate, KeepStatus
    <3>2. call' \in [Caller -> CallState]
      BY <2>7, MoveCallType DEF Compensate, CallPC
    <3> QED
      BY <2>7, <3>1, <3>2 DEF Compensate, TypeOK
  <2>8. CASE DispatchRetry(c)
    <3>1. Calling("retrying", watch.attempt, watch.age) \in CallState
      BY CallType DEF CallPC
    <3> QED
      BY <2>8, <3>1, <1>k, IdleTypes DEF DispatchRetry, TypeOK
  <2>9. CASE Retry(c)
    <3>1. Calling("stamped", lastId + 1, 0) \in CallState
      BY CallType DEF CallPC, TypeOK
    <3>2. call[c].since \in Age
      OBVIOUS
    <3> QED
      BY <2>9, <3>1, <3>2 DEF Retry, TypeOK, RowOK, Status, history
  <2> QED
    BY <1>1, <2>1, <2>2, <2>3, <2>4, <2>5, <2>6, <2>7, <2>8, <2>9 DEF CallerStep
<1>2. ASSUME NEW a \in starts, TakeStart(a) \/ LoseStart(a)
      PROVE  RowOK' /\ Rest
  <2>1. Running("queued", a, FALSE) \in RunState
    BY RunType DEF RunPC, TypeOK
  <2> QED
    BY <1>2, <2>1, <1>k DEF TakeStart, LoseStart, TypeOK
<1>3. ASSUME NEW w \in Worker, WorkerStep(w)
      PROVE  RowOK' /\ Rest
  <2>1. CASE StartSync(w)
    <3>1. Executing("syncing", run.attempt, ~linked, TRUE) \in ExecState
      BY ExecType DEF ExecPC, TypeOK
    <3>2. run' \in RunState
      BY <2>1, MoveRunType DEF StartSync, RunPC
    <3> QED
      BY <2>1, <3>1, <3>2, <1>k DEF StartSync, TypeOK
  <2>2. CASE Push(w)
    <3>1. Executing("pushed", exec[w].attempt, exec[w].create, exec[w].latest) \in ExecState
      BY ExecType DEF ExecPC
    <3>2. /\ (covered \/ exec[w].latest) \in BOOLEAN
          /\ (linked \/ exec[w].create) \in BOOLEAN
      OBVIOUS
    <3> QED
      BY <2>2, <3>1, <3>2 DEF Push, TypeOK, RowOK
  <2>3. ASSUME NEW pc \in RunPC, NEW o \in BOOLEAN, Report(w, pc, o),
               UNCHANGED <<lastId, call, starts, watch>>
        PROVE  Rest
    BY <2>3, ReportType DEF TypeOK
  <2>4. CASE StampSuccess(w) \/ StampConflict(w)
    <3>1. RowOK'
      BY <2>4, <1>a DEF StampSuccess, StampConflict, Status
    <3> QED
      BY <2>4, <2>3, <3>1 DEF StampSuccess, StampConflict, RunPC
  <2>5. CASE SkipLinked(w)
    BY <2>5, <2>3, <1>k DEF SkipLinked, KeepStatus, RunPC
  <2>6. CASE SyncThrows(w)
    <3>1. Report(w, "queued", FALSE) \/ Report(w, "recording", FALSE)
      BY <2>6 DEF SyncThrows
    <3>2. RowOK' /\ UNCHANGED <<lastId, call, starts, watch>>
      BY <2>6, <1>k DEF SyncThrows
    <3> QED
      BY <2>3, <3>1, <3>2 DEF RunPC
  <2>7. CASE RecordOrphan(w) \/ RecordUnconfirmed(w)
    <3>1. RowOK'
      BY <2>7, <1>k, <1>s DEF RecordOrphan, RecordUnconfirmed, KeepStatus, Status
    <3>2. Report(w, "clearing", TRUE) \/ Report(w, "clearing", FALSE)
      BY <2>7 DEF RecordOrphan, RecordUnconfirmed
    <3>3. UNCHANGED <<lastId, call, starts, watch>>
      BY <2>7 DEF RecordOrphan, RecordUnconfirmed
    <3> QED
      BY <2>3, <3>1, <3>2, <3>3 DEF RunPC
  <2> QED
    BY <1>3, <2>1, <2>2, <2>4, <2>5, <2>6, <2>7 DEF WorkerStep
<1>4. CASE RunStep
  <2>1. CASE SyncTimesOut
    BY <2>1, <1>k, MoveRunType DEF SyncTimesOut, TypeOK, RunPC
  <2>2. CASE RecordFailure
    <3>1. RowOK'
      BY <2>2, <1>k, <1>a DEF RecordFailure, KeepStatus, Status
    <3> QED
      BY <2>2, <3>1, MoveRunType DEF RecordFailure, TypeOK, RunPC
  <2>3. CASE ClearLeaked
    <3>1. RowOK'
      BY <2>3, <1>k, <1>w DEF ClearLeaked, KeepStatus
    <3> QED
      BY <2>3, <3>1, MoveRunType DEF ClearLeaked, TypeOK, RunPC
  <2>4. CASE CloseRun \/ Terminate
    BY <2>4, <1>k, IdleTypes DEF CloseRun, Terminate, TypeOK
  <2> QED
    BY <1>4, <2>1, <2>2, <2>3, <2>4 DEF RunStep
<1>5. CASE WatchStep
  <2>1. CASE Scan
    <3>1. Watching("seen", attempt, since, "unknown") \in WatchState
      BY WatchType DEF WatchPC, Answer, TypeOK
    <3> QED
      BY <2>1, <3>1, <1>k DEF Scan, TypeOK
  <2>2. CASE GiveUp
    BY <2>2, <1>w, IdleTypes DEF GiveUp, TypeOK
  <2>3. CASE Probe
    <3>1. PICK answer \in Answer :
            watch' = Watching("probed", watch.attempt, watch.age, answer)
      BY <2>3 DEF Probe, Described, Answer
    <3>2. watch' \in WatchState
      BY <3>1, WatchType DEF WatchPC
    <3> QED
      BY <2>3, <3>2, <1>k DEF Probe, TypeOK
  <2>4. CASE SkipLive \/ Defer
    BY <2>4, <1>k, IdleTypes DEF SkipLive, Defer, TypeOK
  <2> QED
    BY <1>5, <2>1, <2>2, <2>3, <2>4 DEF WatchStep
<1>6. CASE UserStep
  <2>1. CASE NoConfig
    BY <2>1, <1>s DEF NoConfig, TypeOK, Status
  <2>2. CASE Dismiss
    BY <2>2 DEF Dismiss, Others, TypeOK, RowOK, Status
  <2>3. CASE ResolveConflict \/ UnattemptedOrphan
    BY <2>3, <1>s DEF ResolveConflict, UnattemptedOrphan, Others, TypeOK, Status
  <2>4. CASE UnattemptedStatus
    <3>1. RowOK'
      BY <2>4, <1>s DEF UnattemptedStatus, Status
    <3> QED
      BY <2>4, <3>1 DEF UnattemptedStatus, Others, TypeOK
  <2>5. CASE Unlink
    BY <2>5, NewContentType DEF Unlink, Others, TypeOK, RowOK, Status
  <2>6. CASE Relink
    BY <2>6, NewContentType DEF Relink, Others, TypeOK, RowOK, Status
  <2>7. CASE TransferPending
    BY <2>7, NewContentType DEF TransferPending, TypeOK, RowOK, Status
  <2>8. CASE TransferSettled
    BY <2>8, NewContentType DEF TransferSettled, Others, TypeOK, RowOK, Status
  <2> QED
    BY <1>6, <2>1, <2>2, <2>3, <2>4, <2>5, <2>6, <2>7, <2>8 DEF UserStep
<1>7. CASE Tick
  <2>1. \A c \in Caller :
          Calling("retrying", call[c].attempt, Older(call[c].since, GiveUpAfter)) \in CallState
    BY CallType DEF CallPC
  <2>2. Watching(watch.pc, watch.attempt, Older(watch.age, GiveUpAfter), watch.answer)
          \in WatchState
    BY WatchType
  <2> QED
    BY <1>7, <2>1, <2>2 DEF Tick, TypeOK, RowOK
<1>8. CASE UNCHANGED vars
  BY <1>8, <1>k DEF vars, TypeOK
<1> QED
  BY <1>1, <1>2, <1>3, <1>4, <1>5, <1>6, <1>7, <1>8 DEF Next

LEMMA TypeInit == Init => TypeOK
<1> SUFFICES ASSUME Init PROVE TypeOK
  OBVIOUS
<1>1. call \in [Caller -> CallState] /\ exec \in [Worker -> ExecState]
  BY IdleTypes DEF Init
<1>2. run \in RunState /\ watch \in WatchState
  BY IdleTypes DEF Init
<1>3. since \in Age /\ tried \in Tried /\ age \in Age
  BY AgeType DEF Init
<1>4. enqueues \in 0 .. MaxEnqueues /\ attempt \in Nat /\ lastId \in Nat
  BY AgeAssumption DEF Init
<1>5. linked \in BOOLEAN /\ covered \in BOOLEAN /\ by \in {"run", "other"}
  BY DEF Init
<1>6. status \in Status /\ starts \in SUBSET Nat /\ (status = "PENDING" => attempt # 0)
  BY DEF Init, Status
<1> QED
  BY <1>1, <1>2, <1>3, <1>4, <1>5, <1>6 DEF TypeOK

THEOREM TypeCorrect == Spec => []TypeOK
BY TypeInit, TypeStep, PTL DEF Spec

-----------------------------------------------------------------------------
(* What a step that settles the row or leaves it alone may do elsewhere. *)

CallKept(c) ==
    \/ call'[c] = call[c]
    \/ call'[c].pc = "idle"
    \/ call'[c].pc # "retrying" /\ call'[c].attempt \in 1 .. lastId
    \/ /\ call'[c].pc = "retrying"
       /\ watch.pc # "idle"
       /\ call'[c].attempt = watch.attempt
       /\ call'[c].since = watch.age

ExecKept(w) ==
    \/ exec'[w] = exec[w]
    \/ exec'[w].pc = "idle"
    \/ /\ exec'[w].pc = "syncing"
       /\ exec'[w].attempt \in 1 .. lastId
       /\ exec'[w].create = ~linked
       /\ exec'[w].latest

WatchKept ==
    \/ watch'.pc = "idle"
    \/ watch'.attempt = attempt /\ watch'.age = since
    \/ watch.pc # "idle" /\ watch'.attempt = watch.attempt /\ watch'.age = watch.age

Quiet ==
    /\ Settles
    /\ lastId' = lastId
    /\ starts' \in SUBSET (1 .. lastId)
    /\ run'.pc # "none" => run'.attempt \in 1 .. lastId
    /\ \A c \in Caller : CallKept(c)
    /\ \A w \in Worker : ExecKept(w)
    /\ WatchKept

LEMMA RowKept ==
    ASSUME Settles, SuccessIsCovered
    PROVE  /\ UNCHANGED <<attempt, since, tried, linked, enqueues, age, covered>>
           /\ status' = "PENDING" => status = "PENDING"
           /\ SuccessIsCovered'
BY DEF Settles, KeepStatus, WriteStatus, SuccessIsCovered, row, history, Status

LEMMA QuietStep ==
    ASSUME IndInv, TypeOK', Quiet
    PROVE  IndInv'
<1>1. /\ UNCHANGED <<attempt, since, linked, age, covered>>
      /\ status' = "PENDING" => status = "PENDING"
      /\ SuccessIsCovered'
  BY RowKept DEF IndInv, Quiet
<1>2. BoundIsTheEnqueues'
  BY <1>1 DEF IndInv, BoundIsTheEnqueues
<1>3. TypeOK /\ attempt \in Nat /\ lastId \in Nat
  BY DEF IndInv, TypeOK
<1>4. AttemptsAreFresh'
  <2>1. ASSUME NEW c \in Caller
        PROVE  /\ call'[c].pc \notin {"idle", "retrying"}
                     => call'[c].attempt \in 1 .. lastId'
               /\ call'[c].pc = "retrying" => call'[c].attempt <= lastId'
    <3>1. CallKept(c)
      BY DEF Quiet
    <3> QED
      BY <3>1 DEF CallKept, Quiet, IndInv, AttemptsAreFresh
  <2>2. ASSUME NEW w \in Worker
        PROVE  exec'[w].pc # "idle" => exec'[w].attempt \in 1 .. lastId'
    <3>1. ExecKept(w)
      BY DEF Quiet
    <3> QED
      BY <3>1 DEF ExecKept, Quiet, IndInv, AttemptsAreFresh
  <2>3. watch'.pc # "idle" => watch'.attempt <= lastId'
    BY <1>1 DEF WatchKept, Quiet, IndInv, AttemptsAreFresh
  <2>4. /\ attempt' <= lastId'
        /\ \A a \in starts' : a \in 1 .. lastId'
        /\ run'.pc # "none" => run'.attempt \in 1 .. lastId'
    BY <1>1 DEF Quiet, IndInv, AttemptsAreFresh
  <2> QED
    BY <2>1, <2>2, <2>3, <2>4 DEF AttemptsAreFresh
<1>5. ExecutionsAreCurrent'
  <2>1. ASSUME NEW w \in Worker, exec'[w].pc # "idle", exec'[w].attempt = attempt'
        PROVE  /\ exec'[w].pc = "pushed" \/ ~exec'[w].create => linked'
               /\ exec'[w].pc = "pushed" => covered'
               /\ \/ exec'[w].create /\ linked'
                  \/ exec'[w].pc = "pushed"
                  \/ exec'[w].latest
    <3>1. CASE exec'[w] = exec[w]
      BY <2>1, <3>1, <1>1 DEF IndInv, ExecutionsAreCurrent
    <3>2. CASE /\ exec'[w].pc = "syncing"
               /\ exec'[w].create = ~linked
               /\ exec'[w].latest
      BY <3>2, <1>1
    <3> QED
      BY <2>1, <3>1, <3>2 DEF Quiet, ExecKept
  <2> QED
    BY <2>1 DEF ExecutionsAreCurrent
<1>6. BoundsAreCurrent'
  <2> SUFFICES ASSUME status' = "PENDING"
               PROVE  /\ watch'.pc # "idle" /\ watch'.attempt = attempt'
                            => watch'.age = since'
                      /\ \A c \in Caller :
                            call'[c].pc = "retrying" /\ call'[c].attempt = attempt'
                               => call'[c].since = since'
    BY DEF BoundsAreCurrent
  <2>1. watch'.pc # "idle" /\ watch'.attempt = attempt' => watch'.age = since'
    BY <1>1 DEF Quiet, WatchKept, IndInv, BoundsAreCurrent
  <2>2. ASSUME NEW c \in Caller, call'[c].pc = "retrying", call'[c].attempt = attempt'
        PROVE  call'[c].since = since'
    <3>1. CallKept(c)
      BY DEF Quiet
    <3> QED
      BY <2>2, <3>1, <1>1 DEF CallKept, IndInv, BoundsAreCurrent
  <2> QED
    BY <2>1, <2>2
<1> QED
  BY <1>1, <1>2, <1>4, <1>5, <1>6 DEF IndInv
-----------------------------------------------------------------------------
(* The writes of the row's status that a settling step makes. *)
LEMMA SettlingWrites ==
    /\ KeepStatus => Settles
    /\ \A a : \A s \in {"FAILED", "NONE"} : WriteIfPendingFor(a, s) => Settles
    /\ \A s \in {"FAILED", "CONFLICT", "SUCCESS"} : WriteStatus(s, "other") => Settles
    /\ \A a : \A s \in {"FAILED", "CONFLICT"} : WriteForAttempt(a, s, "run") => Settles
<1>1. KeepStatus => Settles
  BY DEF Settles
<1>2. ASSUME NEW s \in {"FAILED", "CONFLICT", "SUCCESS", "NONE"}, NEW who \in {"run", "other"},
             WriteStatus(s, who), ~(s = "SUCCESS" /\ who = "run")
      PROVE  Settles
  <2>1. s \in Status \ {"PENDING"}
    BY DEF Status
  <2> QED
    BY <1>2, <2>1, Zenon DEF Settles
<1>3. ASSUME NEW a, NEW s \in {"FAILED", "NONE"}, WriteIfPendingFor(a, s)
      PROVE  Settles
  BY <1>1, <1>2, <1>3 DEF WriteIfPendingFor
<1>4. ASSUME NEW a, NEW s \in {"FAILED", "CONFLICT"}, WriteForAttempt(a, s, "run")
      PROVE  Settles
  BY <1>1, <1>2, <1>4 DEF WriteForAttempt
<1> QED
  BY <1>1, <1>2, <1>3, <1>4

(* One caller, one worker. *)
LEMMA CallMoves ==
    ASSUME TypeOK, AttemptsAreFresh, NEW c \in Caller, NEW pc \in CallPC \ {"retrying"},
           call[c].pc \notin {"idle", "retrying"},
           MoveCall(c, pc) \/ EndCall(c)
    PROVE  \A d \in Caller : CallKept(d)
<1> SUFFICES ASSUME NEW d \in Caller PROVE CallKept(d)
  OBVIOUS
<1>1. call[c].attempt \in 1 .. lastId
  BY DEF AttemptsAreFresh
<1>2. CASE MoveCall(c, pc)
  BY <1>1, <1>2 DEF MoveCall, CallKept, Calling, TypeOK
<1>3. CASE EndCall(c)
  BY <1>3 DEF EndCall, CallKept, IdleCall, Calling, TypeOK
<1> QED
  BY <1>2, <1>3

LEMMA CallEnds ==
    ASSUME TypeOK, NEW c \in Caller, EndCall(c)
    PROVE  \A d \in Caller : CallKept(d)
BY DEF EndCall, CallKept, IdleCall, Calling, TypeOK

LEMMA Reports ==
    ASSUME TypeOK, AttemptsAreFresh, NEW w \in Worker, exec[w].pc # "idle",
           NEW pc \in RunPC, NEW o \in BOOLEAN, Report(w, pc, o)
    PROVE  /\ \A v \in Worker : ExecKept(v)
           /\ run'.pc # "none" => run'.attempt \in 1 .. lastId
<1>1. \A v \in Worker : ExecKept(v)
  BY DEF Report, ExecKept, IdleExec, Executing, TypeOK
<1>2. exec[w].attempt \in 1 .. lastId
  BY DEF AttemptsAreFresh
<1>3. run'.pc # "none" => run'.attempt \in 1 .. lastId
  BY <1>2 DEF Report, Running, AttemptsAreFresh
<1> QED
  BY <1>1, <1>3

-----------------------------------------------------------------------------
(* The steps of callers, workers, runs and the watchdog that settle the row *)
(* or leave it alone.                                                       *)
LEMMA CallersQuiet ==
    ASSUME IndInv, NEW c \in Caller, CallerStep(c), ~Enqueue(c), ~Retry(c)
    PROVE  Quiet
<1> USE DEF IndInv
<1>0. /\ starts \in SUBSET (1 .. lastId)
      /\ run.pc # "none" => run.attempt \in 1 .. lastId
      /\ \A w \in Worker : exec' = exec => ExecKept(w)
      /\ watch' = watch => WatchKept
  BY DEF AttemptsAreFresh, ExecKept, WatchKept
<1>k. UNCHANGED <<row, history>> => Settles
  BY SettlingWrites DEF KeepStatus
<1>1. CASE ClientFails(c)
  BY <1>0, <1>1, <1>k, CallMoves DEF ClientFails, Quiet, CallPC
<1>2. CASE SendStart(c)
  <2>1. call[c].attempt \in 1 .. lastId
    BY <1>2 DEF SendStart, AttemptsAreFresh
  <2> QED
    BY <1>0, <1>2, <2>1, <1>k, CallMoves DEF SendStart, Quiet, CallPC
<1>3. CASE StartAnswered(c) \/ CallerDies(c) \/ RetrySuperseded(c)
  BY <1>0, <1>3, <1>k, CallEnds DEF StartAnswered, CallerDies, RetrySuperseded, Quiet
<1>4. CASE StartThrows(c)
  BY <1>0, <1>4, <1>k, CallMoves DEF StartThrows, Quiet, CallPC
<1>5. CASE Describe(c)
  <2>1. MoveCall(c, "compensating") \/ EndCall(c)
    BY <1>5 DEF Describe
  <2>2. call[c].pc = "describing"
    BY <1>5 DEF Describe
  <2>3. \A d \in Caller : CallKept(d)
    BY <2>1, <2>2, CallMoves DEF CallPC
  <2> QED
    BY <1>0, <1>5, <2>3, <1>k DEF Describe, Quiet
<1>6. CASE Compensate(c)
  <2>1. Settles
    BY <1>6, SettlingWrites DEF Compensate
  <2>2. \A d \in Caller : CallKept(d)
    BY <1>6, CallEnds DEF Compensate
  <2> QED
    BY <1>0, <1>6, <2>1, <2>2 DEF Compensate, Quiet
<1>7. CASE DispatchRetry(c)
  <2>1. \A d \in Caller : CallKept(d)
    BY <1>7 DEF DispatchRetry, CallKept, Calling, TypeOK
  <2>2. WatchKept
    BY <1>7 DEF DispatchRetry, WatchKept, IdleWatch, Watching
  <2> QED
    BY <1>0, <1>7, <2>1, <2>2, <1>k DEF DispatchRetry, Quiet
<1> QED
  BY <1>1, <1>2, <1>3, <1>4, <1>5, <1>6, <1>7 DEF CallerStep
(* What stays as it is keeps Quiet's promise. *)
LEMMA Unmoved ==
    ASSUME TypeOK, AttemptsAreFresh
    PROVE  /\ starts \in SUBSET (1 .. lastId)
           /\ run.pc # "none" => run.attempt \in 1 .. lastId
           /\ call' = call => \A c \in Caller : CallKept(c)
           /\ exec' = exec => \A w \in Worker : ExecKept(w)
           /\ watch' = watch => WatchKept
           /\ UNCHANGED <<row, history>> => Settles
<1>1. UNCHANGED <<row, history>> => Settles
  BY SettlingWrites DEF KeepStatus
<1> QED
  BY <1>1 DEF AttemptsAreFresh, CallKept, ExecKept, WatchKept

LEMMA WorkersQuiet ==
    ASSUME IndInv, NEW w \in Worker, WorkerStep(w), ~Push(w)
    PROVE  Quiet
<1>0. TypeOK /\ AttemptsAreFresh /\ ExecutionsAreCurrent
  BY DEF IndInv
<1> USE <1>0, Unmoved
<1>a. ASSUME Settles, UNCHANGED <<lastId, call, starts, watch>>, exec[w].pc # "idle",
             NEW pc \in RunPC, NEW o \in BOOLEAN, Report(w, pc, o)
      PROVE  Quiet
  BY <1>a, Reports DEF Quiet
<1>1. CASE StartSync(w)
  <2>1. run.attempt \in 1 .. lastId /\ run'.attempt = run.attempt
    BY <1>1 DEF StartSync, MoveRun, Running, AttemptsAreFresh
  <2>2. \A v \in Worker : ExecKept(v)
    BY <1>1, <2>1 DEF StartSync, ExecKept, Executing, TypeOK
  <2> QED
    BY <1>1, <2>1, <2>2 DEF StartSync, Quiet
<1>2. CASE StampSuccess(w)
  <2>1. Settles
    <3>1. CASE attempt = exec[w].attempt
      <4>1. covered
        BY <1>2, <3>1 DEF StampSuccess, ExecutionsAreCurrent
      <4>2. WriteStatus("SUCCESS", "run")
        BY <1>2, <3>1 DEF StampSuccess, WriteForAttempt
      <4>3. "SUCCESS" \in Status \ {"PENDING"}
        BY DEF Status
      <4> QED
        BY <4>1, <4>2, <4>3, Zenon DEF Settles
    <3>2. CASE attempt # exec[w].attempt
      BY <1>2, <3>2, SettlingWrites DEF StampSuccess, WriteForAttempt
    <3> QED
      BY <3>1, <3>2
  <2> QED
    BY <1>2, <1>a, <2>1 DEF StampSuccess, RunPC
<1>3. CASE StampConflict(w)
  BY <1>3, <1>a, SettlingWrites DEF StampConflict, RunPC
<1>4. CASE SkipLinked(w)
  BY <1>4, <1>a, SettlingWrites DEF SkipLinked, RunPC
<1>5. CASE RecordOrphan(w)
  BY <1>5, <1>a, SettlingWrites DEF RecordOrphan, RunPC
<1>6. CASE RecordUnconfirmed(w)
  BY <1>6, <1>a, SettlingWrites DEF RecordUnconfirmed, RunPC
<1>7. CASE SyncThrows(w)
  <2>1. Report(w, "queued", FALSE) \/ Report(w, "recording", FALSE)
    BY <1>7 DEF SyncThrows
  <2>2. Settles /\ UNCHANGED <<lastId, call, starts, watch>> /\ exec[w].pc # "idle"
    BY <1>7 DEF SyncThrows
  <2> QED
    BY <1>a, <2>1, <2>2 DEF RunPC
<1> QED
  BY <1>1, <1>2, <1>3, <1>4, <1>5, <1>6, <1>7 DEF WorkerStep

LEMMA RunsQuiet ==
    ASSUME IndInv, RunStep \/ \E a \in starts : TakeStart(a) \/ LoseStart(a)
    PROVE  Quiet
<1>0. TypeOK /\ AttemptsAreFresh
  BY DEF IndInv
<1> USE <1>0, Unmoved
<1>1. ASSUME NEW a \in starts, TakeStart(a) \/ LoseStart(a)
      PROVE  Quiet
  <2>1. run'.pc # "none" => run'.attempt \in 1 .. lastId
    BY <1>1 DEF TakeStart, LoseStart, Running
  <2>2. starts' \in SUBSET (1 .. lastId)
    BY <1>1 DEF TakeStart, LoseStart
  <2> QED
    BY <1>1, <2>1, <2>2 DEF TakeStart, LoseStart, Quiet
<1>a. ASSUME NEW pc, MoveRun(pc), run.pc # "none"
      PROVE  run'.attempt \in 1 .. lastId
  BY <1>a DEF MoveRun, Running
<1>2. CASE SyncTimesOut
  <2>1. run'.attempt \in 1 .. lastId
    BY <1>2, <1>a DEF SyncTimesOut
  <2> QED
    BY <1>2, <2>1 DEF SyncTimesOut, Quiet
<1>3. CASE RecordFailure
  BY <1>3, <1>a, SettlingWrites DEF RecordFailure, Quiet
<1>4. CASE ClearLeaked
  BY <1>4, <1>a, SettlingWrites DEF ClearLeaked, Quiet
<1>5. CASE CloseRun \/ Terminate
  BY <1>5 DEF CloseRun, Terminate, NoRun, Running, Quiet
<1> QED
  BY <1>1, <1>2, <1>3, <1>4, <1>5 DEF RunStep

LEMMA WatchQuiet ==
    ASSUME IndInv, WatchStep
    PROVE  Quiet
<1>0. TypeOK /\ AttemptsAreFresh
  BY DEF IndInv
<1> USE <1>0, Unmoved
<1>1. CASE Scan
  BY <1>1 DEF Scan, WatchKept, Watching, Quiet
<1>2. CASE GiveUp
  BY <1>2, SettlingWrites DEF GiveUp, WatchKept, IdleWatch, Watching, Quiet
<1>3. CASE Probe
  <2>1. WatchKept
    BY <1>3 DEF Probe, WatchKept, Watching
  <2> QED
    BY <1>3, <2>1 DEF Probe, Quiet
<1>4. CASE SkipLive \/ Defer
  BY <1>4 DEF SkipLive, Defer, WatchKept, IdleWatch, Watching, Quiet
<1> QED
  BY <1>1, <1>2, <1>3, <1>4 DEF WatchStep

LEMMA UsersQuiet ==
    ASSUME IndInv,
           NoConfig \/ ResolveConflict \/ UnattemptedStatus \/ UnattemptedOrphan
    PROVE  Quiet
<1>0. TypeOK /\ AttemptsAreFresh
  BY DEF IndInv
<1> USE <1>0, Unmoved, SettlingWrites
<1>1. CASE NoConfig
  BY <1>1 DEF NoConfig, Quiet
<1>2. CASE ResolveConflict \/ UnattemptedOrphan
  BY <1>2 DEF ResolveConflict, UnattemptedOrphan, Others, Quiet
<1>3. CASE UnattemptedStatus
  <2>1. Settles
    BY <1>3 DEF UnattemptedStatus
  <2> QED
    BY <1>3, <2>1 DEF UnattemptedStatus, Others, Quiet
<1> QED
  BY <1>1, <1>2, <1>3
-----------------------------------------------------------------------------
(* The steps that make the row PENDING, move its link, or let time pass. *)

(* New content leaves executions where they are. *)
LEMMA NewContentKeeps ==
    ASSUME NewContent, NEW w \in Worker
    PROVE  /\ exec'[w].pc = exec[w].pc
           /\ exec'[w].attempt = exec[w].attempt
           /\ exec'[w].create = exec[w].create
BY DEF NewContent, Executing

(* The row comes under no attempt id, or under a fresh one, with new content. *)
Renewed ==
    /\ NewContent
    /\ UNCHANGED <<starts, run, watch>>
    /\ \/ /\ UNCHANGED <<lastId, call>>
          /\ status' # "PENDING"
          /\ attempt' = 0
       \/ /\ lastId' = lastId + 1
          /\ attempt' = lastId + 1
          /\ status' = "PENDING" /\ since' = age'
          /\ \A c \in Caller :
                \/ call'[c] = call[c]
                \/ call'[c].pc = "stamped" /\ call'[c].attempt = lastId + 1

(* Under an attempt id that no execution, watch or retry has, what they know *)
(* of the row's attempt is vacuous.                                          *)
LEMMA RenewedInv ==
    ASSUME IndInv, TypeOK', Renewed, SuccessIsCovered'
    PROVE  IndInv'
<1>1. TypeOK /\ AttemptsAreFresh /\ lastId \in Nat
  BY DEF IndInv, TypeOK
<1>2. AttemptsAreFresh'
  <2>0. lastId' \in {lastId, lastId + 1} /\ attempt' <= lastId'
    BY <1>1 DEF Renewed
  <2>1. ASSUME NEW c \in Caller
        PROVE  /\ call'[c].pc \notin {"idle", "retrying"}
                     => call'[c].attempt \in 1 .. lastId'
               /\ call'[c].pc = "retrying" => call'[c].attempt <= lastId'
    BY <1>1, StateFields DEF AttemptsAreFresh, Renewed
  <2>2. ASSUME NEW w \in Worker
        PROVE  exec'[w].pc # "idle" => exec'[w].attempt \in 1 .. lastId'
    BY <1>1, <2>0, NewContentKeeps DEF AttemptsAreFresh, Renewed
  <2>3. /\ \A a \in starts' : a \in 1 .. lastId'
        /\ run'.pc # "none" => run'.attempt \in 1 .. lastId'
        /\ watch'.pc # "idle" => watch'.attempt <= lastId'
    BY <1>1, <2>0, StateFields DEF AttemptsAreFresh, Renewed
  <2> QED
    BY <2>0, <2>1, <2>2, <2>3 DEF AttemptsAreFresh
<1>3. ExecutionsAreCurrent'
  <2>1. ASSUME NEW w \in Worker, exec'[w].pc # "idle"
        PROVE  exec'[w].attempt # attempt'
    BY <1>1, <2>1, NewContentKeeps DEF AttemptsAreFresh, Renewed
  <2> QED
    BY <2>1 DEF ExecutionsAreCurrent
<1>4. BoundsAreCurrent'
  <2> SUFFICES ASSUME status' = "PENDING"
               PROVE  /\ watch'.pc # "idle" => watch'.attempt # attempt'
                      /\ \A c \in Caller :
                            call'[c].pc = "retrying" => call'[c].attempt # attempt'
    BY DEF BoundsAreCurrent
  <2>1. watch'.pc # "idle" => watch'.attempt # attempt'
    BY <1>1, StateFields DEF AttemptsAreFresh, Renewed
  <2>2. ASSUME NEW c \in Caller, call'[c].pc = "retrying"
        PROVE  call'[c].attempt # attempt'
    BY <1>1, <2>2, StateFields DEF AttemptsAreFresh, Renewed
  <2> QED
    BY <2>1, <2>2
<1> QED
  BY <1>2, <1>3, <1>4 DEF IndInv, BoundIsTheEnqueues, Renewed

LEMMA EnqueueInv ==
    ASSUME IndInv, TypeOK', NEW c \in Caller, Enqueue(c)
    PROVE  IndInv'
<1>1. \A d \in Caller : \/ call'[d] = call[d]
                        \/ call'[d].pc = "stamped" /\ call'[d].attempt = lastId + 1
  BY DEF Enqueue, Calling, IndInv, TypeOK
<1>2. Renewed
  BY <1>1 DEF Enqueue, Renewed
<1>3. SuccessIsCovered'
  BY DEF Enqueue, SuccessIsCovered
<1> QED
  BY <1>2, <1>3, RenewedInv

LEMMA TransferInv ==
    ASSUME IndInv, TypeOK', TransferPending \/ TransferSettled \/ Unlink
    PROVE  IndInv'
<1>1. CASE TransferPending
  <2>1. Renewed
    BY <1>1 DEF TransferPending, Renewed
  <2>2. SuccessIsCovered'
    BY <1>1 DEF TransferPending, SuccessIsCovered
  <2> QED
    BY <2>1, <2>2, RenewedInv
<1>2. CASE TransferSettled \/ Unlink
  <2>1. Renewed
    BY <1>2 DEF TransferSettled, Unlink, Others, Renewed
  <2>2. SuccessIsCovered'
    BY <1>2 DEF TransferSettled, Unlink, SuccessIsCovered
  <2> QED
    BY <2>1, <2>2, RenewedInv
<1> QED
  BY <1>1, <1>2

(* The link comes back under the old attempt id: its executions are creates *)
(* that have not pushed, and find the row linked.                           *)
LEMMA RelinkInv ==
    ASSUME IndInv, TypeOK', Relink
    PROVE  IndInv'
<1>1. ASSUME NEW w \in Worker, exec'[w].pc # "idle", exec'[w].attempt = attempt'
      PROVE  exec'[w].create /\ exec'[w].pc # "pushed"
  <2>1. exec[w].pc # "idle" /\ exec[w].attempt = attempt
    BY <1>1, NewContentKeeps DEF Relink
  <2>2. exec[w].pc # "pushed" /\ exec[w].create
    BY <2>1 DEF Relink, IndInv, ExecutionsAreCurrent
  <2> QED
    BY <2>2, NewContentKeeps DEF Relink
<1>2. ExecutionsAreCurrent'
  BY <1>1 DEF ExecutionsAreCurrent, Relink
<1>3. AttemptsAreFresh'
  BY NewContentKeeps DEF Relink, Others, IndInv, AttemptsAreFresh
<1> QED
  BY <1>2, <1>3 DEF IndInv, Relink, BoundsAreCurrent, BoundIsTheEnqueues, SuccessIsCovered

LEMMA DismissInv ==
    ASSUME IndInv, TypeOK', Dismiss
    PROVE  IndInv'
<1>1. AttemptsAreFresh'
  BY DEF Dismiss, Others, IndInv, AttemptsAreFresh, TypeOK
<1>2. ExecutionsAreCurrent'
  BY DEF Dismiss, Others, IndInv, AttemptsAreFresh, ExecutionsAreCurrent, TypeOK
<1> QED
  BY <1>1, <1>2 DEF IndInv, Dismiss, BoundsAreCurrent, BoundIsTheEnqueues, SuccessIsCovered

LEMMA PushInv ==
    ASSUME IndInv, TypeOK', NEW w \in Worker, Push(w)
    PROVE  IndInv'
<1>0. /\ exec'[w].pc = "pushed" /\ exec'[w].attempt = exec[w].attempt
      /\ exec'[w].create = exec[w].create
      /\ \A v \in Worker \ {w} : exec'[v] = exec[v]
  BY DEF Push, Executing, IndInv, TypeOK
<1>1. AttemptsAreFresh'
  BY <1>0 DEF Push, IndInv, AttemptsAreFresh
<1>2. (covered => covered') /\ (linked => linked')
  BY DEF Push
<1>3. ASSUME exec[w].attempt = attempt
      PROVE  linked' /\ covered'
  <2>1. CASE exec[w].create
    BY <1>3, <2>1 DEF Push, IndInv, ExecutionsAreCurrent
  <2>2. CASE ~exec[w].create
    BY <1>3, <2>2 DEF Push, IndInv, ExecutionsAreCurrent
  <2> QED
    BY <2>1, <2>2
<1>4. ExecutionsAreCurrent'
  <2>1. attempt' = attempt
    BY DEF Push
  <2>2. ASSUME NEW v \in Worker, v # w, exec'[v].pc # "idle", exec'[v].attempt = attempt'
        PROVE  /\ exec'[v].pc = "pushed" \/ ~exec'[v].create => linked'
               /\ exec'[v].pc = "pushed" => covered'
               /\ \/ exec'[v].create /\ linked'
                  \/ exec'[v].pc = "pushed"
                  \/ exec'[v].latest
    BY <1>0, <1>2, <2>1, <2>2 DEF IndInv, ExecutionsAreCurrent
  <2> QED
    BY <1>0, <1>3, <2>1, <2>2 DEF ExecutionsAreCurrent
<1>5. BoundsAreCurrent' /\ BoundIsTheEnqueues' /\ SuccessIsCovered'
  BY <1>2 DEF Push, IndInv, BoundsAreCurrent, BoundIsTheEnqueues, SuccessIsCovered
<1> QED
  BY <1>1, <1>4, <1>5 DEF IndInv
(* A retry gives the row a fresh attempt id and the bound it had. *)
LEMMA RetryInv ==
    ASSUME IndInv, TypeOK', NEW c \in Caller, Retry(c)
    PROVE  IndInv'
<1>0. /\ TypeOK /\ AttemptsAreFresh /\ lastId \in Nat
      /\ lastId' = lastId + 1 /\ attempt' = lastId + 1
      /\ UNCHANGED <<starts, run, exec, watch>>
      /\ \A d \in Caller :
            call'[d] = call[d] \/ (call'[d].pc = "stamped" /\ call'[d].attempt = lastId + 1)
  <2>1. TypeOK /\ AttemptsAreFresh
    BY DEF IndInv
  <2>2. lastId \in Nat /\ call \in [Caller -> CallState]
    BY <2>1 DEF TypeOK
  <2>3. \A d \in Caller :
          call'[d] = call[d] \/ (call'[d].pc = "stamped" /\ call'[d].attempt = lastId + 1)
    BY <2>2 DEF Retry, Calling
  <2> QED
    BY <2>1, <2>2, <2>3 DEF Retry
<1>1. AttemptsAreFresh'
  <2>1. ASSUME NEW d \in Caller
        PROVE  /\ call'[d].pc \notin {"idle", "retrying"}
                     => call'[d].attempt \in 1 .. lastId'
               /\ call'[d].pc = "retrying" => call'[d].attempt <= lastId'
    BY <1>0, StateFields DEF AttemptsAreFresh
  <2>2. ASSUME NEW w \in Worker
        PROVE  exec'[w].pc # "idle" => exec'[w].attempt \in 1 .. lastId'
    BY <1>0 DEF AttemptsAreFresh
  <2>3. /\ \A a \in starts' : a \in 1 .. lastId'
        /\ run'.pc # "none" => run'.attempt \in 1 .. lastId'
        /\ watch'.pc # "idle" => watch'.attempt <= lastId'
    BY <1>0, StateFields DEF AttemptsAreFresh
  <2> QED
    BY <1>0, <2>1, <2>2, <2>3 DEF AttemptsAreFresh
<1>2. ExecutionsAreCurrent'
  <2>1. ASSUME NEW w \in Worker, exec'[w].pc # "idle"
        PROVE  exec'[w].attempt # attempt'
    BY <1>0, <2>1 DEF AttemptsAreFresh
  <2> QED
    BY <2>1 DEF ExecutionsAreCurrent
<1>3. BoundsAreCurrent'
  <2>1. watch'.pc # "idle" => watch'.attempt # attempt'
    BY <1>0, StateFields DEF AttemptsAreFresh
  <2>2. ASSUME NEW d \in Caller, call'[d].pc = "retrying"
        PROVE  call'[d].attempt # attempt'
    BY <1>0, <2>2, StateFields DEF AttemptsAreFresh
  <2> QED
    BY <2>1, <2>2 DEF BoundsAreCurrent
<1>4. BoundIsTheEnqueues'
  <2>1. call[c].since = since /\ since = age
    BY DEF Retry, Rearmable, IndInv, BoundsAreCurrent, BoundIsTheEnqueues
  <2>2. since' = call[c].since /\ age' = age
    BY DEF Retry, history
  <2> QED
    BY <2>1, <2>2 DEF BoundIsTheEnqueues
<1>5. SuccessIsCovered'
  BY DEF Retry, SuccessIsCovered
<1> QED
  BY <1>1, <1>2, <1>3, <1>4, <1>5 DEF IndInv

(* Every age of the row's PENDING grows alike. *)
LEMMA TickInv ==
    ASSUME IndInv, TypeOK', Tick
    PROVE  IndInv'
<1>0. /\ UNCHANGED <<status, attempt, linked, lastId, starts, run, exec, covered, by>>
      /\ since' = Older(since, GiveUpAfter) /\ age' = Older(age, GiveUpAfter)
  BY DEF Tick
<1>1. /\ watch'.pc = watch.pc /\ watch'.attempt = watch.attempt
      /\ watch.pc # "idle" => watch'.age = Older(watch.age, GiveUpAfter)
  BY DEF Tick, Watching
<1>2. ASSUME NEW c \in Caller
      PROVE  /\ call'[c].pc = call[c].pc /\ call'[c].attempt = call[c].attempt
             /\ call[c].pc = "retrying"
                  => call'[c].since = Older(call[c].since, GiveUpAfter)
  BY DEF Tick, Calling
<1>3. AttemptsAreFresh'
  BY <1>0, <1>1, <1>2 DEF IndInv, AttemptsAreFresh
<1>4. ExecutionsAreCurrent'
  BY <1>0 DEF IndInv, ExecutionsAreCurrent
<1>5. BoundsAreCurrent'
  <2> SUFFICES ASSUME status = "PENDING"
               PROVE  /\ watch.pc # "idle" /\ watch.attempt = attempt
                            => watch'.age = since'
                      /\ \A c \in Caller :
                            call[c].pc = "retrying" /\ call[c].attempt = attempt
                               => call'[c].since = since'
    BY <1>0, <1>1, <1>2 DEF BoundsAreCurrent
  <2>1. watch.pc # "idle" /\ watch.attempt = attempt => watch'.age = since'
    BY <1>0, <1>1 DEF IndInv, BoundsAreCurrent
  <2>2. ASSUME NEW c \in Caller, call[c].pc = "retrying", call[c].attempt = attempt
        PROVE  call'[c].since = since'
    <3>1. call[c].since = since
      BY <2>2 DEF IndInv, BoundsAreCurrent
    <3> QED
      BY <1>0, <1>2, <2>2, <3>1
  <2> QED
    BY <2>1, <2>2
<1>6. BoundIsTheEnqueues' /\ SuccessIsCovered'
  BY <1>0 DEF IndInv, BoundIsTheEnqueues, SuccessIsCovered
<1> QED
  BY <1>3, <1>4, <1>5, <1>6 DEF IndInv

-----------------------------------------------------------------------------
LEMMA InvStep ==
    ASSUME IndInv, [Next]_vars
    PROVE  IndInv'
<1>0. TypeOK'
  BY TypeStep DEF IndInv
<1>1. ASSUME Quiet PROVE IndInv'
  BY <1>0, <1>1, QuietStep
<1>2. ASSUME NEW c \in Caller, CallerStep(c) PROVE IndInv'
  BY <1>0, <1>1, <1>2, EnqueueInv, RetryInv, CallersQuiet
<1>3. ASSUME NEW w \in Worker, WorkerStep(w) PROVE IndInv'
  BY <1>0, <1>1, <1>3, PushInv, WorkersQuiet
<1>4. CASE RunStep \/ \E a \in starts : TakeStart(a) \/ LoseStart(a)
  BY <1>1, <1>4, RunsQuiet
<1>5. CASE WatchStep
  BY <1>1, <1>5, WatchQuiet
<1>6. CASE UserStep
  BY <1>0, <1>1, <1>6, UsersQuiet, TransferInv, RelinkInv, DismissInv DEF UserStep
<1>7. CASE Tick
  BY <1>0, <1>7, TickInv
<1>8. CASE UNCHANGED vars
  <2>1. Settles
    BY <1>8, SettlingWrites DEF vars, KeepStatus
  <2>2. TypeOK /\ AttemptsAreFresh
    BY DEF IndInv
  <2>3. Quiet
    BY <1>8, <2>1, <2>2, Unmoved DEF vars, Quiet
  <2> QED
    BY <1>1, <2>3
<1> QED
  BY <1>2, <1>3, <1>4, <1>5, <1>6, <1>7, <1>8 DEF Next

LEMMA InvInit == Init => IndInv
<1> SUFFICES ASSUME Init PROVE IndInv
  OBVIOUS
<1>1. TypeOK
  BY TypeInit
<1>2. /\ \A c \in Caller : call[c].pc = "idle"
      /\ \A w \in Worker : exec[w].pc = "idle"
      /\ run.pc = "none" /\ watch.pc = "idle"
  BY DEF Init, IdleCall, Calling, IdleExec, Executing, NoRun, Running, IdleWatch, Watching
<1>3. AttemptsAreFresh
  BY <1>2 DEF Init, AttemptsAreFresh
<1>4. ExecutionsAreCurrent /\ BoundsAreCurrent
  BY <1>2 DEF Init, ExecutionsAreCurrent, BoundsAreCurrent
<1> QED
  BY <1>1, <1>3, <1>4 DEF Init, IndInv, SuccessIsCovered, BoundIsTheEnqueues

(***************************************************************************)
(* The strengthening holds of every reachable state.                       *)
(***************************************************************************)
THEOREM InvHolds == Spec => []IndInv
BY InvInit, InvStep, PTL DEF Spec

(***************************************************************************)
(* A run never writes SUCCESS on a row whose content, as of its last       *)
(* enqueue, has not reached the PM tool: the attempt fence suffices.       *)
(***************************************************************************)
THEOREM SuccessIsCoveredHolds == Spec => []SuccessIsCovered
<1>1. IndInv => SuccessIsCovered
  BY DEF IndInv
<1> QED
  BY <1>1, InvHolds, PTL

(***************************************************************************)
(* A PENDING row's give-up bound is its enqueue's age, however often the   *)
(* watchdog retried it.                                                    *)
(***************************************************************************)
THEOREM BoundIsTheEnqueuesHolds == Spec => []BoundIsTheEnqueues
<1>1. IndInv => BoundIsTheEnqueues
  BY DEF IndInv
<1> QED
  BY <1>1, InvHolds, PTL

(***************************************************************************)
(* Every step that turns a settled row PENDING counts as an enqueue.       *)
(***************************************************************************)
THEOREM OnlyEnqueuesArmHolds == Spec => OnlyEnqueuesArm
<1>1. ASSUME IndInv, [Next]_vars, status # "PENDING", status' = "PENDING"
      PROVE  enqueues' > enqueues
  <2>1. ~Quiet
    BY <1>1, RowKept DEF Quiet, IndInv
  <2>2. enqueues \in Nat
    BY <1>1, AgeAssumption DEF IndInv, TypeOK
  <2>3. ASSUME NEW c \in Caller, CallerStep(c) PROVE enqueues' > enqueues
    <3>1. ~Retry(c)
      BY <1>1 DEF Retry, Rearmable
    <3>2. Enqueue(c)
      BY <1>1, <2>1, <2>3, <3>1, CallersQuiet
    <3> QED
      BY <2>2, <3>2 DEF Enqueue
  <2>4. ASSUME NEW w \in Worker, WorkerStep(w) PROVE FALSE
    BY <1>1, <2>1, <2>4, WorkersQuiet DEF Push
  <2>5. ~RunStep /\ ~WatchStep /\ ~\E a \in starts : TakeStart(a) \/ LoseStart(a)
    BY <1>1, <2>1, RunsQuiet, WatchQuiet
  <2>6. CASE UserStep
    <3>1. TransferPending
      BY <1>1, <2>1, <2>6, UsersQuiet
         DEF UserStep, Unlink, Relink, Dismiss, TransferSettled
    <3> QED
      BY <2>2, <3>1 DEF TransferPending
  <2>7. ~Tick /\ ~UNCHANGED vars
    BY <1>1 DEF Tick, vars, row
  <2> QED
    BY <1>1, <2>3, <2>4, <2>5, <2>6, <2>7 DEF Next
<1>2. IndInv /\ [Next]_vars
        => [status # "PENDING" /\ status' = "PENDING" => enqueues' > enqueues]_vars
  BY <1>1
<1> QED
  BY <1>2, InvHolds, PTL DEF Spec, OnlyEnqueuesArm
=============================================================================
