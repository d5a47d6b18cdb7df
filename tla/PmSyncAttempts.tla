---------------------------- MODULE PmSyncAttempts --------------------------
(***************************************************************************)
(* The PM-sync status of one Fabric row (a story or bug), and everybody    *)
(* who writes it: callers that enqueue a sync, the row's one workflow      *)
(* (pmSyncSingleStoryWorkflow), the executions of its sync activity, the   *)
(* stuck-sync watchdog, and users.                                         *)
(*                                                                         *)
(* An enqueue stamps the row PENDING under a fresh attempt id, then asks   *)
(* Temporal to start the workflow; one workflow id per row, so a start     *)
(* that finds it running attaches to that run.  The start request and its  *)
(* answer can be lost or late, any process can die, and an activity that   *)
(* Temporal timed out keeps running beside its retry.                      *)
(*                                                                         *)
(* Times are ages, counted up to the largest the watchdog tells apart.     *)
(***************************************************************************)
EXTENDS Naturals

CONSTANTS
    Caller,        \* enqueues in progress (a request, an activity, a retry)
    Worker,        \* executions of the sync activity
    RetryAfter,    \* RETRY_AFTER_MINUTES
    GiveUpAfter,   \* GIVE_UP_AFTER_MINUTES
    MaxEnqueues    \* bound: enqueues and merge transfers onto the row

ASSUME AgeAssumption ==
    /\ RetryAfter \in Nat
    /\ GiveUpAfter \in Nat
    /\ MaxEnqueues \in Nat

VARIABLES
    status,    \* lastPmSyncStatus ("NONE" is null)
    attempt,   \* lastPmSyncAttemptId (0 is null)
    since,     \* the age of pmSyncPendingSince
    tried,     \* the age of lastPmSyncAttemptAt, as the last stamp set it
    linked,    \* externalId is set
    lastId,    \* the attempt ids given out so far are 1 .. lastId
    call,      \* each caller's control point, attempt, and the bound it keeps
    starts,    \* attempts whose start request is on its way to Temporal
    run,       \* the run under the row's workflow id
    exec,      \* each worker's activity execution
    watch,     \* the watchdog's row in this tick
    enqueues,  \* how often the row was enqueued or transferred onto
    age,       \* history: the age of the last of these
    covered,   \* history: its content reached the PM tool
    by         \* history: who wrote a status that is not PENDING

row     == <<status, attempt, since, tried, linked>>
history == <<enqueues, age, covered, by>>
vars    == <<row, lastId, call, starts, run, exec, watch, history>>

Status == {"NONE", "PENDING", "SUCCESS", "CONFLICT", "FAILED"}

(* Ages are counted up to the first one past the limit they are held against. *)
Age   == 0 .. GiveUpAfter + 1
Tried == 0 .. RetryAfter + 1
Older(a, limit) == IF a <= limit THEN a + 1 ELSE a

CallPC  == {"idle", "retrying", "stamped", "starting", "describing", "compensating"}
RunPC   == {"none", "queued", "awaiting", "recording", "clearing", "closing"}
ExecPC  == {"idle", "syncing", "pushed"}
WatchPC == {"idle", "seen", "probed"}
Answer  == {"running", "closed", "unknown"}

CallState  == [pc : CallPC, attempt : Nat, since : Age]
RunState   == [pc : RunPC, attempt : Nat, orphan : BOOLEAN]
ExecState  == [pc : ExecPC, attempt : Nat, create : BOOLEAN, latest : BOOLEAN]
WatchState == [pc : WatchPC, attempt : Nat, age : Age, answer : Answer]

Calling(pc, a, s)      == [pc |-> pc, attempt |-> a, since |-> s]
Running(pc, a, o)      == [pc |-> pc, attempt |-> a, orphan |-> o]
Executing(pc, a, n, l) == [pc |-> pc, attempt |-> a, create |-> n, latest |-> l]
Watching(pc, a, g, r)  == [pc |-> pc, attempt |-> a, age |-> g, answer |-> r]

IdleCall  == Calling("idle", 0, 0)
NoRun     == Running("none", 0, FALSE)
IdleExec  == Executing("idle", 0, FALSE, FALSE)
IdleWatch == Watching("idle", 0, 0, "unknown")

TypeOK ==
    /\ status \in Status
    /\ attempt \in Nat
    /\ since \in Age
    /\ tried \in Tried
    /\ linked \in BOOLEAN
    /\ lastId \in Nat
    /\ call \in [Caller -> CallState]
    /\ starts \in SUBSET Nat
    /\ run \in RunState
    /\ exec \in [Worker -> ExecState]
    /\ watch \in WatchState
    /\ enqueues \in 0 .. MaxEnqueues
    /\ age \in Age
    /\ covered \in BOOLEAN
    /\ by \in {"run", "other"}
    /\ status = "PENDING" => attempt # 0

Init ==
    /\ status = "NONE" /\ attempt = 0 /\ since = 0 /\ tried = 0
    /\ linked \in BOOLEAN
    /\ lastId = 0
    /\ call = [c \in Caller |-> IdleCall]
    /\ starts = {}
    /\ run = NoRun
    /\ exec = [w \in Worker |-> IdleExec]
    /\ watch = IdleWatch
    /\ enqueues = 0 /\ age = 0 /\ covered = FALSE /\ by = "other"

-----------------------------------------------------------------------------
(* Writing the row's status. *)

WriteStatus(s, who) ==
    /\ status' = s
    /\ by' = who
    /\ UNCHANGED <<attempt, since, tried, linked, enqueues, age, covered>>

KeepStatus == UNCHANGED <<row, history>>

(* Mutant: by id, whichever attempt the row names. *)
WriteById(a, s, who) == WriteStatus(s, who)

(* writePmSyncStatusForAttempt: while the row names the attempt. *)
WriteForAttempt(a, s, who) ==
    IF attempt = a THEN WriteStatus(s, who) ELSE KeepStatus

(* Compensation, give-up, the leaked-PENDING clear: while it is PENDING for it. *)
WriteIfPendingFor(a, s) ==
    IF status = "PENDING" /\ attempt = a THEN WriteStatus(s, "other") ELSE KeepStatus

(* The row's content is new to every execution under way, and to the PM tool. *)
NewContent ==
    /\ covered' = FALSE
    /\ exec' = [w \in Worker |-> Executing(exec[w].pc, exec[w].attempt,
                                           exec[w].create, FALSE)]

-----------------------------------------------------------------------------
(* Callers: enqueuePmSyncCore, enqueuePmSyncFromActivity. *)

Enqueue(c) ==
    /\ call[c].pc = "idle"
    /\ enqueues < MaxEnqueues
    /\ lastId' = lastId + 1
    /\ status' = "PENDING" /\ attempt' = lastId + 1 /\ since' = 0 /\ tried' = 0
    /\ call' = [call EXCEPT ![c] = Calling("stamped", lastId + 1, 0)]
    /\ enqueues' = enqueues + 1 /\ age' = 0
    /\ NewContent
    /\ UNCHANGED <<linked, starts, run, watch, by>>

(* No usable PM config: FAILED unless PENDING, and no attempt is made. *)
NoConfig ==
    /\ status # "PENDING"
    /\ WriteStatus("FAILED", "other")
    /\ UNCHANGED <<lastId, call, starts, run, exec, watch>>

MoveCall(c, pc) ==
    call' = [call EXCEPT ![c] = Calling(pc, call[c].attempt, call[c].since)]

EndCall(c) == call' = [call EXCEPT ![c] = IdleCall]

ClientFails(c) ==
    /\ call[c].pc = "stamped"
    /\ MoveCall(c, "compensating")
    /\ UNCHANGED <<row, lastId, starts, run, exec, watch, history>>

SendStart(c) ==
    /\ call[c].pc = "stamped"
    /\ starts' = starts \cup {call[c].attempt}
    /\ MoveCall(c, "starting")
    /\ UNCHANGED <<row, lastId, run, exec, watch, history>>

StartAnswered(c) ==
    /\ call[c].pc = "starting"
    /\ call[c].attempt \notin starts
    /\ EndCall(c)
    /\ UNCHANGED <<row, lastId, starts, run, exec, watch, history>>

StartThrows(c) ==
    /\ call[c].pc = "starting"
    /\ MoveCall(c, "describing")
    /\ UNCHANGED <<row, lastId, starts, run, exec, watch, history>>

(* What describing the workflow id can answer; closed stands for not-found too. *)
Described == {"unknown", IF run.pc = "none" THEN "closed" ELSE "running"}

Describe(c) ==
    /\ call[c].pc = "describing"
    /\ \E answer \in Described :
           IF answer = "closed" THEN MoveCall(c, "compensating") ELSE EndCall(c)
    /\ UNCHANGED <<row, lastId, starts, run, exec, watch, history>>

Compensate(c) ==
    /\ call[c].pc = "compensating"
    /\ \/ WriteIfPendingFor(call[c].attempt, "FAILED")
       \/ KeepStatus                                   \* the write failed
    /\ EndCall(c)
    /\ UNCHANGED <<lastId, starts, run, exec, watch>>

CallerDies(c) ==
    /\ call[c].pc # "idle"
    /\ EndCall(c)
    /\ UNCHANGED <<row, lastId, starts, run, exec, watch, history>>

-----------------------------------------------------------------------------
(* Temporal: one open run under the row's workflow id. *)

(* USE_EXISTING attaches to an open run, ALLOW_DUPLICATE starts a new one. *)
TakeStart(a) ==
    /\ a \in starts
    /\ starts' = starts \ {a}
    /\ run' = IF run.pc = "none"
              THEN Running("queued", a, FALSE)
              ELSE run
    /\ UNCHANGED <<row, lastId, call, exec, watch, history>>

LoseStart(a) ==
    /\ a \in starts
    /\ starts' = starts \ {a}
    /\ UNCHANGED <<row, lastId, call, run, exec, watch, history>>

(* The run is terminated: its clear never runs. *)
Terminate ==
    /\ run.pc # "none"
    /\ run' = NoRun
    /\ UNCHANGED <<row, lastId, call, starts, exec, watch, history>>

-----------------------------------------------------------------------------
(* The sync activity, syncWorkItemToPM.  An execution reads the row, pushes *)
(* or creates, and stamps.                                                  *)

MoveRun(pc) == run' = Running(pc, run.attempt, run.orphan)

StartSync(w) ==
    /\ run.pc = "queued"
    /\ exec[w].pc = "idle"
    /\ exec' = [exec EXCEPT ![w] = Executing("syncing", run.attempt, ~linked, TRUE)]
    /\ MoveRun("awaiting")
    /\ UNCHANGED <<row, lastId, call, starts, watch, history>>

(* Temporal times the execution out: it retries, or gives the run an error. *)
(* The worker does not know.                                                *)
SyncTimesOut ==
    /\ run.pc = "awaiting"
    /\ MoveRun("queued") \/ MoveRun("recording")
    /\ UNCHANGED <<row, lastId, call, starts, exec, watch, history>>

(* What the execution reports reaches the run only if it still waits for it. *)
Report(w, pc, orphan) ==
    /\ exec' = [exec EXCEPT ![w] = IdleExec]
    /\ \/ /\ run.pc = "awaiting"
          /\ run.attempt = exec[w].attempt
          /\ run' = Running(pc, run.attempt, orphan)
       \/ UNCHANGED run

(* The update lands at the PM tool; or the create did, and its link write. *)
Push(w) ==
    /\ exec[w].pc = "syncing"
    /\ exec[w].create => ~linked
    /\ exec' = [exec EXCEPT ![w] = Executing("pushed", exec[w].attempt,
                                             exec[w].create, exec[w].latest)]
    /\ covered' = (covered \/ exec[w].latest)
    /\ linked' = (linked \/ exec[w].create)
    /\ UNCHANGED <<status, attempt, since, tried, lastId, call, starts, run,
                   watch, enqueues, age, by>>

StampSuccess(w) ==
    /\ exec[w].pc = "pushed"
    /\ WriteForAttempt(exec[w].attempt, "SUCCESS", "run")
    /\ Report(w, "clearing", FALSE)
    /\ UNCHANGED <<lastId, call, starts, watch>>

StampConflict(w) ==
    /\ exec[w].pc = "syncing"
    /\ ~exec[w].create
    /\ WriteForAttempt(exec[w].attempt, "CONFLICT", "run")
    /\ Report(w, "clearing", FALSE)
    /\ UNCHANGED <<lastId, call, starts, watch>>

(* Linked meanwhile: nothing is sent, nothing is written. *)
SkipLinked(w) ==
    /\ exec[w].pc = "syncing"
    /\ exec[w].create /\ linked
    /\ KeepStatus
    /\ Report(w, "clearing", FALSE)
    /\ UNCHANGED <<lastId, call, starts, watch>>

(* create_orphan: FAILED by id, whoever the row is PENDING for, best effort; *)
(* after a link write that committed but lost its answer, too.               *)
RecordOrphan(w) ==
    /\ exec[w].pc # "idle"
    /\ exec[w].create
    /\ WriteStatus("FAILED", "other") \/ KeepStatus
    /\ Report(w, "clearing", TRUE)
    /\ UNCHANGED <<lastId, call, starts, watch>>

(* create_unconfirmed: the same while the row is unlinked (and claimed, see *)
(* PmCreateClaim); it does not widen the clear.                             *)
RecordUnconfirmed(w) ==
    /\ exec[w].pc = "syncing"
    /\ exec[w].create
    /\ \/ ~linked /\ WriteStatus("FAILED", "other")
       \/ KeepStatus
    /\ Report(w, "clearing", FALSE)
    /\ UNCHANGED <<lastId, call, starts, watch>>

(* Temporal retries the activity, or the run records the error. *)
SyncThrows(w) ==
    /\ exec[w].pc # "idle"
    /\ Report(w, "queued", FALSE) \/ Report(w, "recording", FALSE)
    /\ UNCHANGED <<row, lastId, call, starts, watch, history>>

(* The run's catch and finally. *)
RecordFailure ==
    /\ run.pc = "recording"
    /\ WriteForAttempt(run.attempt, "FAILED", "run") \/ KeepStatus
    /\ MoveRun("clearing")
    /\ UNCHANGED <<lastId, call, starts, exec, watch>>

(* clearPmSyncPendingIfLeaked: its own PENDING, or any after an orphan. *)
ClearLeaked ==
    /\ run.pc = "clearing"
    /\ \/ WriteIfPendingFor(IF run.orphan THEN attempt ELSE run.attempt, "NONE")
       \/ KeepStatus                                   \* the write failed
    /\ MoveRun("closing")
    /\ UNCHANGED <<lastId, call, starts, exec, watch>>

CloseRun ==
    /\ run.pc = "closing"
    /\ run' = NoRun
    /\ UNCHANGED <<row, lastId, call, starts, exec, watch, history>>

-----------------------------------------------------------------------------
(* The stuck-sync watchdog, on this row. *)

Overdue == watch.age >= GiveUpAfter

Scan ==
    /\ watch.pc = "idle"
    /\ status = "PENDING"
    /\ tried > RetryAfter \/ since > GiveUpAfter
    /\ watch' = Watching("seen", attempt, since, "unknown")
    /\ UNCHANGED <<row, lastId, call, starts, run, exec, history>>

(* Mutant: a row whose workflow runs is never given up. *)
GiveUpIfClosed ==
    /\ watch.pc = "probed"
    /\ watch.answer = "closed"
    /\ Overdue
    /\ WriteIfPendingFor(watch.attempt, "FAILED")
    /\ watch' = IdleWatch
    /\ UNCHANGED <<lastId, call, starts, run, exec>>

GiveUp ==
    /\ watch.pc # "idle"
    /\ Overdue
    /\ WriteIfPendingFor(watch.attempt, "FAILED")
    /\ watch' = IdleWatch
    /\ UNCHANGED <<lastId, call, starts, run, exec>>

Probe ==
    /\ watch.pc = "seen"
    /\ ~Overdue
    /\ \E answer \in Described :
           watch' = Watching("probed", watch.attempt, watch.age, answer)
    /\ UNCHANGED <<row, lastId, call, starts, run, exec, history>>

SkipLive ==
    /\ watch.pc = "probed"
    /\ ~Overdue
    /\ watch.answer # "closed"
    /\ watch' = IdleWatch
    /\ UNCHANGED <<row, lastId, call, starts, run, exec, history>>

(* Its workflow is closed: the row is enqueued again.  The enqueue runs in an *)
(* activity of its own, late perhaps, and whatever became of the tick.        *)
DispatchRetry(c) ==
    /\ watch.pc = "probed"
    /\ ~Overdue
    /\ watch.answer = "closed"
    /\ call[c].pc = "idle"
    /\ call' = [call EXCEPT ![c] = Calling("retrying", watch.attempt, watch.age)]
    /\ watch' = IdleWatch
    /\ UNCHANGED <<row, lastId, starts, run, exec, history>>

(* Mutant: any row that still names the attempt is re-armed. *)
RearmableIfSettled(c) == attempt = call[c].attempt

(* The retry's stamp keeps the bound the scan saw; a row that moved on since *)
(* is not re-armed.                                                          *)
Rearmable(c) == status = "PENDING" /\ attempt = call[c].attempt

(* Mutant: the retry's stamp starts the bound afresh. *)
RetryRestartingBound(c) ==
    /\ call[c].pc = "retrying"
    /\ Rearmable(c)
    /\ lastId' = lastId + 1
    /\ status' = "PENDING"
    /\ attempt' = lastId + 1 /\ since' = 0 /\ tried' = 0
    /\ call' = [call EXCEPT ![c] = Calling("stamped", lastId + 1, 0)]
    /\ UNCHANGED <<linked, starts, run, exec, watch, history>>

Retry(c) ==
    /\ call[c].pc = "retrying"
    /\ Rearmable(c)
    /\ lastId' = lastId + 1
    /\ status' = "PENDING"
    /\ attempt' = lastId + 1 /\ since' = call[c].since /\ tried' = 0
    /\ call' = [call EXCEPT ![c] = Calling("stamped", lastId + 1, 0)]
    /\ UNCHANGED <<linked, starts, run, exec, watch, history>>

RetrySuperseded(c) ==
    /\ call[c].pc = "retrying"
    /\ ~Rearmable(c)
    /\ EndCall(c)
    /\ UNCHANGED <<row, lastId, starts, run, exec, watch, history>>

(* The tick's budget runs out, an activity fails, or the row has no config. *)
Defer ==
    /\ watch.pc # "idle"
    /\ watch' = IdleWatch
    /\ UNCHANGED <<row, lastId, call, starts, run, exec, history>>

-----------------------------------------------------------------------------
(* Users, merges, and runs that carry no attempt id. *)

Others == <<lastId, call, starts, run, watch>>

(* applyPmUnlink: the link and everything known about its syncs. *)
Unlink ==
    /\ linked
    /\ linked' = FALSE
    /\ status' = "NONE" /\ attempt' = 0 /\ since' = 0 /\ tried' = 0
    /\ by' = "other"
    /\ NewContent
    /\ UNCHANGED <<Others, enqueues, age>>

(* applyPmLink: not while PENDING; the attempt id stays. *)
Relink ==
    /\ ~linked
    /\ status # "PENDING"
    /\ linked' = TRUE
    /\ status' = "NONE"
    /\ by' = "other"
    /\ NewContent
    /\ UNCHANGED <<Others, attempt, since, tried, enqueues, age>>

(* clearPmSyncFailure *)
Dismiss ==
    /\ status = "FAILED"
    /\ status' = "NONE" /\ attempt' = 0 /\ since' = 0
    /\ by' = "other"
    /\ UNCHANGED <<Others, tried, linked, exec, enqueues, age, covered>>

(* clearPmSyncConflictFlag *)
ResolveConflict ==
    /\ status = "CONFLICT"
    /\ WriteStatus("SUCCESS", "other")
    /\ UNCHANGED <<Others, exec>>

(* Mutant: the moved PENDING goes on under the row's own attempt id. *)
TransferKeepingAttempt ==
    /\ ~linked
    /\ enqueues < MaxEnqueues
    /\ linked' = TRUE
    /\ status' = "PENDING"
    /\ \E old \in Age, last \in Tried :
           last <= old /\ since' = old /\ tried' = last /\ age' = old
    /\ enqueues' = enqueues + 1
    /\ NewContent
    /\ UNCHANGED <<Others, attempt, by>>

(* A merge moves a duplicate's link and status here; its PENDING gets a      *)
(* fresh attempt id and keeps its age.  No sync is started.                  *)
TransferPending ==
    /\ ~linked
    /\ enqueues < MaxEnqueues
    /\ lastId' = lastId + 1
    /\ linked' = TRUE
    /\ status' = "PENDING" /\ attempt' = lastId + 1
    /\ \E old \in Age, last \in Tried :
           last <= old /\ since' = old /\ tried' = last /\ age' = old
    /\ enqueues' = enqueues + 1
    /\ NewContent
    /\ UNCHANGED <<call, starts, run, watch, by>>

TransferSettled ==
    /\ ~linked
    /\ linked' = TRUE
    /\ \E s \in Status \ {"PENDING"} : status' = s
    /\ attempt' = 0 /\ since' = 0
    /\ by' = "other"
    /\ NewContent
    /\ UNCHANGED <<Others, tried, enqueues, age>>

(* writePmSyncStatusUnattempted *)
UnattemptedStatus ==
    /\ ~(status = "PENDING" /\ attempt # 0)
    /\ \E s \in {"SUCCESS", "CONFLICT", "FAILED"} : WriteStatus(s, "other")
    /\ UNCHANGED <<Others, exec>>

(* Its orphaned or unconfirmed create: by id. *)
UnattemptedOrphan ==
    /\ ~linked
    /\ WriteStatus("FAILED", "other")
    /\ UNCHANGED <<Others, exec>>

Tick ==
    /\ since' = Older(since, GiveUpAfter)
    /\ tried' = Older(tried, RetryAfter)
    /\ age' = Older(age, GiveUpAfter)
    /\ watch' = IF watch.pc = "idle" THEN watch
                ELSE Watching(watch.pc, watch.attempt,
                              Older(watch.age, GiveUpAfter), watch.answer)
    /\ call' = [c \in Caller |-> IF call[c].pc = "retrying"
                                 THEN Calling("retrying", call[c].attempt,
                                              Older(call[c].since, GiveUpAfter))
                                 ELSE call[c]]
    /\ UNCHANGED <<status, attempt, linked, lastId, starts, run, exec, enqueues,
                   covered, by>>

-----------------------------------------------------------------------------
CallerStep(c) ==
    \/ Enqueue(c) \/ ClientFails(c) \/ SendStart(c) \/ StartAnswered(c)
    \/ StartThrows(c) \/ Describe(c) \/ Compensate(c) \/ CallerDies(c)
    \/ DispatchRetry(c) \/ Retry(c) \/ RetrySuperseded(c)

WorkerStep(w) ==
    \/ StartSync(w) \/ Push(w) \/ StampSuccess(w) \/ StampConflict(w)
    \/ SkipLinked(w) \/ RecordOrphan(w) \/ RecordUnconfirmed(w) \/ SyncThrows(w)

RunStep == SyncTimesOut \/ RecordFailure \/ ClearLeaked \/ CloseRun \/ Terminate

WatchStep == Scan \/ GiveUp \/ Probe \/ SkipLive \/ Defer

UserStep ==
    \/ NoConfig \/ Unlink \/ Relink \/ Dismiss \/ ResolveConflict
    \/ TransferPending \/ TransferSettled \/ UnattemptedStatus \/ UnattemptedOrphan

Next ==
    \/ \E c \in Caller : CallerStep(c)
    \/ \E a \in starts : TakeStart(a) \/ LoseStart(a)
    \/ \E w \in Worker : WorkerStep(w)
    \/ RunStep \/ WatchStep \/ UserStep \/ Tick

Spec == Init /\ [][Next]_vars

-----------------------------------------------------------------------------
(* Properties. *)

(***************************************************************************)
(* A SUCCESS that a run wrote tells the truth: content at least as new as  *)
(* the last enqueue has reached the PM tool, however many older runs,      *)
(* timed-out executions and retries finish late (pm-sync-attempt-fence).   *)
(***************************************************************************)
SuccessIsCovered == status = "SUCCESS" /\ by = "run" => covered

(***************************************************************************)
(* The give-up bound of a PENDING row is the age of the enqueue (or merged *)
(* enqueue) a user is waiting for: the watchdog's own retries neither      *)
(* postpone it nor carry an older one over to a newer enqueue.             *)
(***************************************************************************)
BoundIsTheEnqueues == status = "PENDING" => since = age

(***************************************************************************)
(* Only an enqueue or a merge makes a settled row PENDING: a watchdog that *)
(* acts on a stale scan never re-arms a row that a run settled meanwhile.  *)
(***************************************************************************)
OnlyEnqueuesArm ==
    [][status # "PENDING" /\ status' = "PENDING" => enqueues' > enqueues]_vars

(***************************************************************************)
(* The inductive invariant behind SuccessIsCovered and BoundIsTheEnqueues  *)
(* (PmSyncAttemptsProofs).                                                 *)
(***************************************************************************)

(* Attempt ids are given out once, and every attempt under way has one. *)
AttemptsAreFresh ==
    /\ attempt <= lastId
    /\ \A a \in starts : a \in 1 .. lastId
    /\ run.pc # "none" => run.attempt \in 1 .. lastId
    /\ \A w \in Worker : exec[w].pc # "idle" => exec[w].attempt \in 1 .. lastId
    /\ \A c \in Caller :
          /\ call[c].pc \notin {"idle", "retrying"} => call[c].attempt \in 1 .. lastId
          /\ call[c].pc = "retrying" => call[c].attempt <= lastId
    /\ watch.pc # "idle" => watch.attempt <= lastId

(* While the row names an execution's attempt, nobody replaced the content *)
(* it read or the link it found or made.                                   *)
ExecutionsAreCurrent ==
    \A w \in Worker :
        exec[w].pc # "idle" /\ exec[w].attempt = attempt =>
            /\ exec[w].pc = "pushed" \/ ~exec[w].create => linked
            /\ exec[w].pc = "pushed" => covered
            /\ \/ exec[w].create /\ linked
               \/ exec[w].pc = "pushed"
               \/ exec[w].latest

(* While the row is PENDING for the attempt the watchdog saw, the watchdog *)
(* knows its bound.                                                        *)
BoundsAreCurrent ==
    status = "PENDING" =>
        /\ watch.pc # "idle" /\ watch.attempt = attempt => watch.age = since
        /\ \A c \in Caller : call[c].pc = "retrying" /\ call[c].attempt = attempt
                               => call[c].since = since

IndInv ==
    /\ TypeOK
    /\ AttemptsAreFresh
    /\ ExecutionsAreCurrent
    /\ BoundsAreCurrent
    /\ SuccessIsCovered
    /\ BoundIsTheEnqueues

-----------------------------------------------------------------------------
(***************************************************************************)
(* Liveness.  Only time and the watchdog are scheduled: no caller, worker, *)
(* run or user need ever take a step.  The watchdog's ticks come by        *)
(* schedule and list overdue rows first, so a give-up that is possible     *)
(* again and again is not deferred each time.                              *)
(***************************************************************************)
FairSpec ==
    /\ Spec
    /\ WF_vars(Tick)
    /\ WF_vars(Scan)
    /\ WF_vars(WatchStep)
    /\ SF_vars(GiveUp)

(***************************************************************************)
(* No row shows "Syncing" forever: a PENDING row is settled although the   *)
(* workers are down and every start was lost.                              *)
(***************************************************************************)
PendingIsSettled == status = "PENDING" ~> status # "PENDING"
=============================================================================
