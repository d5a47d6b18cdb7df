------------------------- MODULE InstructionSync -------------------------
(***************************************************************************)
(* The automatic sync of one project's instructions from its repository.   *)
(* One row holds the configuration and the schedule; a poll claims it when *)
(* it is due, and the lease of that claim is the very value the claim wrote*)
(* into nextCheckAt.  Checks of the poll, push webhooks, sync runs and     *)
(* members write the row side by side:                                     *)
(*                                                                         *)
(*   queries/instruction-repository-sync.ts   the row's writers            *)
(*   project-instruction-repository-poll.ts   a check, from claim to write *)
(*   push-trigger.ts                          the webhook                  *)
(*   project-instruction-repository-sync.ts   begin, acquire and record    *)
(*                                                                         *)
(* nextCheckAt is modelled by where it lies against the database's clock:  *)
(* passed (Due), about a tick ahead (Soon), a schedule ahead (Later), or a *)
(* lease of the check that holds it; time may make any of them Due.        *)
(***************************************************************************)
EXTENDS Naturals, FiniteSets

CONSTANTS
    Check,          \* executions of the poll's check
    Delivery,       \* deliveries of the push webhook
    Delegate,       \* members a sync can act as
    MaxRun,         \* bound on the sync runs started
    MaxGeneration,  \* bound on the configurations of the row
    MaxHead,        \* bound on the commits pushed to the branch
    None

ASSUME BoundsAssumption ==
    /\ MaxRun \in Nat \ {0}
    /\ MaxGeneration \in Nat \ {0}
    /\ MaxHead \in Nat \ {0}
    /\ Delegate # {}
    /\ Check \cap Delivery = {}
    /\ Check \cap {None, "due", "soon", "later"} = {}
    /\ None \notin {"due", "soon", "later", "REF_MISSING", "PERMISSION_REVOKED"}
    /\ None \notin 0 .. MaxHead

VARIABLES
    row,     \* the sync row
    head,    \* the newest commit of the branch
    asker,   \* what each check and each delivery is doing
    run,     \* the sync runs and their receipts, in the order of their start
    last,    \* the run started last
    taken,   \* newest commit read under the current configuration, or failed to
             \* be read; None while a commit handed over waits for that
    stolen   \* a request was consumed for another run than the open one

vars == <<row, head, asker, run, last, taken, stolen>>

Asker == Check \cup Delivery
Runs == 1..MaxRun
Commit == 0..MaxHead              \* 0: no commit
Generation == 0..MaxGeneration    \* 0: no configuration named
Pause == {None, "REF_MISSING", "PERMISSION_REVOKED"}
Trigger == {"AUTOMATIC", "MANUAL", "COMMIT_PUSHED"}
Effect == {"none", "success", "suppress", "backoff", "later", "soon",
           "REF_MISSING", "PERMISSION_REVOKED"}

Stage == {"idle", "claimed", "permitted", "decided", "starting", "marking", "settling",
          "writing"}
Phase == {"none", "queued", "loaded", "begun", "recording", "completed", "closed"}

-----------------------------------------------------------------------------
(* The row.  The cursors are kept for the current generation only: a cursor *)
(* of another generation never matches.                                     *)

Row == [exists : BOOLEAN, generation : 1..MaxGeneration, delegate : Delegate,
        automatic : BOOLEAN, pause : Pause, next : Check \cup {None, "due", "soon", "later"},
        evaluated : Commit, suppressed : Commit, pending : BOOLEAN]

AskerState == [at : Stage, row : Row, head : Commit, run : 0..MaxRun, write : Effect]

RunState == [at : Phase, trigger : Trigger, expected : Generation, row : Row,
             generation : Generation, saw : Commit, effect : Effect,
             receipt : {"absent", "open", "finished"}]

Configured(r, u, on) ==
    [r EXCEPT !.delegate = u, !.automatic = on, !.pause = None, !.next = "due"]

Evaluate(r) ==
    [r EXCEPT !.generation = @ + 1, !.evaluated = 0, !.suppressed = 0,
              !.pending = FALSE, !.next = "due"]

Blank == [exists |-> TRUE, generation |-> 1, delegate |-> CHOOSE u \in Delegate : TRUE,
          automatic |-> TRUE, pause |-> None, next |-> "due",
          evaluated |-> 0, suppressed |-> 0, pending |-> FALSE]

\* What a claim or a lookup returns of the row, and what begin keeps of it.
Seen(r) == [r EXCEPT !.next = "due", !.pending = FALSE]
Flags(r) == [Blank EXCEPT !.generation = r.generation, !.automatic = r.automatic,
                          !.pause = r.pause]

\* What one scheduling effect writes; commit is the head it is about.
Patched(r, effect, commit) ==
    CASE effect = "none"     -> r
      [] effect = "success"  -> [r EXCEPT !.next = "later",
                                          !.evaluated = IF commit = 0 THEN @ ELSE commit]
      [] effect = "suppress" -> [r EXCEPT !.next = "later", !.suppressed = commit]
      [] effect = "backoff"  -> [r EXCEPT !.next = "later"]
      [] effect \in {"later", "soon"} -> [r EXCEPT !.next = effect]
      [] OTHER               -> [r EXCEPT !.next = None, !.pause = effect]

\* Whether a head is news under the configuration r was read with.
ShouldStart(r, sha) ==
    r.automatic /\ r.pause = None /\ sha \notin {r.evaluated, r.suppressed}

(* Mutant: the fence without the lease's own value. *)
HoldsConfiguration(c) ==
    /\ row.exists
    /\ row.generation = asker[c].row.generation
    /\ row.automatic
    /\ row.pause = None

\* The lease of c: the fence of every write a check makes, and of its reads.
Holds(c) ==
    /\ row.exists
    /\ row.generation = asker[c].row.generation
    /\ row.next = c
    /\ row.automatic
    /\ row.pause = None

\* Whether consuming the request for run n takes it from another open run.
Steals(n) ==
    row.pending /\ \E m \in Runs \ {n} : run[m].at \notin {"none", "completed", "closed"}

\* A finishing run folds the row's re-check request into its own patch r.
WithPendingHead(r) ==
    IF r.pending
    THEN [r EXCEPT !.next = IF r.pause = None THEN "due" ELSE None, !.pending = FALSE]
    ELSE r

-----------------------------------------------------------------------------
Idle == [at |-> "idle", row |-> Blank, head |-> 0, run |-> 0, write |-> "none"]

NoRun == [at |-> "none", trigger |-> "MANUAL", expected |-> 0, row |-> Blank,
          generation |-> 0, saw |-> 0, effect |-> "none", receipt |-> "absent"]

Init ==
    /\ row = Blank
    /\ head = 1
    /\ asker = [a \in Asker |-> Idle]
    /\ run = [n \in Runs |-> NoRun]
    /\ last = 0
    /\ taken = None
    /\ stolen = FALSE

Goto(a, at) == asker' = [asker EXCEPT ![a].at = at]
Leave(a) == asker' = [asker EXCEPT ![a] = Idle]

\* A commit handed over waits to be read, unless it or a later one was.
Handed(sha) == IF taken = None \/ sha > taken THEN None ELSE taken

\* Someone of this generation has read the branch, or failed to.
Attempted(generation) ==
    IF row.exists /\ generation = row.generation
    THEN taken' = head /\ stolen' = FALSE
    ELSE UNCHANGED <<taken, stolen>>

Open(n) == n # 0 /\ run[n].at \notin {"none", "closed"}

\* Temporal registers one open run per project.
Register(trigger, expected) ==
    /\ last < MaxRun
    /\ ~Open(last)
    /\ last' = last + 1
    /\ run' = [run EXCEPT ![last + 1] =
                 [NoRun EXCEPT !.at = "queued", !.trigger = trigger, !.expected = expected]]

-----------------------------------------------------------------------------
(* A check of the poll.                                                     *)

Claim(c) ==
    /\ asker[c].at = "idle"
    /\ row.exists /\ row.automatic /\ row.pause = None /\ row.next = "due"
    /\ row' = [row EXCEPT !.next = c]
    /\ asker' = [asker EXCEPT ![c] =
                   [Idle EXCEPT !.at = "claimed", !.row = Seen(row)]]
    /\ UNCHANGED <<head, run, last, taken, stolen>>

\* What the check is to write in the end.
Write(c, effect, sha) ==
    asker' = [asker EXCEPT ![c].at = "writing", ![c].write = effect, ![c].head = sha]

\* The first lease read, then the delegate's permission.
ReadLease(c) ==
    /\ asker[c].at = "claimed"
    /\ \/ ~Holds(c) /\ Leave(c)
       \/ Holds(c) /\ Goto(c, "permitted")
       \/ Holds(c) /\ Write(c, "PERMISSION_REVOKED", 0)
    /\ UNCHANGED <<row, head, run, last, taken, stolen>>

\* ls-remote answers the head, no such branch, or nothing.
RemoteHead(c) ==
    LET r == asker[c].row
    IN  /\ asker[c].at = "permitted"
        /\ \/ Write(c, "REF_MISSING", 0) /\ UNCHANGED <<taken, stolen>>
           \/ Write(c, "backoff", 0) /\ Attempted(r.generation)
           \/ /\ UNCHANGED <<taken, stolen>>
              /\ \/ head = r.evaluated /\ Write(c, "success", head)
                 \/ head # r.evaluated /\ head = r.suppressed /\ Write(c, "suppress", head)
                 \/ /\ head \notin {r.evaluated, r.suppressed}
                    /\ asker' = [asker EXCEPT ![c].at = "decided", ![c].head = head]
        /\ UNCHANGED <<row, head, run, last>>

ReadLeaseAgain(c) ==
    /\ asker[c].at = "decided"
    /\ IF Holds(c) THEN Goto(c, "starting") ELSE Leave(c)
    /\ UNCHANGED <<row, head, run, last, taken, stolen>>

\* A write that applies only under the lease; the reschedule after a start
\* leaves the head it saw to the run.
FencedWrite(c) ==
    LET a == asker[c]
    IN  /\ a.at = "writing"
        /\ row' = IF Holds(c) THEN Patched(row, a.write, a.head) ELSE row
        /\ taken' = IF Holds(c) /\ a.write \in {"later", "soon"}
                    THEN Handed(a.head) ELSE taken
        /\ Leave(c)
        /\ UNCHANGED <<head, run, last, stolen>>

-----------------------------------------------------------------------------
(* A delivery of the push webhook: any commit pushed so far, in any order.  *)

Deliver(d) ==
    /\ asker[d].at = "idle"
    /\ row.exists
    /\ \E sha \in 1..head :
          /\ ShouldStart(row, sha)
          /\ asker' = [asker EXCEPT ![d] =
                         [Idle EXCEPT !.at = "starting", !.row = Flags(row), !.head = sha]]
    /\ UNCHANGED <<row, head, run, last, taken, stolen>>

\* A delivery that ended well has asked for its commit.
Asked(a) ==
    IF a \in Delivery /\ row.exists /\ row.generation = asker[a].row.generation
    THEN Handed(asker[a].head) ELSE taken

-----------------------------------------------------------------------------
(* What checks and deliveries share: start a run, or leave a re-check       *)
(* request for the run that is open.                                        *)

StartRun(a) ==
    /\ asker[a].at = "starting"
    /\ Register("AUTOMATIC", asker[a].row.generation)
    /\ asker' = [asker EXCEPT ![a] =
                   IF a \in Check THEN [@ EXCEPT !.at = "writing", !.write = "later"] ELSE Idle]
    /\ taken' = Asked(a)
    /\ UNCHANGED <<row, head, stolen>>

\* The run was registered, but its start looks failed: nothing is tried again.
StartAnswerLost(a) ==
    /\ asker[a].at = "starting"
    /\ Register("AUTOMATIC", asker[a].row.generation)
    /\ Leave(a)
    /\ UNCHANGED <<row, head, taken, stolen>>

\* The start is refused because a run is open, and describe() names the latest
\* one.  Nothing is written between the two: one step, after which the run may
\* close, and another open, before the request is marked.
DescribeRun(a) ==
    /\ asker[a].at = "starting"
    /\ Open(last)
    /\ asker' = [asker EXCEPT ![a].at = "marking", ![a].run = last]
    /\ UNCHANGED <<row, head, run, last, taken, stolen>>

Current(a) == row.exists /\ row.generation = asker[a].row.generation

\* The last step of one who found a run open.
Finish(a) ==
    /\ asker' = [asker EXCEPT ![a] =
                   IF a \in Check
                   THEN [@ EXCEPT !.at = "writing",
                                  !.write = IF asker[a].row.evaluated = 0 THEN "soon" ELSE "later"]
                   ELSE Idle]
    /\ taken' = Asked(a)

RecordPendingHead(a) ==
    /\ asker[a].at = "marking"
    /\ IF Current(a)
       THEN row' = [row EXCEPT !.pending = TRUE] /\ Goto(a, "settling") /\ UNCHANGED taken
       ELSE Finish(a) /\ UNCHANGED row
    /\ UNCHANGED <<head, run, last, stolen>>

(* Mutant: the settle leaves every request to the run it was left for. *)
SettleNothing(a) ==
    /\ asker[a].at = "settling"
    /\ Finish(a)
    /\ UNCHANGED <<row, head, run, last, stolen>>

SettlePendingHead(a) ==
    /\ asker[a].at = "settling"
    /\ LET applied == Current(a) /\ run[asker[a].run].receipt = "finished"
       IN  /\ row' = IF applied THEN WithPendingHead(row) ELSE row
           /\ stolen' = (stolen \/ (applied /\ Steals(asker[a].run)))
    /\ Finish(a)
    /\ UNCHANGED <<head, run, last>>

\* Past its deadline, thrown out of, or dead with its process.
GiveUp(a) ==
    /\ asker[a].at # "idle"
    /\ Leave(a)
    /\ UNCHANGED <<row, head, run, last, taken, stolen>>

-----------------------------------------------------------------------------
(* A sync run: begin reads the row and then inserts the receipt, acquire    *)
(* reads the branch, record completes the receipt, and the workflow closes. *)

SetRun(n, r) == run' = [run EXCEPT ![n] = r]

\* The run with its receipt, which the first attempt of begin inserts.
WithReceipt(r) ==
    IF r.receipt = "absent" THEN [r EXCEPT !.receipt = "open", !.generation = r.row.generation]
    ELSE r

\* The outcome table: only an automatic run pauses or backs off.
Recording(r, effect, saw) ==
    [NoRun EXCEPT !.at = "recording", !.receipt = r.receipt, !.generation = r.generation,
        !.saw = IF effect \in {"success", "suppress"} THEN saw ELSE 0,
        !.effect = IF r.trigger = "AUTOMATIC" \/ effect \in {"success", "suppress"}
                   THEN effect ELSE "none"]

LoadRow(n) ==
    /\ run[n].at = "queued"
    /\ SetRun(n, IF row.exists THEN [run[n] EXCEPT !.at = "loaded", !.row = Flags(row)]
                 ELSE Recording(run[n], "backoff", 0))
    /\ UNCHANGED <<row, head, asker, last, taken, stolen>>

(* Mutant: the pause goes, the schedule it took with it does not return. *)
LiftedUnscheduled(r) == [r EXCEPT !.pause = None]

\* A commit pushed with the integration's credential disproves the pause the
\* run loaded: it is lifted if it still stands, and if the delegate may write.
Lifted(r) == [r EXCEPT !.pause = None, !.next = "due"]

LiftsPause(r) ==
    IF /\ r.trigger = "COMMIT_PUSHED"
       /\ r.generation = r.row.generation
       /\ r.row.pause # None
       /\ r.expected = r.row.generation
       /\ row.exists /\ row.generation = r.row.generation /\ row.pause = r.row.pause
    THEN IF row.pause = "REF_MISSING" THEN {TRUE} ELSE BOOLEAN
    ELSE {FALSE}

\* begin's answers for the row it loaded, once the receipt is in.
BeginOutcomes(r, lifted) ==
    LET paused == r.row.pause # None /\ ~lifted
        refused == \/ r.generation # r.row.generation
                   \/ r.trigger = "AUTOMATIC" /\ ~r.row.automatic
                   \/ r.trigger # "MANUAL" /\ paused
                   \/ r.expected \notin {0, r.row.generation}
    IN  IF refused THEN {"none"} ELSE {"begun", "backoff", "PERMISSION_REVOKED"}

Begin(n) ==
    LET r == WithReceipt(run[n])
    IN  /\ r.at = "loaded"
        /\ \E lifted \in LiftsPause(r) : \E out \in BeginOutcomes(r, lifted) :
              /\ row' = IF lifted THEN Lifted(row) ELSE row
              /\ SetRun(n, IF out = "begun" THEN [r EXCEPT !.at = "begun", !.row = Blank,
                                                          !.expected = 0]
                           ELSE Recording(r, out, 0))
              /\ IF out \in {"backoff", "PERMISSION_REVOKED"}
                 THEN Attempted(r.generation) ELSE UNCHANGED <<taken, stolen>>
        /\ UNCHANGED <<head, asker, last>>

\* The attempt ended after its insert: the activity is retried, or given up.
BeginLost(n) ==
    LET r == WithReceipt(run[n])
    IN  /\ r.at = "loaded"
        /\ \E lifted \in LiftsPause(r) : row' = IF lifted THEN Lifted(row) ELSE row
        /\ \/ SetRun(n, [r EXCEPT !.at = "queued", !.row = Blank]) /\ UNCHANGED <<taken, stolen>>
           \/ /\ SetRun(n, Recording(r, "backoff", 0))
              /\ Attempted(r.generation)
        /\ UNCHANGED <<head, asker, last>>

\* acquire reads the branch; what follows it ends in one of these effects.
Acquire(n) ==
    /\ run[n].at = "begun"
    /\ \E effect \in Effect \ {"later", "soon"} : SetRun(n, Recording(run[n], effect, head))
    /\ Attempted(run[n].generation)
    /\ UNCHANGED <<row, head, asker, last>>

\* The completion transaction, under the row's lock: the receipt, and the
\* schedule if the run is of the current configuration.  A revoked
\* permission stands only while the row's delegate still lacks it.
Complete(n, effect, at) ==
    /\ run[n].receipt = "open"
    /\ IF row.exists /\ row.generation = run[n].generation
       THEN \E e \in {effect} \cup (IF effect = "PERMISSION_REVOKED" THEN {"none"} ELSE {}) :
               row' = WithPendingHead(Patched(row, e, run[n].saw))
       ELSE UNCHANGED row
    /\ SetRun(n, [NoRun EXCEPT !.at = at, !.generation = run[n].generation,
                               !.receipt = "finished"])
    /\ stolen' = (stolen \/ Steals(n))
    /\ UNCHANGED <<head, asker, last, taken>>

Record(n) ==
    /\ run[n].at = "recording"
    /\ Complete(n, run[n].effect, "completed")

\* The workflow closes some time after its completion committed, or without
\* one when it found no configuration.
Close(n) ==
    /\ \/ run[n].at = "completed"
       \/ run[n].at = "recording" /\ run[n].receipt = "absent"
    /\ SetRun(n, [run[n] EXCEPT !.at = "closed"])
    /\ UNCHANGED <<row, head, asker, last, taken, stolen>>

\* A terminated run records nothing, and the poll is left to find its head.
Terminate(n) ==
    /\ Open(n) /\ run[n].at # "completed"
    /\ SetRun(n, [NoRun EXCEPT !.at = "closed", !.generation = run[n].generation,
                               !.receipt = run[n].receipt])
    /\ Attempted(row.generation)
    /\ UNCHANGED <<row, head, asker, last>>

\* The hourly reaper completes the receipt of a run that is over.
Reap(n) ==
    /\ run[n].at = "closed"
    /\ Complete(n, "none", "closed")

-----------------------------------------------------------------------------
(* Members, the branch and time.                                            *)

\* "Sync now", or the sync that confirms a commit made for a configuration.
Requested(trigger, generation) ==
    /\ Register(trigger, generation)
    /\ UNCHANGED <<row, head, asker, taken, stolen>>

\* A configure that changes what is synced.
Reconfigure ==
    /\ row.exists /\ row.generation < MaxGeneration
    /\ \E u \in Delegate, on \in BOOLEAN : row' = Evaluate(Configured(row, u, on))
    /\ taken' = None /\ stolen' = FALSE
    /\ UNCHANGED <<head, asker, run, last>>

\* New ignore rules keep the flags, a pause included.
ChangeSettings ==
    /\ row.exists /\ row.generation < MaxGeneration
    /\ row' = Evaluate(row)
    /\ taken' = None /\ stolen' = FALSE
    /\ UNCHANGED <<head, asker, run, last>>

\* The automatic toggle, "Re-enable", a re-save: the generation stays.
ConfigureFlags ==
    /\ row.exists
    /\ \E u \in Delegate, on \in BOOLEAN : row' = Configured(row, u, on)
    /\ UNCHANGED <<head, asker, run, last, taken, stolen>>

Disconnect ==
    /\ row.exists
    /\ row' = [Blank EXCEPT !.exists = FALSE, !.generation = row.generation]
    /\ taken' = None /\ stolen' = FALSE
    /\ UNCHANGED <<head, asker, run, last>>

Push ==
    /\ head < MaxHead
    /\ head' = head + 1
    /\ UNCHANGED <<row, asker, run, last, taken, stolen>>

\* The clock passes nextCheckAt: a schedule comes due, a lease ends.
ComeDue ==
    /\ row.next \notin {None, "due"}
    /\ row' = [row EXCEPT !.next = "due"]
    /\ UNCHANGED <<head, asker, run, last, taken, stolen>>

-----------------------------------------------------------------------------
CheckStep(c) ==
    \/ Claim(c) \/ ReadLease(c) \/ RemoteHead(c) \/ ReadLeaseAgain(c) \/ FencedWrite(c)

AskerStep(a) ==
    \/ StartRun(a) \/ StartAnswerLost(a) \/ DescribeRun(a)
    \/ RecordPendingHead(a) \/ SettlePendingHead(a) \/ GiveUp(a)

RunStep(n) ==
    \/ LoadRow(n) \/ Begin(n) \/ BeginLost(n) \/ Acquire(n)
    \/ Record(n) \/ Close(n) \/ Terminate(n) \/ Reap(n)

Next ==
    \/ \E c \in Check : CheckStep(c)
    \/ \E d \in Delivery : Deliver(d)
    \/ \E a \in Asker : AskerStep(a)
    \/ \E n \in Runs : RunStep(n)
    \/ Requested("MANUAL", 0)
    \/ \E g \in 1..row.generation : Requested("COMMIT_PUSHED", g)
    \/ Reconfigure \/ ChangeSettings \/ ConfigureFlags \/ Disconnect
    \/ Push \/ ComeDue

Spec == Init /\ [][Next]_vars

-----------------------------------------------------------------------------
(* Properties.                                                              *)

Live == row.exists /\ row.automatic /\ row.pause = None

\* Types, and: a row that syncs automatically is never without a next check.
TypeOK ==
    /\ row \in Row
    /\ head \in 1..MaxHead
    /\ asker \in [Asker -> AskerState]
    /\ run \in [Runs -> RunState]
    /\ last \in 0..MaxRun
    /\ taken \in Commit \cup {None}
    /\ stolen \in BOOLEAN
    /\ Live => row.next # None

\* What a check decides from and writes to.
Watched(r) == <<r.generation, r.delegate, r.automatic, r.pause, r.evaluated, r.suppressed>>

\* The documented invariant of the table: a check's write applies only to
\* the row its claim returned, whatever runs, members and other checks did
\* in between.
LeasedWritesAreFresh ==
    [][\A c \in Check :
         FencedWrite(c) /\ Holds(c) => Watched(row) = Watched(asker[c].row)]_vars

\* A request that waits and may have nobody to consume it: a run of an older
\* configuration has a receipt (whether or not the request was left to that
\* run, and whether or not it has finished), or a run ended before it had one.
LeftBehind ==
    /\ row.pending
    /\ \E n \in 1..last :
          \/ run[n].receipt # "absent" /\ run[n].generation # row.generation
          \/ run[n].at = "closed" /\ run[n].receipt = "absent"

\* A commit that a push or a check has handed over is never slept on: until
\* a run of the current configuration has read the branch since, or someone
\* has failed to, the row is due within a tick or leased, a run is about to
\* read, or a request waits for a completion that is still to come.
NoHeadIsForgotten ==
    Live /\ taken = None =>
        \/ row.next \in Check \cup {"due", "soon"}
        \/ \E n \in Runs : run[n].at \in {"queued", "loaded", "begun"}
        \/ row.pending /\ \E n \in Runs :
              run[n].receipt = "open" /\ run[n].generation = row.generation
        \/ LeftBehind \/ stolen

-----------------------------------------------------------------------------
(***************************************************************************)
(* The inductive invariant behind LeasedWritesAreFresh and                 *)
(* NoHeadIsForgotten (InstructionSyncProofs, InstructionSyncHeadProofs).   *)
(***************************************************************************)

\* While a check works and its lease stands, the row is the one it claimed.
Fresh ==
    \A c \in Check :
        asker[c].at # "idle" /\ row.next = c => Watched(row) = Watched(asker[c].row)

\* One run is open at a time, the last, and its receipt keeps pace with it.
RunInOrder(n) ==
    LET r == run[n] IN
    /\ r.at = "none" <=> n > last
    /\ Open(n) => n = last
    /\ r.at \in {"queued", "loaded"} => r.receipt # "finished"
    /\ r.at = "begun" => r.receipt = "open"
    /\ r.at = "recording" => r.receipt = "open" \/ (r.receipt = "absent" /\ ~row.exists)
    /\ r.at = "completed" => r.receipt = "finished"
    /\ r.generation <= row.generation /\ r.row.generation <= row.generation

AskerInOrder(a) ==
    LET e == asker[a] IN
    /\ e.head <= head
    /\ e.at \in {"marking", "settling"} => e.run \in 1..last
    /\ a \in Check /\ row.next = a =>
          /\ e.at = "settling" => row.pending
          /\ e.at = "writing" /\ e.write = "success" => e.head = e.row.evaluated
          /\ e.at = "writing" /\ e.write = "suppress" => e.head = e.row.suppressed

\* The commits that count as read are behind the newest one taken, or there is
\* a newer one to come.
Reached(e) == IF taken = None THEN e < head ELSE e <= taken

CursorsAreTaken ==
    /\ taken # None => taken <= head
    /\ row.exists =>
        /\ Reached(row.evaluated) /\ Reached(row.suppressed)
        /\ \A n \in Runs : run[n].at = "recording" /\ run[n].generation = row.generation =>
              Reached(run[n].saw)

\* A run that will read the branch for the current configuration, or fail to.
WillRead(n) ==
    LET r == run[n] IN
    /\ r.at \in {"queued", "loaded", "begun"}
    /\ r.expected \in {0, row.generation}
    /\ r.receipt = "absent" \/ r.generation = row.generation
    /\ r.at = "loaded" =>
          r.row.generation = row.generation /\ r.row.automatic /\ r.row.pause = None

\* A request that a completion will consume, or nobody.
WillConsume ==
    row.pending /\ \E n \in 1..last : run[n].receipt # "finished" \/ run[n].generation # row.generation

Awaited == stolen \/ WillConsume \/ \E n \in Runs : WillRead(n)

\* Nobody is about to hand over a commit that was not read.
AllTaken ==
    /\ taken # None
    /\ \A d \in Delivery : asker[d].at = "settling" /\ ~row.pending => asker[d].head <= taken

\* Whoever lets the row sleep, or is about to, knows that nothing waits or who
\* will wake it.
Reschedules == {"success", "suppress", "backoff", "later", "soon"}

RowSleepsSafely == Live /\ row.next = "later" => Awaited \/ AllTaken

CheckSleepsSafely(c) ==
    Live /\ row.next = c /\ asker[c].at = "writing" /\ asker[c].write \in Reschedules =>
        Awaited \/ (AllTaken /\ asker[c].head <= taken)

RunSleepsSafely(n) ==
    /\ row.exists
    /\ run[n].at = "recording" /\ run[n].generation = row.generation
    /\ run[n].effect \in Reschedules
    => row.pending \/ stolen \/ AllTaken

IndInv ==
    /\ TypeOK /\ Fresh
    /\ \A n \in Runs : RunInOrder(n)
    /\ \A a \in Asker : AskerInOrder(a)
    /\ CursorsAreTaken
    /\ RowSleepsSafely
    /\ \A c \in Check : CheckSleepsSafely(c)
    /\ \A n \in Runs : RunSleepsSafely(n)
    /\ NoHeadIsForgotten
=============================================================================
