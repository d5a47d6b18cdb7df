-------------------------- MODULE PublishingDelivery --------------------------
(***************************************************************************)
(* Telling the members of a project that the publishing topics of one      *)
(* suggestion cycle are ready: a bell and an email per recipient, each an  *)
(* obligation with a row in publishing_notification_delivery.              *)
(*                                                                         *)
(*   attempt   runPublishingTopicsReadyNotification: executions of the     *)
(*             notify activity.  One that timed out keeps running beside   *)
(*             its retry.                                                  *)
(*   drain     drainDeferredPublishingNotifications: sends what was        *)
(*             deferred while no mail key was configured.                  *)
(*   sweep     abandonStalePublishingCycleOutcomes and                     *)
(*             reclaimPublishingDeliveryStates, statement by statement.    *)
(*                                                                         *)
(* A transaction that creates a row takes the project row's lock, tests    *)
(* its fence, and writes in a later step; everybody who does not take that *)
(* lock may act in between.  Leases, deadlines and the mail provider are   *)
(* asynchronous: a lease may lapse while its holder is in the provider's   *)
(* call, and a message may be accepted although the call fails.            *)
(***************************************************************************)
EXTENDS Naturals

CONSTANTS
    Bell,       \* recipients with a bell obligation
    Mail,       \* recipients with an email obligation
    Attempt,    \* executions of the notify activity
    Drain,      \* executions of the drain activity
    Bound,      \* PUBLISHING_DELIVERY_ATTEMPT_BOUND
    MaxVersion, \* bound: notificationOutcomeVersion
    None        \* no execution

ASSUME BoundsAssumption ==
    /\ Bound \in Nat \ {0} /\ MaxVersion \in Nat
    /\ Attempt \cap Drain = {} /\ None \notin Attempt \cup Drain

VARIABLES
    outcome,    \* the cycle's notificationOutcome
    version,    \* its notificationOutcomeVersion
    tenant,     \* the project is eligible and still the cycle's tenant's
    project,    \* who holds the project row's lock
    row,        \* the ledger row of each obligation
    bells,      \* notifications each recipient got
    exec        \* what each execution is doing

cycle == <<outcome, version>>
vars == <<cycle, tenant, project, row, bells, exec>>

Exec       == Attempt \cup Drain
BellOf     == {"IN_APP"} \X Bell
MailOf     == {"EMAIL"} \X Mail
Obligation == BellOf \cup MailOf
MailOnly   == {o \in MailOf : o[2] \notin Bell}

Live    == {"PENDING", "RESOLUTION_FAILED"}
Closed  == {"SENT", "NO_RECIPIENTS", "CANCELLED", "DISABLED", "MAIL_NOT_CONFIGURED"}
Outcome == Live \cup Closed \cup {"ABANDONED"}
Status  == {"NONE", "SENDING", "SENT", "FAILED", "SKIPPED", "DEFERRED", "EXPIRED"}

(* A row: its claim, its attemptCount, its deadline (expiresAt).  A claim's *)
(* token is new, and an execution remembers no claim but its last: the      *)
(* token is told apart by the execution that holds it.  accepted is about   *)
(* the message of the row's claim: whether the mail provider took it.       *)
Row == [status : Status, token : Exec \cup {None}, lapsed : BOOLEAN,
        accepted : BOOLEAN, count : 0 .. Bound, deadline : {"none", "ahead", "past"}]

(* Nothing is done about the row any more. *)
Settled(r) ==
    \/ r.status \in {"SENT", "SKIPPED", "EXPIRED"}
    \/ r.status = "FAILED" /\ r.count >= Bound

NoRow == [status |-> "NONE", token |-> None, lapsed |-> FALSE,
          accepted |-> FALSE, count |-> 0, deadline |-> "none"]

PC == {"idle", "resolve", "bells", "mails", "fence", "write", "send", "confirm",
       "fail", "close", "skip", "take"}

(* An execution: the obligation it is at (a set of at most one), those     *)
(* still ahead in its list, what it is to write, the version it observed,  *)
(* whether it has a mail key.                                              *)
Execution ==
    [pc : PC, at : SUBSET Obligation, ahead : SUBSET Obligation,
     candidates : SUBSET Obligation,
     op : {"deliver", "record", "claim", "defer", "CANCELLED", "DISABLED", "NO_RECIPIENTS",
           "MAIL_NOT_CONFIGURED"},
     version : 0 .. MaxVersion, mail : BOOLEAN]

Idle == [pc |-> "idle", at |-> {}, ahead |-> {}, candidates |-> {},
         op |-> "deliver", version |-> 0, mail |-> FALSE]

TypeOK ==
    /\ outcome \in Outcome /\ version \in 0 .. MaxVersion
    /\ tenant \in BOOLEAN
    /\ project \in Attempt \cup {None}
    /\ row \in [Obligation -> Row]
    /\ bells \in [Bell -> Nat]
    /\ exec \in [Exec -> Execution]

Init ==
    /\ outcome = "PENDING" /\ version = 0
    /\ tenant = TRUE
    /\ project = None
    /\ row = [o \in Obligation |-> NoRow]
    /\ bells = [r \in Bell |-> 0]
    /\ exec = [x \in Exec |-> Idle]

Terminal == outcome \notin Live

Set(x, e)   == exec' = [exec EXCEPT ![x] = e]
Goto(x, pc) == exec' = [exec EXCEPT ![x].pc = pc]
Stop(x)     == Set(x, Idle)

Closing(x, out) ==
    Set(x, [Idle EXCEPT !.pc = "close", !.op = out, !.version = exec[x].version])

(* The walk over bells, or over emails, goes on with the next recipient. *)
Walk(o) == IF o \in BellOf THEN "bells" ELSE "mails"
Advance(x, o) ==
    exec' = [exec EXCEPT ![x].pc = Walk(o), ![x].op = "deliver", ![x].at = {},
                     ![x].ahead = @ \ {o}]

-----------------------------------------------------------------------------
(* writeCycleNotificationOutcome: compare and swap. *)
CanWrite(observed) == ~Terminal /\ version = observed /\ version < MaxVersion

WriteOutcome(out) == outcome' = out /\ version' = version + 1

Skipped(o) ==
    [row[o] EXCEPT !.status = "SKIPPED", !.token = None, !.lapsed = FALSE, !.accepted = FALSE]

(* terminalizeExistingDeliveriesAsSkipped, on both channels. *)
Terminalized ==
    [o \in Obligation |->
        IF row[o].status \in {"NONE", "SENT", "SKIPPED", "DEFERRED"} THEN row[o]
        ELSE Skipped(o)]

-----------------------------------------------------------------------------
(* An attempt, up to its list of recipients. *)

Begin(x) ==
    /\ exec[x].pc = "idle"
    /\ IF Terminal
       THEN row' = Terminalized /\ UNCHANGED exec
       ELSE /\ Set(x, [Idle EXCEPT !.pc = "resolve", !.version = version])
            /\ UNCHANGED row
    /\ UNCHANGED <<cycle, tenant, project, bells>>

(* The kill switch (which may be flipped at any time), the tenant gate, *)
(* the candidates, and the mail key.                                    *)
Resolve(x) ==
    /\ exec[x].pc = "resolve"
    /\ \/ Closing(x, "DISABLED")
       \/ ~tenant /\ Closing(x, "CANCELLED")
       \/ tenant /\ Closing(x, "NO_RECIPIENTS")
       \/ /\ tenant
          /\ \E c \in SUBSET Obligation \ {{}}, key \in BOOLEAN :
                Set(x, [exec[x] EXCEPT !.pc = "bells", !.candidates = c,
                           !.ahead = c \cap BellOf,
                           !.mail = key \/ c \cap MailOf = {}])
    /\ UNCHANGED <<cycle, tenant, project, row, bells>>

(* Resolution fails: the outcome is stamped, and the attempt rejects. *)
ResolutionFails(x) ==
    /\ exec[x].pc = "resolve" /\ tenant
    /\ IF CanWrite(exec[x].version)
       THEN WriteOutcome("RESOLUTION_FAILED") ELSE UNCHANGED cycle
    /\ Stop(x)
    /\ UNCHANGED <<tenant, project, row, bells>>

-----------------------------------------------------------------------------
(* The walk. *)

(* One recipient is re-authorized, and delivered to or claimed. *)
Visit(x, o) ==
    /\ exec[x].pc = Walk(o) /\ o \in exec[x].ahead
    /\ IF tenant
       THEN exec' = [exec EXCEPT ![x].pc = "fence", ![x].at = {o},
                         ![x].op = IF o \in BellOf THEN "deliver" ELSE "claim"]
       ELSE Closing(x, "CANCELLED")
    /\ UNCHANGED <<cycle, tenant, project, row, bells>>

(* Or is not authorized, has no address: recordPublishingDeliverySkip.  Its *)
(* fence asks for the tenant only, which cannot change under the lock.      *)
SkipRecipient(x, o) ==
    /\ exec[x].pc = Walk(o) /\ o \in exec[x].ahead
    /\ project = None /\ tenant
    /\ row' = IF row[o].status = "SENT" THEN row ELSE [row EXCEPT ![o] = Skipped(o)]
    /\ Advance(x, o)
    /\ UNCHANGED <<cycle, tenant, project, bells>>

(* Or a call about it throws: perRecipient leaves it undischarged. *)
LeaveRecipient(x, o) ==
    /\ exec[x].pc = Walk(o) /\ o \in exec[x].ahead
    /\ Advance(x, o)
    /\ UNCHANGED <<cycle, tenant, project, row, bells>>

(* No bell is ahead: without a mail key the email-only obligations are     *)
(* deferred, with one the emails that are still owed come next.            *)
EndBells(x) ==
    LET e == exec[x]
        owed == {o \in e.candidates \cap MailOf : row[o].status \notin {"SENT", "SKIPPED"}}
    IN
    /\ e.pc = "bells" /\ e.ahead = {}
    /\ Set(x, IF ~e.mail /\ e.candidates \cap MailOnly # {}
              THEN [e EXCEPT !.pc = "fence", !.op = "defer",
                             !.at = e.candidates \cap MailOnly]
              ELSE [e EXCEPT !.pc = "mails", !.ahead = IF e.mail THEN owed ELSE {}])
    /\ UNCHANGED <<cycle, tenant, project, row, bells>>

-----------------------------------------------------------------------------
(* A creating transaction: creationFenceVerdict under the project lock. *)

AfterWrite(x) ==
    IF exec[x].op = "defer"
    THEN exec' = [exec EXCEPT ![x].pc = "mails", ![x].op = "deliver", ![x].at = {},
                         ![x].ahead = {}]
    ELSE \E o \in exec[x].at : Advance(x, o)

(* Mutant: the cycle's outcome is not read again under the lock. *)
FenceOnTenantOnly(x) ==
    /\ exec[x].pc = "fence" /\ project = None
    /\ IF ~tenant THEN Closing(x, "CANCELLED") /\ UNCHANGED project
       ELSE Goto(x, "write") /\ project' = x
    /\ UNCHANGED <<cycle, tenant, row, bells>>

Fence(x) ==
    /\ exec[x].pc = "fence" /\ project = None
    /\ IF ~tenant THEN Closing(x, "CANCELLED") /\ UNCHANGED project
       ELSE IF Terminal THEN AfterWrite(x) /\ UNCHANGED project
       ELSE Goto(x, "write") /\ project' = x
    /\ UNCHANGED <<cycle, tenant, row, bells>>

Writing(x, op) == exec[x].pc = "write" /\ exec[x].op = op /\ project' = None

(* deliverPublishingTopicsReadyInApp: the row and the bell, or neither. *)
Deliver(x) ==
    /\ Writing(x, "deliver")
    /\ \E o \in exec[x].at :
          /\ IF row[o].status \in {"NONE", "FAILED"}
             THEN /\ row' = [row EXCEPT ![o].status = "SENT"]
                  /\ bells' = [bells EXCEPT ![o[2]] = @ + 1]
             ELSE UNCHANGED <<row, bells>>
          /\ Advance(x, o)
    /\ UNCHANGED <<cycle, tenant>>

(* It is rolled back; the failure is recorded in a transaction of its own. *)
DeliverFails(x) ==
    /\ Writing(x, "deliver")
    /\ exec' = [exec EXCEPT ![x].pc = "fence", ![x].op = "record"]
    /\ UNCHANGED <<cycle, tenant, row, bells>>

RecordFailure(x) ==
    /\ Writing(x, "record")
    /\ \E o \in exec[x].at :
          /\ row' = IF row[o].status = "NONE"
                    THEN [row EXCEPT ![o].status = "FAILED"] ELSE row
          /\ Advance(x, o)
    /\ UNCHANGED <<cycle, tenant, bells>>

(* deferPublishingEmailDeliveries: createMany, skipDuplicates. *)
Defer(x) ==
    /\ Writing(x, "defer")
    /\ row' = [o \in Obligation |->
                  IF o \in exec[x].at /\ row[o].status = "NONE"
                  THEN [NoRow EXCEPT !.status = "DEFERRED", !.deadline = "ahead"]
                  ELSE row[o]]
    /\ AfterWrite(x)
    /\ UNCHANGED <<cycle, tenant, bells>>

(* Mutant: a row past its deadline or out of attempts can be claimed. *)
ClaimableForever(o) ==
    /\ row[o].status \in {"SENDING", "FAILED", "DEFERRED", "EXPIRED"}
    /\ row[o].token = None \/ row[o].lapsed

(* publishingEmailClaimableSql, with the lease term. *)
Claimable(o) ==
    /\ row[o].status \in {"SENDING", "FAILED", "DEFERRED"}
    /\ row[o].count < Bound
    /\ row[o].deadline # "past"
    /\ row[o].token = None \/ row[o].lapsed

Claimed(o, x) == [row[o] EXCEPT !.status = "SENDING", !.token = x,
                                !.lapsed = FALSE, !.accepted = FALSE]

(* claimPublishingEmailDelivery *)
Claim(x) ==
    /\ Writing(x, "claim")
    /\ \E o \in exec[x].at :
          IF row[o].status = "NONE" \/ Claimable(o)
          THEN row' = [row EXCEPT ![o] = Claimed(o, x)] /\ Goto(x, "send")
          ELSE Advance(x, o) /\ UNCHANGED row
    /\ UNCHANGED <<cycle, tenant, bells>>

-----------------------------------------------------------------------------
(* Sending an email, in an attempt or in the drain. *)

(* The call may fail although the provider accepted the message. *)
Send(x) ==
    /\ exec[x].pc = "send"
    /\ \E answer \in {"confirm", "fail"}, took \in BOOLEAN :
          /\ answer = "confirm" => took
          /\ row' = [o \in Obligation |->
                        IF o \in exec[x].at /\ row[o].token = x
                        THEN [row[o] EXCEPT !.accepted = took] ELSE row[o]]
          /\ Goto(x, answer)
    /\ UNCHANGED <<cycle, tenant, project, bells>>

Proceed(x, o) == IF x \in Attempt THEN Advance(x, o) ELSE Stop(x)

(* Mutant: the token is not compared. *)
OwnsAny(x, o) == row[o].status = "SENDING"

Owns(x, o) == row[o].status = "SENDING" /\ row[o].token = x

(* confirmPublishingEmailDelivery: the row keeps its token. *)
Confirm(x) ==
    /\ exec[x].pc = "confirm"
    /\ \E o \in exec[x].at :
          /\ row' = IF Owns(x, o)
                    THEN [row EXCEPT ![o].status = "SENT", ![o].lapsed = FALSE] ELSE row
          /\ Proceed(x, o)
    /\ UNCHANGED <<cycle, tenant, project, bells>>

(* recordPublishingEmailFailure; in the drain, which nothing retries within *)
(* the tick, recordPublishingDeferredEmailFailure.                          *)
Fail(x) ==
    /\ exec[x].pc = "fail"
    /\ \E o \in exec[x].at :
          LET back == x \in Drain /\ row[o].count < Bound IN
          /\ row' = IF Owns(x, o)
                    THEN [row EXCEPT ![o].status = IF back THEN "DEFERRED" ELSE "FAILED",
                                     ![o].token = None, ![o].lapsed = FALSE, ![o].accepted = FALSE]
                    ELSE row
          /\ Proceed(x, o)
    /\ UNCHANGED <<cycle, tenant, project, bells>>

-----------------------------------------------------------------------------
(* An attempt's end. *)

Undischarged(x) ==
    {o \in exec[x].candidates :
        /\ o \in BellOf \/ exec[x].mail
        /\ row[o].status \notin {"SENT", "SKIPPED", "DEFERRED"}}

Check(x) ==
    /\ exec[x].pc = "mails" /\ exec[x].ahead = {}
    /\ IF Undischarged(x) # {} THEN Stop(x)
       ELSE Closing(x, IF exec[x].mail THEN "CANCELLED" ELSE "MAIL_NOT_CONFIGURED")
    /\ UNCHANGED <<cycle, tenant, project, row, bells>>

(* closeObligationsAndComplete.  A lost swap rolls everything back, unless *)
(* the cycle is terminal already.                                          *)
Close(x) ==
    LET delivered == \E o \in Obligation : Terminalized[o].status = "SENT"
        out == IF exec[x].op # "MAIL_NOT_CONFIGURED" /\ delivered
               THEN "SENT" ELSE exec[x].op
    IN
    /\ exec[x].pc = "close" /\ project = None
    /\ \/ CanWrite(exec[x].version) /\ WriteOutcome(out) /\ row' = Terminalized
       \/ Terminal /\ row' = Terminalized /\ UNCHANGED cycle
       \/ ~Terminal /\ version # exec[x].version /\ UNCHANGED <<cycle, row>>
    /\ Stop(x)
    /\ UNCHANGED <<tenant, project, bells>>

(* The process dies, or the attempt's next statement throws. *)
Crash(x) ==
    /\ exec[x].pc # "idle"
    /\ Stop(x)
    /\ project' = IF project = x THEN None ELSE project
    /\ UNCHANGED <<cycle, tenant, row, bells>>

AttemptStep(x) ==
    \/ Begin(x) \/ Resolve(x) \/ ResolutionFails(x)
    \/ \E o \in Obligation : Visit(x, o) \/ SkipRecipient(x, o) \/ LeaveRecipient(x, o)
    \/ EndBells(x)
    \/ Fence(x) \/ Deliver(x) \/ DeliverFails(x) \/ RecordFailure(x) \/ Defer(x) \/ Claim(x)
    \/ Check(x) \/ Close(x)

-----------------------------------------------------------------------------
(* The drain, one deferred row at a time. *)

(* Its gates (the tenant, the kill switch, the recipient, the address) send *)
(* a row to be skipped or claimed, in a later statement.                    *)
ReadDeferred(d) ==
    /\ exec[d].pc = "idle"
    /\ \E o \in MailOf, pc \in {"skip", "take"} :
          /\ row[o].status = "DEFERRED" /\ (pc = "take" => tenant)
          /\ Set(d, [Idle EXCEPT !.pc = pc, !.at = {o}])
    /\ UNCHANGED <<cycle, tenant, project, row, bells>>

SkipDeferred(d) ==
    /\ exec[d].pc = "skip"
    /\ \E o \in exec[d].at :
          row' = IF row[o].status = "DEFERRED" THEN [row EXCEPT ![o] = Skipped(o)] ELSE row
    /\ Stop(d)
    /\ UNCHANGED <<cycle, tenant, project, bells>>

(* Mutant: the attempt is counted before it is known to be allowed. *)
TakeCountingFirst(d) ==
    /\ exec[d].pc = "take"
    /\ \E o \in exec[d].at :
          /\ row' = IF row[o].status # "DEFERRED" THEN row
                    ELSE IF Claimable(o)
                    THEN [row EXCEPT ![o] = [Claimed(o, d) EXCEPT !.count = @ + 1]]
                    ELSE [row EXCEPT ![o].count = @ + 1]
          /\ IF row[o].status = "DEFERRED" /\ Claimable(o) THEN Goto(d, "send") ELSE Stop(d)
    /\ UNCHANGED <<cycle, tenant, project, bells>>

(* claimDeferredPublishingEmailDelivery: the bound is tested and the count *)
(* incremented in one statement; a row found at the bound is discharged.   *)
TakeDeferred(d) ==
    /\ exec[d].pc = "take"
    /\ \E o \in exec[d].at :
          \/ /\ row[o].status = "DEFERRED" /\ Claimable(o)
             /\ row' = [row EXCEPT ![o] = [Claimed(o, d) EXCEPT !.count = @ + 1]]
             /\ Goto(d, "send")
          \/ /\ ~(row[o].status = "DEFERRED" /\ Claimable(o))
             /\ row' = IF row[o].status = "DEFERRED" /\ row[o].count >= Bound
                             /\ row[o].deadline = "ahead"
                       THEN [row EXCEPT ![o].status = "FAILED"] ELSE row
             /\ Stop(d)
    /\ UNCHANGED <<cycle, tenant, project, bells>>

DrainStep(d) == ReadDeferred(d) \/ SkipDeferred(d) \/ TakeDeferred(d)

ExecStep(x) == Send(x) \/ Confirm(x) \/ Fail(x) \/ Crash(x)

-----------------------------------------------------------------------------
(* The sweep. *)

Abandon ==
    /\ outcome = "PENDING" /\ version < MaxVersion
    /\ WriteOutcome("ABANDONED")
    /\ UNCHANGED <<tenant, project, row, bells, exec>>

(* EXPIRE_DEFERRED *)
ExpireDeferred(o) ==
    /\ row[o].status = "DEFERRED" /\ row[o].deadline = "past"
    /\ row' = [row EXCEPT ![o].status = "EXPIRED"]
    /\ UNCHANGED <<cycle, tenant, project, bells, exec>>

(* Mutant: a claim that used up the attempts is not looked at. *)
ReconcileBelowBound(o) ==
    /\ row[o].status = "SENDING" /\ row[o].lapsed /\ row[o].deadline # "none"
    /\ row[o].count < Bound
    /\ row' = [row EXCEPT ![o].status = IF row[o].deadline = "past" THEN "EXPIRED"
                                        ELSE "DEFERRED",
                          ![o].token = None, ![o].lapsed = FALSE, ![o].accepted = FALSE]
    /\ UNCHANGED <<cycle, tenant, project, bells, exec>>

(* RECONCILE_SENDING, on a clock that may not see a deadline as past yet. *)
ReconcileSending(o) ==
    /\ row[o].status = "SENDING" /\ row[o].lapsed /\ row[o].deadline # "none"
    /\ \E past \in {FALSE, row[o].deadline = "past"} :
          row' = [row EXCEPT
                     ![o].status = IF past THEN "EXPIRED"
                                   ELSE IF row[o].count >= Bound THEN "FAILED"
                                   ELSE "DEFERRED",
                     ![o].token = None, ![o].lapsed = FALSE, ![o].accepted = FALSE]
    /\ UNCHANGED <<cycle, tenant, project, bells, exec>>

-----------------------------------------------------------------------------
(* Time, and the project's members. *)

Lapse(o) ==
    /\ row[o].status = "SENDING" /\ ~row[o].lapsed
    /\ row' = [row EXCEPT ![o].lapsed = TRUE]
    /\ UNCHANGED <<cycle, tenant, project, bells, exec>>

DeadlinePasses(o) ==
    /\ row[o].deadline = "ahead" /\ ~Settled(row[o])
    /\ row' = [row EXCEPT ![o].deadline = "past"]
    /\ UNCHANGED <<cycle, tenant, project, bells, exec>>

(* A transfer, an archival or a deletion writes the project row. *)
Transfer ==
    /\ tenant /\ project = None
    /\ tenant' = FALSE
    /\ UNCHANGED <<cycle, project, row, bells, exec>>

Next ==
    \/ \E x \in Attempt : AttemptStep(x)
    \/ \E d \in Drain : DrainStep(d)
    \/ \E x \in Exec : ExecStep(x)
    \/ Abandon
    \/ \E o \in MailOf :
          ExpireDeferred(o) \/ ReconcileSending(o) \/ Lapse(o) \/ DeadlinePasses(o)
    \/ Transfer

Spec == Init /\ [][Next]_vars

-----------------------------------------------------------------------------
(***************************************************************************)
(* A bell is rung exactly once per recipient, together with its row, and a *)
(* cycle that reports that nobody was notified rang none: deliveries and   *)
(* the closing of the cycle exclude each other (notify-topics-ready.ts,    *)
(* closeObligationsAndComplete; creationFenceVerdict).                     *)
(***************************************************************************)
BellsAreHonest ==
    /\ \A r \in Bell :
          bells[r] = IF row[<<"IN_APP", r>>].status = "SENT" THEN 1 ELSE 0
    /\ outcome \in {"CANCELLED", "DISABLED", "NO_RECIPIENTS"} =>
          \A r \in Bell : bells[r] = 0

(***************************************************************************)
(* A cycle that its own attempt closed leaves no obligation behind: every  *)
(* row is settled, or in the deferral lifecycle with a deadline.  A slow   *)
(* attempt cannot add one afterwards.                                      *)
(***************************************************************************)
NothingIsStranded ==
    outcome \in Closed =>
        \A o \in Obligation :
            \/ row[o].status \in {"NONE", "SENT", "SKIPPED", "EXPIRED"}
            \/ /\ row[o].status \in {"DEFERRED", "SENDING"} /\ row[o].deadline # "none"
            \/ row[o].status = "FAILED" /\ row[o].count >= Bound

(***************************************************************************)
(* An email row says SENT only on the word of the attempt that held the    *)
(* row when it confirmed, and whose own message the provider accepted: not *)
(* of one whose lease lapsed in the provider's call.                       *)
(***************************************************************************)
SentWasAccepted ==
    \A o \in MailOf : row[o].status = "SENT" => row[o].accepted

(***************************************************************************)
(* A claim leaves the row only by its holder's own answer, by its lease    *)
(* lapsing, or by a cancellation: no late failure and no other claim ends  *)
(* the lease of an attempt that is still inside the provider's call.       *)
(***************************************************************************)
Sending(x, o) ==
    o \in exec[x].at /\ exec[x].pc \in {"send", "confirm", "fail"}

ClaimsEndProperly ==
    [][\A o \in MailOf :
          row[o].status = "SENDING" /\ row'[o].token # row[o].token =>
              \/ row[o].lapsed
              \/ row'[o].status = "SKIPPED"
              \/ \A x \in Exec : x = row[o].token => ~Sending(x, o)']_vars

(***************************************************************************)
(* Nothing that is settled is queued again: a row that is sent, skipped,   *)
(* expired or out of attempts is never claimed, deferred or delivered.     *)
(***************************************************************************)
SettledForGood ==
    [][\A o \in Obligation : Settled(row[o]) =>
          Settled(row'[o]) /\ (row'[o].status = "SENT" => row[o].status = "SENT")]_vars

(***************************************************************************)
(* The inductive invariant behind BellsAreHonest, NothingIsStranded,       *)
(* SentWasAccepted, ClaimsEndProperly and SettledForGood                   *)
(* (PublishingDeliveryProofs).                                             *)
(***************************************************************************)

(* A token is there while it is needed; what is deferred has a deadline; a *)
(* bell is never queued.                                                   *)
RowInOrder(o, r) ==
    /\ r.status = "SENDING" => r.token # None
    /\ r.status \notin {"SENDING", "SENT"} => r.token = None
    /\ r.status = "DEFERRED" \/ r.token \in Drain => r.deadline # "none"
    /\ o \in BellOf => /\ r.status \in {"NONE", "SENT", "FAILED", "SKIPPED"}
                       /\ r.token = None /\ r.count = 0

(* Who may write has the lock, before the close; who is in the provider's  *)
(* call holds the claim, or it is no longer his.                           *)
AtMostOne(S) == \A o, p \in S : o = p

ExecInOrder(x) ==
    LET e == exec[x] IN
    /\ e.pc \in {"fence", "write"} =>
          \/ e.op \in {"deliver", "record"} /\ e.at \subseteq BellOf /\ AtMostOne(e.at)
          \/ e.op = "claim" /\ e.at \subseteq MailOf /\ AtMostOne(e.at)
          \/ e.op = "defer" /\ e.at \subseteq MailOf
    /\ e.pc \in {"send", "confirm", "fail", "skip", "take"} =>
          e.at \subseteq MailOf /\ AtMostOne(e.at)
    /\ e.pc = "close" => e.op \in Closed
    /\ e.pc = "write" => project = x /\ outcome \notin Closed
    /\ e.pc \in {"send", "confirm", "fail"} =>
          \A o \in e.at : row[o].token = x =>
              row[o].status = "SENDING" /\ (e.pc = "confirm" => row[o].accepted)

(* After the close only the drain sends. *)
ClaimsAreDrains ==
    outcome \in Closed => \A o \in Obligation : row[o].status = "SENDING" => row[o].token \in Drain

IndInv ==
    /\ TypeOK
    /\ \A o \in Obligation : RowInOrder(o, row[o])
    /\ \A x \in Exec : ExecInOrder(x)
    /\ ClaimsAreDrains
    /\ BellsAreHonest
    /\ NothingIsStranded
    /\ SentWasAccepted

-----------------------------------------------------------------------------
(***************************************************************************)
(* Liveness.  Time passes, and the hourly sweep goes through its           *)
(* statements, sooner or later with a clock that sees a passed deadline.   *)
(* No attempt and no drain need ever take a step.                          *)
(***************************************************************************)
FairSpec ==
    /\ Spec
    /\ WF_vars(Abandon)
    /\ \A o \in MailOf :
          /\ WF_vars(Lapse(o)) /\ WF_vars(DeadlinePasses(o))
          /\ WF_vars(ExpireDeferred(o)) /\ WF_vars(ReconcileSending(o))

(***************************************************************************)
(* An email that was deferred does not stay deferred, or being sent, for   *)
(* ever, whether or not the drain ever runs.                               *)
(***************************************************************************)
DeferralEnds ==
    \A o \in MailOf :
        row[o].status = "DEFERRED" ~> row[o].status \notin {"DEFERRED", "SENDING"}

(***************************************************************************)
(* What the comments promise of it: it is sent, cancelled, expired or out  *)
(* of attempts in the end ("14 days of expiry and 5 attempts ... are the   *)
(* only two ways an obligation ends without being sent",                   *)
(* publishing-notification-delivery.ts:855).                               *)
(***************************************************************************)
DeferralIsSettled ==
    \A o \in MailOf : row[o].status = "DEFERRED" ~> Settled(row[o])
=============================================================================
