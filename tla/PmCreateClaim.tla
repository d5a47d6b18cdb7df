---------------------------- MODULE PmCreateClaim ---------------------------
(***************************************************************************)
(* The PM create claim on one row (user_story).                            *)
(*                                                                         *)
(* A sender is one execution of a create branch (hierarchy-sync,           *)
(* story-sync, or the bulk activity): a Temporal retry of an activity, or  *)
(* a second workflow on the same row, is another sender.  It starts a send *)
(* deadline on its monotonic clock, reads the database clock, takes the    *)
(* row's claim with one conditional UPDATE, sends the create, and settles  *)
(* the claim: links the row, releases the claim after a definite non-send  *)
(* or a definite refusal, or leaves it held when an item may exist.  A     *)
(* request refused with 401 is sent once more, under the same deadline.  A *)
(* user recovers a held claim with Unlink & re-create or Link to existing  *)
(* item, acting on the row as it was loaded, and only once it is old.      *)
(*                                                                         *)
(* The senders differ: the bulk activity and the single-item branch of     *)
(* hierarchy-sync send by MCP; those in Rest call GitLab, and write the    *)
(* link once.  All compare the clock with their deadline right before the  *)
(* request; the GitHub branch, which does not, is left out.                *)
(*                                                                         *)
(* Time is one global clock.  The senders' monotonic clocks and the        *)
(* database clock are taken to run at its rate (pm-create-claim-recovery   *)
(* names that assumption); every pause between two steps is a run of Tick. *)
(***************************************************************************)
EXTENDS Naturals

CONSTANTS
    Sender,             \* senders; a sender's claim id and item are itself
    Bulk,               \* the senders that run createStoryInPmWithClaim
    Rest,               \* those that push to GitLab by REST
    User,               \* people acting on the row
    Foreign,            \* a PM item no sender creates
    NoOne,              \* null: no link, no claim
    SendTimeout,        \* PM_CREATE_SEND_TIMEOUT_MS
    RecoveryMinAge,     \* PM_CREATE_CLAIM_RECOVERY_MIN_AGE_MS
    AcquireAttempts,    \* ACQUIRE_ATTEMPTS
    LinkWriteAttempts,  \* LINK_WRITE_ATTEMPTS
    LastAsk             \* bound: no sender asks for the claim after it

ASSUME ValueAssumption ==
    /\ Bulk \subseteq Sender
    /\ Rest \subseteq Sender \ Bulk
    /\ Foreign \notin Sender
    /\ NoOne \notin Sender \cup {Foreign}

ASSUME TimeAssumption ==
    /\ SendTimeout \in Nat
    /\ RecoveryMinAge \in Nat
    /\ SendTimeout <= RecoveryMinAge

ASSUME BoundAssumption ==
    /\ AcquireAttempts \in Nat \ {0}
    /\ LinkWriteAttempts \in Nat \ {0}
    /\ LastAsk \in Nat

VARIABLES
    now,        \* the clock
    link,       \* externalId
    claim,      \* pmCreateClaimId
    claimedAt,  \* pmCreateClaimedAt; 0 when there is no claim
    run,        \* each sender's control point and locals
    request,    \* each sender's create request, as the PM tool has it
    view,       \* each user's request: the row as it was loaded
    givenUp     \* history: creates a user has given up on

rowVars == <<link, claim, claimedAt>>
vars == <<now, link, claim, claimedAt, run, request, view, givenUp>>

Item == Sender \cup {Foreign}

(***************************************************************************)
(* The last instant of a behaviour: late enough for a claim taken at       *)
(* LastAsk to become recoverable.                                          *)
(***************************************************************************)
Horizon == LastAsk + RecoveryMinAge

PC == {"idle", "clock", "take", "readBack", "send", "await", "link",
       "uncertain", "release", "held", "unconfirmed", "orphaned", "linked",
       "ended"}

At(pc, start, stamp, tries) ==
    [pc |-> pc, start |-> start, stamp |-> stamp, tries |-> tries]

(* A control point past the send: the deadline and the stamp are out of use. *)
Past(pc, tries) == At(pc, 0, 0, tries)

RunState == [pc : PC, start : Nat, stamp : Nat, tries : Nat]

NoView == [pc |-> "idle", link |-> NoOne, claim |-> NoOne, clock |-> 0]

TypeOK ==
    /\ now \in Nat
    /\ link \in Item \cup {NoOne}
    /\ claim \in Sender \cup {NoOne}
    /\ claimedAt \in Nat
    /\ run \in [Sender -> RunState]
    /\ request \in [Sender -> {"unsent", "inFlight", "created", "refused", "lost"}]
    /\ view \in [User -> [pc : {"idle", "loaded", "aged"},
                          link : Item \cup {NoOne},
                          claim : Sender \cup {NoOne},
                          clock : Nat]]
    /\ givenUp \in SUBSET Sender
    /\ claim = NoOne => claimedAt = 0

Init ==
    /\ now = 0
    /\ link \in {NoOne, Foreign}
    /\ claim = NoOne
    /\ claimedAt = 0
    /\ run = [s \in Sender |-> Past("idle", 0)]
    /\ request = [s \in Sender |-> "unsent"]
    /\ view = [u \in User |-> NoView]
    /\ givenUp = {}

(* The creates that left Fabric and that the PM tool has not refused: an item *)
(* exists, or may come to exist, for each of them.                            *)
Sent == {s \in Sender : request[s] \in {"inFlight", "created", "lost"}}
Created == {s \in Sender : request[s] = "created"}

(* The items a user can name: one made elsewhere, or one a create made. *)
Nameable == {Foreign} \cup Created

-----------------------------------------------------------------------------
(* Senders: taking the claim. *)

(* The next control point, the locals kept. *)
Onward(s, pc) == At(pc, run[s].start, run[s].stamp, run[s].tries)

(* At the n-th request or its answer: the claim's stamp is out of use. *)
Sending(s, pc, n) == At(pc, run[s].start, 0, n)

Goto(s, there) == run' = [run EXCEPT ![s] = there]

StartSendDeadline(s) ==
    /\ run[s].pc = "idle"
    /\ now <= LastAsk
    /\ Goto(s, At("clock", now, 0, 1))
    /\ UNCHANGED <<now, rowVars, request, view, givenUp>>

ReadDatabaseClock(s) ==
    /\ run[s].pc = "clock"
    /\ now <= LastAsk
    /\ Goto(s, At("take", run[s].start, now, run[s].tries))
    /\ UNCHANGED <<now, rowVars, request, view, givenUp>>

(* Mutant: the conditional UPDATE forgets the claim column. *)
ClaimableIfUnlinked == link = NoOne

Claimable == link = NoOne /\ claim = NoOne

ClaimRow(s) ==
    /\ claim' = s
    /\ claimedAt' = run[s].stamp
    /\ UNCHANGED link

TakeClaim(s) ==
    /\ run[s].pc = "take"
    /\ Claimable
    /\ ClaimRow(s)
    /\ Goto(s, Sending(s, "send", 1))
    /\ UNCHANGED <<now, request, view, givenUp>>

(* The UPDATE commits but its answer is lost: the error leaves the activity, *)
(* nothing is sent, and the claim stays held.                                *)
TakeClaimAnswerLost(s) ==
    /\ run[s].pc = "take"
    /\ Claimable
    /\ ClaimRow(s)
    /\ Goto(s, Past("ended", 0))
    /\ UNCHANGED <<now, request, view, givenUp>>

MissClaim(s) ==
    /\ run[s].pc = "take"
    /\ ~Claimable
    /\ Goto(s, Onward(s, "readBack"))
    /\ UNCHANGED <<now, rowVars, request, view, givenUp>>

ReadBack(s) ==
    /\ run[s].pc = "readBack"
    /\ \/ link # NoOne /\ Goto(s, Past("ended", 0))
       \/ link = NoOne /\ claim # NoOne /\ Goto(s, Past("held", 0))
       \/ /\ Claimable
          /\ run[s].tries < AcquireAttempts
          /\ Goto(s, At("clock", run[s].start, 0, run[s].tries + 1))
       \/ /\ Claimable
          /\ run[s].tries >= AcquireAttempts
          /\ Goto(s, Past("held", 0))
    /\ UNCHANGED <<now, rowVars, request, view, givenUp>>

-----------------------------------------------------------------------------
(* Senders: the create request.  Nothing re-reads the row before it is sent. *)

(* Mutant: the deadline is missed by one. *)
DeadlineJustPassed(s) == now > run[s].start + SendTimeout

DeadlinePassed(s) == now >= run[s].start + SendTimeout

(* The clock is compared in the same synchronous run as the request is *)
(* handed to fetch.                                                    *)
Dispatch(s) ==
    /\ run[s].pc = "send"
    /\ ~DeadlinePassed(s)
    /\ request' = [request EXCEPT ![s] = "inFlight"]
    /\ Goto(s, Sending(s, "await", run[s].tries))
    /\ UNCHANGED <<now, rowVars, view, givenUp>>

DispatchTooLate(s) ==
    /\ run[s].pc = "send"
    /\ DeadlinePassed(s)
    /\ Goto(s, Past("release", 0))
    /\ UNCHANGED <<now, rowVars, request, view, givenUp>>

(* Refused before the send: read-only mode, no tool, no authority, the *)
(* GitLab instance check, or no token to send or to resend with.       *)
RefusedBeforeSend(s) ==
    /\ run[s].pc = "send"
    /\ Goto(s, Past("release", 0))
    /\ UNCHANGED <<now, rowVars, request, view, givenUp>>

(* Any other error, the abort at the deadline among them: the caller cannot *)
(* tell whether the request left.                                           *)
ThrewBeforeSend(s) ==
    /\ run[s].pc = "send"
    /\ Goto(s, Past("unconfirmed", 0))
    /\ UNCHANGED <<now, rowVars, request, view, givenUp>>

(* The PM tool, in its own time: after Fabric stopped waiting, too.  A     *)
(* refused request (the 401 of an MCP server, a 4xx of GitLab other than   *)
(* 408) made no item and makes none later; one that is lost, or failed     *)
(* otherwise, made none, but nothing tells Fabric so.                      *)
ToolHandles(s) ==
    /\ request[s] = "inFlight"
    /\ \E outcome \in {"created", "refused", "lost"} :
           request' = [request EXCEPT ![s] = outcome]
    /\ UNCHANGED <<now, rowVars, run, view, givenUp>>

Answered(s) ==
    /\ run[s].pc = "await"
    /\ request[s] = "created"
    /\ \/ Goto(s, Past("link", 1))
       \/ Goto(s, Past("orphaned", 0))       \* no readable id in the answer
    /\ UNCHANGED <<now, rowVars, request, view, givenUp>>

(* Mutant: an error after the send counts as a definite rejection. *)
NotAnsweredReleases(s) ==
    /\ run[s].pc = "await"
    /\ Goto(s, Past("release", 0))
    /\ UNCHANGED <<now, rowVars, request, view, givenUp>>

(* A timeout, a transport failure, a 5xx, an error result from an MCP server: *)
(* the item may exist, for all Fabric knows.                                  *)
NotAnswered(s) ==
    /\ run[s].pc = "await"
    /\ Goto(s, Past("unconfirmed", 0))
    /\ UNCHANGED <<now, rowVars, request, view, givenUp>>

(* A definite refusal of a create that was sent: GitLab's 4xx, or the 401 *)
(* an MCP server gives for good.  Nothing was created.                    *)
Rejected(s) ==
    /\ run[s].pc = "await"
    /\ request[s] = "refused"
    /\ Goto(s, Past("release", 0))
    /\ UNCHANGED <<now, rowVars, request, view, givenUp>>

(* The first request was refused with 401: the token is refreshed and the *)
(* create sent once more, the same deadline compared again.               *)
Unauthorized(s) ==
    /\ run[s].pc = "await"
    /\ request[s] = "refused"
    /\ run[s].tries = 1
    /\ Goto(s, Sending(s, "send", 2))
    /\ UNCHANGED <<now, rowVars, request, view, givenUp>>

(* Mutant: the release leaves the claim's stamp behind. *)
ReleaseKeepingStamp(s) ==
    /\ run[s].pc = "release"
    /\ claim = s
    /\ claim' = NoOne
    /\ Goto(s, Past("ended", 0))
    /\ UNCHANGED <<now, link, claimedAt, request, view, givenUp>>

Release(s) ==
    /\ run[s].pc = "release"
    /\ \/ /\ claim = s
          /\ claim' = NoOne
          /\ claimedAt' = 0
          /\ UNCHANGED link
       \/ UNCHANGED rowVars    \* no longer held, or the write failed
    /\ Goto(s, Past("ended", 0))
    /\ UNCHANGED <<now, request, view, givenUp>>

-----------------------------------------------------------------------------
(* Senders: the link write, tried LinkWriteAttempts times, or once. *)

LinkTries(s) == IF s \in Rest THEN 1 ELSE LinkWriteAttempts

SettleClaim(s) ==
    /\ claim = s
    /\ link' = s
    /\ claim' = NoOne
    /\ claimedAt' = 0

LinkWrite(s) ==
    /\ run[s].pc = "link"
    /\ SettleClaim(s)
    /\ Goto(s, Past("linked", 0))
    /\ UNCHANGED <<now, request, view, givenUp>>

(* Where a failed try leads: the bulk create re-reads the row, the *)
(* single-item paths record an orphan.                             *)
AfterFailedTry(s, claimLost) ==
    IF run[s].tries < LinkTries(s) /\ ~(claimLost /\ s \in Bulk)
    THEN Past("link", run[s].tries + 1)
    ELSE Past(IF s \in Bulk THEN "uncertain" ELSE "orphaned", 0)

LinkWriteFails(s) ==
    /\ run[s].pc = "link"
    /\ \/ UNCHANGED rowVars /\ Goto(s, AfterFailedTry(s, claim # s))
       \/ SettleClaim(s) /\ Goto(s, AfterFailedTry(s, FALSE))  \* answer lost
    /\ UNCHANGED <<now, request, view, givenUp>>

(* settleUncertainLink: the row is read again. *)
SettleUncertainLink(s) ==
    /\ run[s].pc = "uncertain"
    /\ \/ link # NoOne /\ Goto(s, Past("ended", 0))
       \/ Goto(s, Past("orphaned", 0))       \* no link, or the read failed
    /\ UNCHANGED <<now, rowVars, request, view, givenUp>>

(* The outcome is recorded on the row's sync status, which this module leaves *)
(* out, and in the log; the claim is left as it is.                           *)
Recorded(s) ==
    /\ run[s].pc \in {"held", "unconfirmed", "orphaned", "linked"}
    /\ Goto(s, Past("ended", 0))
    /\ UNCHANGED <<now, rowVars, request, view, givenUp>>

(* The worker dies, or the attempt errors out, between two steps. *)
Crash(s) ==
    /\ run[s].pc \notin {"idle", "ended"}
    /\ Goto(s, Past("ended", 0))
    /\ UNCHANGED <<now, rowVars, request, view, givenUp>>

-----------------------------------------------------------------------------
(* Users.  A recovery loads the row, then writes on what it loaded. *)

(* A user's decision drops the row's link and claim: the creates behind them *)
(* that were sent are given up, except the one the row keeps.                *)
GiveUp(dropped, kept) ==
    givenUp' = givenUp \cup ((dropped \cap Sent) \ {kept})

(* Mutant: the row is loaded without its claim. *)
LoadLinkOnly(u) ==
    /\ view[u].pc = "idle"
    /\ view' = [view EXCEPT ![u] = [pc |-> "loaded", link |-> link,
                                    claim |-> NoOne, clock |-> 0]]
    /\ UNCHANGED <<now, rowVars, run, request, givenUp>>

LoadRow(u) ==
    /\ view[u].pc = "idle"
    /\ view' = [view EXCEPT ![u] = [pc |-> "loaded", link |-> link,
                                    claim |-> claim, clock |-> 0]]
    /\ UNCHANGED <<now, rowVars, run, request, givenUp>>

ReadCutoff(u) ==
    /\ view[u].pc = "loaded"
    /\ view[u].claim # NoOne
    /\ view' = [view EXCEPT ![u].pc = "aged", ![u].clock = now]
    /\ UNCHANGED <<now, rowVars, run, request, givenUp>>

(* Mutant: the age of the claim is not looked at. *)
RecoverableAtAnyAge(u) == claim = view[u].claim

(* recoverableClaimWhere: the claim that was loaded, and if held, old enough. *)
Recoverable(u) ==
    /\ claim = view[u].claim
    /\ claim # NoOne =>
          /\ view[u].pc = "aged"
          /\ claimedAt + RecoveryMinAge <= view[u].clock

CanUnlink(u)   == view[u].link # NoOne /\ link = view[u].link /\ Recoverable(u)
CanClear(u)    == /\ view[u].link = NoOne
                  /\ view[u].claim # NoOne
                  /\ link = NoOne
                  /\ Recoverable(u)
CanRelink(u)   == view[u].link = NoOne /\ link = NoOne /\ Recoverable(u)

DropRow(newLink) ==
    /\ link' = newLink
    /\ claim' = NoOne
    /\ claimedAt' = 0
    /\ GiveUp({link, claim}, newLink)

Done(u) == view' = [view EXCEPT ![u] = NoView]

(* Unlink & re-create on a linked row (applyPmUnlink). *)
UnlinkAndRecreate(u) ==
    /\ view[u].pc # "idle"
    /\ CanUnlink(u)
    /\ DropRow(NoOne)
    /\ Done(u)
    /\ UNCHANGED <<now, run, request>>

(* Unlink & re-create on an unlinked row whose claim is held. *)
ClearPmCreateClaim(u) ==
    /\ view[u].pc # "idle"
    /\ CanClear(u)
    /\ DropRow(NoOne)
    /\ Done(u)
    /\ UNCHANGED <<now, run, request>>

(* Link to existing item (applyPmLink). *)
LinkToExisting(u) ==
    /\ view[u].pc # "idle"
    /\ CanRelink(u)
    /\ \E i \in Nameable : DropRow(i)
    /\ Done(u)
    /\ UNCHANGED <<now, run, request>>

(* Accepting an unlink in the Review Center, and the fenced clear of a       *)
(* "Push & relink" migration: scoped to the link, leaving the claim alone.   *)
UnlinkOnly(u) ==
    /\ view[u].pc # "idle"
    /\ view[u].link # NoOne
    /\ link = view[u].link
    /\ link' = NoOne
    /\ GiveUp({link}, NoOne)
    /\ Done(u)
    /\ UNCHANGED <<now, claim, claimedAt, run, request>>

(* A recovery that matched nothing (stale, or the claim is too recent). *)
Refused(u) ==
    /\ view[u].pc # "idle"
    /\ view[u].claim # NoOne => view[u].pc = "aged"
    /\ ~CanUnlink(u)
    /\ ~CanClear(u)
    /\ Done(u)
    /\ UNCHANGED <<now, rowVars, run, request, givenUp>>

(* The story update API writes externalId by id, with no fence. *)
EditLink(u) ==
    /\ view[u].pc = "idle"
    /\ \E i \in (Nameable \cup {NoOne}) \ {link} :
           /\ link' = i
           /\ GiveUp({link}, i)
    /\ UNCHANGED <<now, claim, claimedAt, run, request, view>>

-----------------------------------------------------------------------------
Tick ==
    /\ now < Horizon
    /\ now' = now + 1
    /\ UNCHANGED <<rowVars, run, request, view, givenUp>>

SenderStep(s) ==
    \/ StartSendDeadline(s) \/ ReadDatabaseClock(s)
    \/ TakeClaim(s) \/ TakeClaimAnswerLost(s) \/ MissClaim(s) \/ ReadBack(s)
    \/ Dispatch(s) \/ DispatchTooLate(s)
    \/ RefusedBeforeSend(s) \/ ThrewBeforeSend(s)
    \/ Answered(s) \/ NotAnswered(s) \/ Rejected(s) \/ Unauthorized(s)
    \/ Release(s)
    \/ LinkWrite(s) \/ LinkWriteFails(s) \/ SettleUncertainLink(s)
    \/ Recorded(s) \/ Crash(s)

UserStep(u) ==
    \/ LoadRow(u) \/ ReadCutoff(u)
    \/ UnlinkAndRecreate(u) \/ ClearPmCreateClaim(u) \/ LinkToExisting(u)
    \/ UnlinkOnly(u) \/ Refused(u) \/ EditLink(u)

Next ==
    \/ Tick
    \/ \E s \in Sender : SenderStep(s) \/ ToolHandles(s)
    \/ \E u \in User : UserStep(u)

Spec == Init /\ [][Next]_vars

-----------------------------------------------------------------------------
(* Properties. *)

(* A sender that may hand a create to the PM tool, or hand it over again. *)
CanStillSend(s) ==
    run[s].pc \in {"send", "await"} /\ ~DeadlinePassed(s)

(***************************************************************************)
(* Until its deadline a sender that may send, or send again after a 401,   *)
(* holds the row's claim, although nothing re-reads the row before either  *)
(* request: a recovery never clears a claim its holder may still act on    *)
(* (the argument of PM_CREATE_CLAIM_RECOVERY_MIN_AGE_MS).                  *)
(***************************************************************************)
SendNeedsClaim == \A s \in Sender : CanStillSend(s) => claim = s

(***************************************************************************)
(* A create that was sent and that the PM tool has not refused is, until a *)
(* user gives up on it, the row's link or the holder of its claim: no      *)
(* crash, lost answer, late completion, resend or failed link write leaves *)
(* a possible item behind a row that is free to create another.            *)
(***************************************************************************)
SentCreatesAreHeld ==
    \A s \in Sent \ givenUp : claim = s \/ link = s

(***************************************************************************)
(* What pm-create-orphan and the single-item create branch say of a create *)
(* they are about to record as an orphan: until a user gives it up, its    *)
(* row keeps the claim, and so is not linked.                              *)
(***************************************************************************)
OrphanKeepsClaim ==
    \A s \in Sent \ (givenUp \cup Bulk) : run[s].pc = "orphaned" => claim = s

(***************************************************************************)
(* The protocol keeps the promise of PmCreateOnce: a create is sent only   *)
(* when every create sent before it was refused by the PM tool or given up *)
(* by a user.                                                              *)
(***************************************************************************)
Once == INSTANCE PmCreateOnce WITH sent <- Sent
CreatesOnce == Once!Spec

-----------------------------------------------------------------------------
(* The inductive invariant behind the three (PmCreateClaimProofs). *)

(* Each reading of the clock is in the past, and the claim's stamp follows   *)
(* its holder's start; so a claim old enough to be cleared has an expired    *)
(* holder, and a sender that lost its claim is past its deadline.            *)
ClocksInOrder ==
    /\ \A s \in Sender :
         /\ run[s].pc \in {"clock", "take", "readBack"} => run[s].start <= now
         /\ run[s].pc = "take" => /\ run[s].start <= run[s].stamp
                                  /\ run[s].stamp <= now
         /\ run[s].pc \in {"send", "await"} =>
                IF claim = s THEN run[s].start <= claimedAt
                             ELSE DeadlinePassed(s)
    /\ \A u \in User : view[u].clock <= now

(* A claim belongs to a sender that asked for it, and only a sender past *)
(* the send has a create out.                                            *)
ClaimsAndSends ==
    \A s \in Sender :
        /\ claim = s \/ s \in givenUp =>
              run[s].pc \notin {"idle", "clock", "take", "readBack"}
        /\ s \in Sent => run[s].pc \in {"await", "link", "uncertain", "orphaned",
                                        "unconfirmed", "linked", "ended"}

(* Only an item that exists is linked, or about to be. *)
ItemsAreLinked ==
    \A s \in Sender : link = s \/ run[s].pc = "link" => s \in Created

(* A create that was given up is done for: its claim is gone, or its item is *)
(* there and it was the item that was dropped.                               *)
GivenUpForGood == \A s \in givenUp : claim = s => s \in Created

(* A row linked to a live create is not claimed by anybody else. *)
LinkExcludesClaim ==
    \A s \in Sent \ givenUp : link = s => claim \in {NoOne, s}

IndInv ==
    /\ TypeOK
    /\ ClocksInOrder
    /\ ClaimsAndSends
    /\ ItemsAreLinked
    /\ GivenUpForGood
    /\ LinkExcludesClaim
    /\ SentCreatesAreHeld

-----------------------------------------------------------------------------
(***************************************************************************)
(* Liveness: time passes, and users keep trying Unlink & re-create.  Strong *)
(* fairness is that persistence: a user may also unlink, relink or edit the *)
(* link in between, but not each time.  Senders need no fairness: one that  *)
(* stopped mid-way is the case the recovery exists for.                     *)
(***************************************************************************)
Recover(u) == UnlinkAndRecreate(u) \/ ClearPmCreateClaim(u)

FairSpec ==
    /\ Spec
    /\ WF_vars(Tick)
    /\ \A u \in User : /\ WF_vars(LoadRow(u))
                       /\ WF_vars(Refused(u))
                       /\ SF_vars(ReadCutoff(u))
                       /\ SF_vars(Recover(u))

(***************************************************************************)
(* A held claim never wedges the row: whatever became of its holder, a     *)
(* user who keeps trying Unlink & re-create gets it cleared.               *)
(***************************************************************************)
HeldClaimIsCleared == claim # NoOne ~> claim = NoOne
=============================================================================
