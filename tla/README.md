# Fabric Portal in TLA+

Fabric Portal (`src/`) is a multi-tenant product-management platform: a Next.js
web application, oRPC procedures over PostgreSQL, Temporal workflows and
workers, AI agents, and integrations with PM tools (Jira, Azure DevOps, GitLab,
Linear and others). This directory models the parts of it whose correctness
depends on the order in which processes, messages and failures interleave,
checks them with TLC, and proves their main invariants with TLAPS.

What is modelled so far:

- how Fabric pushes a story to a PM tool without ever creating two items for it,
  and how the sync status shown to the user stays honest while syncs overlap,
  fail and are retried;
- how the Glossy edition of a document is built, rebuilt and edited by runs,
  late activities and editors that race each other;
- how the members of a project are told, once each, that publishing topics are
  ready, over bells and emails that fail, are deferred and are retried;
- how requests share, replace and close the child processes of the MCP STDIO
  wrapper;
- how a project's instructions follow their repository, while polls, push
  webhooks, sync runs and members write one schedule.

## 1. Inventory

| Component | State | Operations | Hard behaviour | What makes it correct |
|---|---|---|---|---|
| PM create claim (`pm-create-claim.ts`, `create-story-in-pm-with-claim.ts`, `gitlab-rest-story-sync.ts`, `pm-create-claim-recovery.ts`) | `externalId`, `pmCreateClaimId`, `pmCreateClaimedAt` on the row | acquire, send before the deadline, release, settle with the link write, recover | creates with lost answers; definite refusals and resends; activity retries; a sender paused anywhere; recoveries on a stale page | no second item unless the first create was refused or a user gave up on it; no row wedged |
| PM sync attempts (`enqueue-pm-sync-core.ts`, `pm-sync-start.ts`, `pm-sync-attempt-fence.ts`, `record-pm-sync-state.ts`, `pm-sync-single-story-workflow.ts`) | `lastPmSyncStatus`, `lastPmSyncAttemptId`, `pmSyncPendingSince`, one Temporal workflow per row | enqueue, start, settle a failed start, push, stamp, clear | late starts, attached starts, timed-out executions running beside their retry | SUCCESS only for content that was pushed; a newer enqueue is never settled by an older run |
| Stuck-sync watchdog (`pm-sync-stuck-watchdog*.ts`, `find-stuck-pm-sync.ts`) | none of its own; a scan result in flight | scan, probe, retry, give up | acts on stale scans; its retries must not move the give-up bound | every PENDING is settled; nothing settled is re-armed |
| Link to existing item, Unlink & re-create, merge (`apply-pm-link.ts`, `apply-pm-unlink.ts`, `duplicate-links.ts`) | the same row | link, unlink, clear the claim, transfer | user decisions racing pushes | decisions only on what the user saw |
| Test-case PM create and sync | the `test_case` row | as for stories | as for stories, and soft deletion | as for stories |
| Glossy edition builds (`glossy-editions.ts`, `dispatch-glossy-build.ts`, `glossy-edition-build.ts` and its activities, `regenerate-visual.ts`) | the edition's `currentBuildId`, `publishedBuildId`, `contentRevision` and content; a row and a heartbeat per build attempt; the segment cache; one Temporal run per attempt | claim, reclaim, heartbeat, cache write, finalize, fail, release, regenerate a visual | a stale holder that is alive; a start whose answer is lost; an activity that writes after Temporal gave up on it; transactions that lock the same rows in several orders | one holder; only the holder publishes; nobody holds forever; no regenerated visual lost; no deadlock |
| Publishing notifications (`notify-topics-ready.ts`, `publishing-notification-delivery.ts`, `-outcome.ts`, `-drain.ts`, `-reconcile.ts`) | the cycle's outcome and its version; one ledger row per recipient and channel, with lease, attempt count and deadline | deliver a bell, claim, send, confirm, fail or defer an email, skip, close the cycle, drain, expire, reclaim, abandon | overlapping attempts; a lease that lapses during a send; late confirmations; a close racing a slow attempt | each bell once; no obligation lost; SENT is true; the outcome is true |
| Instruction repository sync and poll (`instruction-repository-sync.ts`, `project-instruction-repository-poll.ts`, `push-trigger.ts`, `project-instruction-repository-sync.ts`) | one row per project: generation, delegate, automatic flag, pause, cursors, re-check request, and `nextCheckAt`, which is the schedule and the poll's lease; a receipt per run | claim, check, deliver a push, start a run or leave a request, begin, acquire, complete, reap, configure, disconnect | a check that outlives its lease; a request left for a run that is just completing; completions derived before a pause, a re-enable or another completion; lost start answers; terminated runs | a check writes only to the row it was given; a live row is always scheduled; a pushed commit is never slept on |
| MCP STDIO process pool (`process-pool.ts`, `server.ts`, `stdio-transport.ts`) | processes by key, pending creations, leases, retired set | reuse, join, create, add, remove, release, clean up, shut down | replacement and eviction under a lease; requests that join a creation; a shutdown with creations in flight | closed once, never in use, never forgotten; only with the request's own credentials |
| Adaptive scan concurrency | window, cooldown, queue | dispatch, success, rate limit, requeue | bursts of 429 | no chunk lost; one cut per window |
| Backlog apply, background jobs, document generation and their watchdogs | job rows, heartbeats | claim, work, sweep | sweeper against a slow worker | one outcome per job |
| Coding runs, approvals, agent supervisor, newsletter, context sync, member cascade, real-time rooms | workflow state | see the source | mostly in services outside the repository | - |

The components interact through the database row and through Temporal. A
caller (API procedure, activity, watchdog) stamps the row PENDING under a fresh
attempt id and asks Temporal for the row's workflow; the workflow's activity
pushes an update, or takes the create claim and creates the item; status writes
come back to the row under the attempt id; users act on the row at any time.
The Glossy and publishing components have the same shape, a claim in the
database and runs in Temporal, on tables of their own; they share no state with
the PM components. The process pool is a process of its own, called over HTTP.

`PROJECT.json` lists every component with its status, and every hazard of this
code with the properties that cover it.

## 2. Modules

| Module | What it is |
|---|---|
| `PmCreateOnce` | The abstract promise: a create is sent only when every create sent before it was refused by the PM tool or given up by a user. |
| `PmCreateClaim` | The claim protocol on one row: senders, the PM tool, users, time. Implements `PmCreateOnce`. |
| `PmCreateClaimProofs` | Its theorems. |
| `PmSyncAttempts` | The sync status of one row: callers, Temporal's run, executions of the activity, the watchdog, users. |
| `MCPmSyncAttempts` | Symmetry for TLC. |
| `PmSyncAttemptsProofs` | Its theorems. |
| `GlossyPublication` | The abstract promise: one holder at a time, only the holder publishes, regenerated visuals are added one by one to the content they were made for. |
| `GlossyTransactions` | The database transactions on one edition, statement by statement, with row locks. Implements `GlossyPublication`. |
| `MCGlossyTransactions` | Symmetry for TLC. |
| `GlossyTransactionsProofs` | Its theorems. |
| `GlossyBuilds` | Build requests, starts, runs, late executions and time, each transaction one step. Implements `GlossyPublication` too. |
| `GlossyBuildsProofs` | Its theorems. |
| `PublishingDelivery` | Notify attempts, drains and the sweep on one cycle's obligations. |
| `MCPublishingDelivery` | Symmetry for TLC. |
| `PublishingDeliveryProofs` | Its theorems. |
| `ProcessPool` | The pool, its requests, its processes, its cleanup and shutdown. |
| `ProcessPoolProofs` | Its theorems. |
| `InstructionSync` | One project's sync row: checks, deliveries, runs, members, time. |
| `InstructionSyncProofs` | Its type invariant and the lease. |
| `InstructionSyncHeadProofs` | That no commit handed over is slept on. |

### 2.1 PmCreateClaim

A *sender* is one execution of a create branch. A Temporal retry of an activity
or another workflow on the row is another sender. Its `pc` follows the create
branches step by step:

    idle -StartSendDeadline-> clock -ReadDatabaseClock-> take
    take -TakeClaim-> send            take -MissClaim-> readBack -> clock | held | ended
    send -Dispatch-> await            send -DispatchTooLate, RefusedBeforeSend-> release
    await -Answered-> link | orphaned await -NotAnswered-> unconfirmed
    await -Rejected-> release         await -Unauthorized-> send
    link -LinkWrite-> linked          link -LinkWriteFails-> link | uncertain | orphaned

Every step that is one database statement in the code is one action; between
two of them anything can happen, including `Tick` and `Crash`. The create
request is a variable of its own (`request`): the PM tool handles it when it
likes, after Fabric stopped waiting too. It creates the item (`"created"`),
refuses definitely (`"refused"`: a 4xx other than 408, or the 401 of an MCP
server), or does neither in a way Fabric can tell (`"lost"`).

What an error after the send does to the claim depends on what it proves. A
definite refusal releases it (`Rejected`, `isDefiniteGitLabCreateRejection`),
and the next attempt may create without any user. Everything else keeps it
(`NotAnswered`). A request refused with 401 is sent once more with a refreshed
token (`Unauthorized`): the deadline is compared again, and the claim is still
the one taken before the first request.

The senders differ, and the constants say which is which:

- `Bulk`, the bulk activity: sends by MCP; a lost claim ends the link loop, then
  the row is read again.
- the others outside `Rest`, the single-item branch of `hierarchy-sync.ts`:
  sends by MCP; all link tries are used, then an orphan is recorded.
- `Rest`, the branch of `gitlab-rest-story-sync.ts` that pushes to GitLab: the
  link write is tried once (`LinkTries`).

All of them compare the clock with the deadline in the same synchronous run as
the fetch (`throwIfDispatchDeadlinePassed`), which is why `Dispatch` is one
step. The GitHub branch does not, and is left out (section 6).

A *user* loads the row (`LoadRow`), reads the recovery cutoff (`ReadCutoff`)
and writes on what was loaded, with the code's `where` (`Recoverable`,
`CanUnlink`, `CanClear`, `CanRelink`). `UnlinkOnly` is the writer that leaves
the claim alone; `EditLink` is the story update API, which writes the link with
no fence at all.

`givenUp` is history: the sent creates that a user's decision dropped, those that
were refused by then not counted. It is the only thing the abstract
specification knows of users.

### 2.2 PmSyncAttempts

An attempt id is a number given out in order; 0 is null. `Enqueue` is the stamp
of `enqueuePmSyncCore` with its checks abstracted (a call that returns before
the stamp changes nothing, except `NoConfig`). The start is three separate
things, its sending, Temporal's taking it (`TakeStart`, with USE_EXISTING and
ALLOW_DUPLICATE), and its answer, so a start can be lost, late, or fail towards
the caller and still run. `run` is the open run under the row's workflow id,
`exec[w]` an execution of `syncWorkItemToPM`. `SyncTimesOut` lets the run go on
while the execution does too.

The status writers are kept apart by their fence, as in the code:
`WriteForAttempt` (a run's SUCCESS, CONFLICT, FAILED), `WriteIfPendingFor`
(compensation, give-up, the leaked-PENDING clear), by id (orphaned and
unconfirmed creates), and on any row that is not PENDING for an attempt
(`UnattemptedStatus`).

The watchdog's tick is `Scan`, then `GiveUp`, or `Probe` and `SkipLive` or
`DispatchRetry`; the retry itself is a caller (`Retry`) that may run late.
Times are ages, counted up to the first value past the limit they are compared
with, so that the model is finite without a horizon.

Three history variables serve the properties: `covered` (content as new as the
last enqueue reached the PM tool), `by` (who wrote the settled status), and
`age` (how long ago the last enqueue was).

### 2.3 GlossyTransactions and GlossyBuilds

The edition is modelled at two levels, which meet in `GlossyPublication`.

`GlossyTransactions` takes the queries of `glossy-editions.ts` apart. A
connection (`Tx`) runs one transaction at a time; its `pc` is the next statement
(`ensure`, `attempt`, `edition`, `cache`, `others`, `commit`), `locks` the rows
it holds. A statement whose WHERE finds its row waits until the row is free and
tests the WHERE again (`LockAttempt` and `LockEdition` are enabled only when
both hold); one whose WHERE finds nothing goes on at once (`MissAttempt`,
`MissEdition`). Writes become visible at the commit actions. Any attempt may
issue any of its transactions at any time, so late and doubled ones are
included without saying where they come from.

`GlossyBuilds` says where they come from. `request[e]` follows
`dispatchGlossyBuild`: claim, read the holder, ask Temporal about a stale one
(`ProbeGone`, `ProbeLive`, `ProbeUnknown`), claim again to retire it, start the
run, and release the claim when the start throws. `run[b]` follows the
workflow; each activity begins with `guardBuild` (`Guarded`). `late` is the set
of activity executions that have passed their checks and have yet to write:
they write when they like, after their run's end too. Heartbeats are ages.

### 2.4 PublishingDelivery

An execution of the notify activity (`Attempt`) reads the cycle (`Begin`),
resolves its recipients (`Resolve`), walks over bells, then over emails, and
closes. Every creating transaction is two steps, `Fence` (the project row's
lock and `creationFenceVerdict`) and the write (`Deliver`, `RecordFailure`,
`Defer`, `Claim`), so that whoever does not take that lock acts in between.
`Send` is the provider's call: the message may be accepted although the call
fails. `Confirm` and `Fail` compare the claim's token. An execution of the drain
(`Drain`) reads a deferred row, then skips or takes it in a later statement; the
sweep's statements (`Abandon`, `ExpireDeferred`, `ReconcileSending`) come at any
time. A lease may lapse (`Lapse`) and a deadline pass (`DeadlinePasses`) at any
time.

Tokens are fresh in the code. An execution remembers only its last claim, so
the model names a token by the execution that holds it.

### 2.5 ProcessPool

The wrapper is single-threaded, so an action is what runs from one await to the
next. `Reuse`, `Join` and `Create` are the three ways through `getOrCreate`;
`FactoryAnswers` is everything between the factory's answer and the creator's
return: the leases of all who joined, `add` with its comparison of versions, its
replacement and its eviction, and the end of the pending entry. `Failed` takes
the process out of the pool in the request's catch, `Release` returns the lease
in its finally. `Shutdown`, `Clear` and `Exit` are the pieces of `shutdown`
between its awaits.

### 2.6 InstructionSync

`row` is the sync row. Of `nextCheckAt` the code only ever asks whether it is
null, whether it has passed, and whether it is still the value a claim wrote; so
the model keeps exactly that: `None`, `"due"`, `"soon"` (about a tick ahead),
`"later"` (a schedule ahead), or the name of the check whose lease it is.
`ComeDue` may pass any of them at any time, which is also how a lease ends under
its holder. The cursors of an older generation never match, so `Evaluate`, the
reset of a reconfiguration, just clears them.

A check (`Check`) claims the row, reads the lease (`ReadLease`: `Holds` is
`repositorySyncLeaseFenceSql`), asks for the branch's head, reads the lease again
and starts a run; what it has to write in the end waits in `asker[c].write` for
`FencedWrite`. A delivery of the webhook (`Delivery`) decides from the row it
read and does the same start, without a lease. When the start is refused because
a run is open, `DescribeRun`, `RecordPendingHead` and `SettlePendingHead` are the
three statements of `instruction-sync-start.ts` and its callers, with anything
in between; `StartAnswerLost` registers a run whose caller believes it failed.

A run is at most one per project (`Register`), from a poll, a push, a member or
a direct commit. `LoadRow` and `Begin` are the read and the insert of `begin`
with its refusals and the lifted pause; `BeginLost` is an attempt that ended
after the insert. `Acquire` stands for the fetch, the snapshot and its outcome:
the effect is any the outcome table (`deriveSyncRunOutcome`, `Recording`) allows
the trigger. `Complete` is the completion transaction, shared by `Record` and
the reaper (`Reap`).

Two history variables serve `NoHeadIsForgotten`: `taken`, the newest commit that
someone read, or failed to read, under the current configuration, `None` while
one that was handed over waits for that; and `stolen` (below).

## 3. Properties and runs

| Run | Instance | Checks | Shows |
|---|---|---|---|
| `claim` | a bulk sender by MCP and a single-item one by GitLab, one user, timeouts and tries of 2 | `TypeOK`, `SendNeedsClaim`, `SentCreatesAreHeld`, `IndInv`, `CreatesOnce`, `HeldClaimIsCleared` | the claim protocol keeps its promise under every interleaving, crash, refusal, resend and lost answer, and no held claim wedges the row |
| `orphan_keeps_claim` | one single-item sender, three tries | `OrphanKeepsClaim`, violated | see 5.1 |
| `attempts` | one caller, two executions, two enqueues | `SuccessIsCovered`, `IndInv` | SUCCESS is honest, and the invariant the proofs rest on |
| `watchdog_live` | no worker, give-up after 2, two enqueues | `BoundIsTheEnqueues`, `OnlyEnqueuesArm`, `PendingIsSettled` | no row is "Syncing" forever; the bound is neither moved by retries nor inherited; a stale scan re-arms nothing |
| `glossy_transactions` | three connections, two attempts, two visuals | `IndInv`, `NoDeadlock`, `NeverBroken`, `CacheWrittenWhileHeld`, `PublicationSpec` | the transactions cannot deadlock, never meet a broken invariant, and do what an edition promises |
| `glossy_builds` | two editors, two attempts, one fault | `IndInv`, `RowsAgree`, `ResultIsTrue`, `LiveRunKeepsClaim`, `PublicationSpec`, `EditionIsFreed` | a live run keeps its claim, reported results stay true, no attempt holds the edition forever |
| `publishing` | two attempts, one bell, one email | `BellsAreHonest`, `NothingIsStranded` | each bell rings once, the outcome agrees, nothing is added behind a close |
| `publishing_lifecycle` | one attempt, two drains, one email, attempt bound 2 | `IndInv`, `SentWasAccepted`, `ClaimsEndProperly`, `SettledForGood`, `DeferralEnds` | the life of a deferred email |
| `publishing_stranded` | one attempt, one drain, one email | `DeferralIsSettled`, violated | see 5.2 |
| `process_pool` | two requests, two keys, two credentials, capacity 1, two creations | `IndInv`, `LeasedIsOpen`, `NothingLeaks`, `OwnCredentials`, `RetiredIsClosed` | leases protect a process, and nothing is forgotten |
| `pool_shutdown` | two requests, one key | `ShutdownClosesAll`, violated | see 5.3 |
| `instruction_sync` | one check, one delivery, one run, two generations, two commits | `IndInv`, `NoHeadIsForgotten`, `LeasedWritesAreFresh` | the lease is a fence, a live row is scheduled, a commit handed over is read |

Every property is also run against a plausible bug of the code (the definitions
headed "Mutant" in the modules): the claim UPDATE without the claim column, a
deadline missed by one, a release after an unproven failure, a fence that does not read the outcome again, a confirmation that does not
compare its token, a joined request without a lease, and so on. TLC finds each.

### Bounds, and why they are enough

- `LastAsk` ends the behaviours of `PmCreateClaim`: no sender asks for the
  claim after it, and the clock runs `RecoveryMinAge` past it, so that every
  claim can still become recoverable. With a timeout and an age of 2, a sender
  can be paused before, at and past each limit. Two senders show every race on
  the claim, since only one can hold it; the theorems cover any number and any
  mix of kinds. `LastAsk` of 1 lets a sender ask before and after a tick, so
  that its start and the stamp of its claim differ.
- `MaxEnqueues` bounds enqueues and merge transfers. Two are needed for an
  older run to meet a newer attempt; the watchdog's retries are not counted,
  so more attempts than that are under way. One caller is at work at a time, but
  a caller can die and leave its start request behind, so starts of several
  attempts coexist. Two executions are needed for a timed-out one beside its
  retry.
- `attempts` has both ages at 0, so that its watchdog gives up whatever it
  scans; retries need a give-up age of 2 and are run without workers, in
  `watchdog_live`. Retries beside working executions are covered by the
  theorems, which hold for any workers and ages.
- `GlossyTransactions`: three transactions at once are the fewest in which two
  share a lock that a third waits for, and in which a circle of three could
  form; two attempts give a finished or published one and a holder. A
  transaction locks at most one attempt row but for the deletes of a finalize,
  one of which is under way at a time. Three attempts (1.3 million states) were
  explored as well, with no violation.
- `GlossyBuilds`: two editors, so that a claim and a reclaim race; two attempts,
  so that an older build's late writes meet a newer holder; `MaxFaults` counts
  crashes, lost messages and unknown answers, while late executions, failures
  and timeouts are not counted. `StaleAfter` and `RequestBound` of 1 put a
  request's clock on both sides of the staleness limit. `EditionIsFreed` is
  about every attempt but the last the bound allows, which nobody can replace.
- `PublishingDelivery`: two attempts, one bell and one email show the races of
  creation and close (attempt bound 1); two drains and an attempt on one
  email show those of the lifecycle (attempt bound 2, so that a row is both
  below and at it). Rows interact only through the cycle's outcome.
  `MaxVersion` of 2 allows a failed resolution before the terminal write.
- `ProcessPool`: a capacity of 1 with two keys makes every creation an
  eviction or a replacement; two creations race on a key, two requests share a
  process.
- `InstructionSync`: one check and one delivery race each other, a run and
  members; two generations and two commits give everything an older and a newer
  one. The run bound of 1 means that no second run follows; two runs of one
  configuration (`MaxRun` 2, `MaxGeneration` 1) were explored as well, with
  1.9 million states and no violation, and the theorems cover any number.
- Symmetry is used only in `attempts`, `glossy_transactions` and `publishing`,
  which check safety only; the members of each permuted set are never told
  apart.
- `CHECK_DEADLOCK FALSE` where the system may stop: past the horizon of a
  bound with every process ended, after a cycle is settled, after the wrapper
  exited, after the row of `instruction_sync` is deleted. In `glossy_transactions` idle connections with all claims used may
  stop too; deadlock between transactions is the property `NoDeadlock`.

### Fairness

`PmCreateClaim!FairSpec`: time passes, and a user keeps trying Unlink &
re-create (weak fairness on loading and on being refused, strong on the two
steps of the recovery, which another write can disable again and again). No
sender is fair: a holder that stopped is the case the recovery exists for. With
two users who keep undoing each other's work the property would not hold, so
the run has one.

`PmSyncAttempts!FairSpec`: time, the watchdog's scan and its step on a row.
Strong fairness of `GiveUp` stands for the order of a tick: overdue rows are
listed and drained first (`findStuckPmSyncItems`, `pmSyncStuckWatchdogWorkflow`),
so a tick that runs out of budget does not defer them each time. Nothing else
is fair: the property holds with the workers down and every start lost.

`GlossyBuilds!FairSpec`: time, the steps of a request, the arrival of a start
that is on its way, Temporal's execution timeout, and an editor who asks again.
No step of a run or an activity is fair: the property is about runs that die.

`PublishingDelivery!FairSpec`: time and the hourly sweep's statements
(`publishing-notification-reconcile.ts` is a scheduled workflow). No attempt and
no drain is fair.

`ProcessPool!FairSpec`: a request that has a process ends, by its answer, its
timeout or its process's exit; its finally runs; a close ends, since
`StdioTransport.close` kills a child that does not exit.

## 4. What is proved

For every value of the constants, from the assumptions named in the modules
(`ValueAssumption`, `TimeAssumption`, `BoundAssumption`; `AgeAssumption`;
`ClaimsAssumption`; `TimesAssumption`; `PoolAssumption`; the two
`BoundsAssumption`s). Beyond the types of the constants these ask
`SendTimeout <= RecoveryMinAge` of the claim, `RequestBound <= StaleAfter` of
the Glossy requests (a request takes seconds, the code's staleness limit is 20 minutes), a positive
attempt bound of the emails and a positive capacity of the pool, a finite set of
requests there, and that `None` is none of the values it stands beside. Every
invariant and every action property the passing runs check is proved. The
instances of section 3 are small because TLC must enumerate them; the theorems
are about any number of senders, runs, transactions, requests, checks and the
rest.

**The claim** (`PmCreateClaimProofs`): `TypeCorrect`, `InvHolds`,
`SendNeedsClaimHolds`, `SentCreatesAreHeldHolds` and `ImplementsOnce`.

`SendNeedsClaim` is not inductive: nothing in it prevents a recovery from
clearing the claim of a sender that may still send. The argument is the one of
`pm-create-claim-recovery.ts`: a sender starts its deadline before it reads the
clock for the claim's stamp, so `start <= claimedAt`; a recovery's cutoff was
read in the past, so `claimedAt + RecoveryMinAge <= view.clock <= now`; with
`SendTimeout <= RecoveryMinAge` the deadline has passed. `ClocksInOrder` states
those orders, and that a sender anywhere between its claim and the answer, a
resend included, is past its deadline if it has lost the claim.
`ClaimsAndSends` ties claims and requests to control points; a create that may
exist is one whose sender is past the send, so a release, which comes before it
or after a refusal, forgets nothing. `ItemsAreLinked` says that only an item
that exists is linked, `LinkExcludesClaim` that a row linked to a live create is
claimed by nobody else, which the link write and the unfenced edits need. Their
conjunction with `GivenUpForGood`, `SentCreatesAreHeld` and the type invariant is
`IndInv`.

`ImplementsOnce` then follows: at `Dispatch` the sender holds the claim, so by
`SentCreatesAreHeld` and `LinkExcludesClaim` every earlier create was
refused or given up, and by `GivenUpForGood` its own was not given up before. A refusal is a step of its own in `PmCreateOnce` (`Refuse`): it is
what lets the same sender (after a 401) or another one send without any user.

`TimeAssumption` asks only `SendTimeout <= RecoveryMinAge`; the code's values
are 50 seconds and 5 minutes, the slack being for clocks whose rates differ,
which the model has not.

**The attempt fence** (`PmSyncAttemptsProofs`): `TypeCorrect`, `InvHolds`,
`SuccessIsCoveredHolds`, `BoundIsTheEnqueuesHolds`, `OnlyEnqueuesArmHolds`.

`SuccessIsCovered` needs to know what an execution that still matches the row's
attempt has read. `ExecutionsAreCurrent`: while the row names an execution's
attempt, the execution pushed content that covers the last enqueue, or read the
row since, or will find the row linked and skip. It holds because every action
that brings new content gives the row a fresh id (`AttemptsAreFresh`), clears
it, or happens on a row whose executions cannot push. `BoundIsTheEnqueues`
needs that the watchdog's copy of the bound is the row's while the attempt is
(`BoundsAreCurrent`). `OnlyEnqueuesArm` follows from the guard of each stamp.

Each proof has a lemma or a step per action, and below it one per conjunct the
action can disturb.

**The edition's transactions** (`GlossyTransactionsProofs`): `InvHolds`,
`NeverBrokenHolds`, `CacheWrittenWhileHeldHolds`, `NoDeadlockHolds` and
`ImplementsPublication`.

What a WHERE found true of a row stays true while the row is locked. That is the
whole argument, and `IndInv` is what makes it one: locks exclude each other
(`LocksExclude`), a transaction holds only the rows of its function and only
from the statement on that takes them (`LocksInOrder`), and each fact a later
statement relies on is stated with the lock that protects it
(`AttemptIsAsTested`, `EditionIsAsTested`, `ReadIsAsRevised`). The edition row is
held by one transaction at a time and every commit but a cache write's holds it,
so `NeverBroken` and the refinement follow at the commits; a cache write holds
the attempt's row instead, which whoever takes the claim away must write.

`NoDeadlock` goes down the statements. In a circle nobody waits at the last
statement of a finalize: whoever has locked one of the finished attempts it
deletes is itself before the edition's UPDATE, which it will miss, so it waits
for nothing. Then nobody waits for the cache row, whose holders are past it;
then nobody for the edition row; and before that no row is locked.

**The edition's builds** (`GlossyBuildsProofs`): `InvHolds`, `RowsAgreeHolds`,
`ResultIsTrueHolds`, `LiveRunKeepsClaimHolds` and `ImplementsPublication`.

A request that takes over a claim tested three things at three times: the
heartbeat it read, Temporal's answer, and the `heartbeatAt` of its UPDATE. The
invariant says what of this is still true at the UPDATE: the holder is gone
still, or it was registered so late that its heartbeat is younger than
`StaleAfter` plus the request's own age (`RequestInOrder`), and a start under way
has a young attempt (`StartsAreYoung`). With `RequestBound <= StaleAfter` a
holder that is stale by the request's clock is therefore gone and has no start
on its way. `ResultIsTrue` needs only that attempts are numbered in the order of
their claims and the published one is older than the holder
(`AttemptsAreNumbered`).

**Publishing** (`PublishingDeliveryProofs`): `InvHolds`, `BellsAreHonestHolds`,
`NothingIsStrandedHolds`, `SentWasAcceptedHolds`, `SettledForGoodHolds` and
`ClaimsEndProperlyHolds`.

Who is about to create or write a row has the project's lock and saw the cycle
open; the close needs the same lock, so it comes before or after, never between
(`ExecInOrder`). A row has a token exactly while somebody is to answer for it,
and an execution inside the provider's call either holds the row's claim, and
then the row is SENDING, or has lost it for good (`RowInOrder`). After the close
only drains hold claims (`ClaimsAreDrains`), and a drain claims only rows that
have a deadline: that is why a row that is SENDING when its lease lapses is
still found by the sweep. `NothingIsStranded` without this is not inductive.

**The pool** (`ProcessPoolProofs`): `InvHolds`, `LeasedIsOpenHolds`,
`NothingLeaksHolds` and `OwnCredentialsHolds`.

The count of a process's leases is the number of requests that use it
(`LeasesAreCounted`), from the moment its creation ends; a creation is pending as
long as somebody waits for it (`RequestsAreServed`). What leaves the pool has
leases, and is retired, or has none, and is closed (`Retire`), and the last
release closes a retired process: with the count exact, a process is neither
closed under a request nor kept for nobody. `OwnCredentials` needs that a pending
creation's key and hash are those its process will have. The invariant says less
of leases once a shutdown has begun, which drops them.

**The instruction sync** (`InstructionSyncProofs`, `InstructionSyncHeadProofs`):
`TypeCorrect`, `LeaseIsFence`, `InvHolds` and `NoHeadIsForgottenHolds`.

`LeasedWritesAreFresh` says that when a fenced write applies, the row is still
what the check's claim returned: generation, delegate, flags, pause, cursors.
The lease proves this only because of how everyone else writes, and the
inductive invariant says how: `Fresh` states, for every check that is under way,
that if the row's `nextCheckAt` is still that check's value, then the watched
columns are those it was given. Each other writer either keeps those columns
(the re-check request), or takes the lease off the row in the same statement (a
completion, a configure, a lifted pause, a disconnect, another claim). The one
exception is a completion with no effect, which writes neither. The proof has one
lemma per action, for one of these two reasons. That a live row is always
scheduled (`TypeOK`'s last conjunct) follows by the same cases: whoever clears
`nextCheckAt` sets a pause, and whoever clears a pause schedules.

`NoHeadIsForgotten` is about states, and says nothing of why nobody lets the row
sleep in the wrong one. The invariant behind it says it at every place where a
sleep is decided or about to be written (`RowSleepsSafely`, `CheckSleepsSafely`,
`RunSleepsSafely`): either nothing waits (`AllTaken`), or somebody will wake the
row (`Awaited`: a run that will read the branch, a request that a completion
will consume or nobody, or `stolen`). Four facts carry it.

- A cursor is never ahead of what was read, and while a commit waits to be read
  it is behind the head (`CursorsAreTaken`). So a check that finds the head equal
  to a cursor, and skips, knows that everything handed over was read.
- A check that rescheduled without a start found a run open and left a request,
  or has lost its lease (`AskerInOrder`).
- One run is open at a time (`RunInOrder`). So while a run records its effect no
  other is about to read, and a completion that consumes a request for another
  run than its own is a theft, which the property excepts.
- A run that was started for the current configuration is never refused by
  `begin` while the row is live (`WillRead`): the refusals test what it loaded,
  and a pause or a toggle in between wakes the row when it ends.

Each action then has one of a few reasons, which are the lemmas the proof is
built from: the branch was read or the attempt failed (`TriedIsSafe`), the row
wakes (`WakeIsSafe`), it sleeps or wakes as before (`SleepStays`), a run is
registered (`RegisterSafe`), an asker goes on (`AskerAsks`), a run goes on
(`RunGoesOn`).

Only model-checked: the five liveness properties, `HeldClaimIsCleared`,
`PendingIsSettled`, `EditionIsFreed`, `DeferralEnds` and `RetiredIsClosed`
(fairness and ENABLED are outside the prover's reach), and the three properties
that are violated.

## 5. Disagreements between the code and what it says

### 5.1 An orphan that is linked

`pm-create-orphan.ts:6-8` and `hierarchy-sync.ts:1875-1880` say that a row whose
create is recorded as an orphan keeps its create claim. For the single-item
create this is not always so. `updateWorkItemExternalRefs` retries the link
write. A try that commits but loses its answer has linked the row and cleared
the claim; the next try finds the claim not held and fails; the catch records
the orphan by id. The row is then linked, unclaimed, and marked FAILED with "this item is
not linked to it". No second item results (`CreatesOnce` holds), but the user is
told something false, and the advice given, Unlink & re-create, drops a good
link. The bulk create re-reads the row in that situation (`settleUncertainLink`).
The run `orphan_keeps_claim` exhibits the behaviour.

### 5.2 A deferred email with no route out

`publishing-notification-delivery.ts:855-857` says that 14 days of expiry and
five attempts "are the only two ways an obligation ends without being sent", and
`publishing-notification-drain.ts:525-533` that a FAILED row with a deadline
would sit "in a state with no route out", which the drain's own failure writer
therefore avoids. The in-band writer does not: a notify attempt may claim a row
out of DEFERRED (without counting an attempt), and when its send fails
`recordPublishingEmailFailure` writes FAILED and keeps the deadline. The drain
reads only DEFERRED rows and the sweep only DEFERRED and SENDING ones, so once
the activity's own retries are used up nobody sends, expires or counts it. The
run `publishing_stranded` exhibits the behaviour; `DeferralEnds`, which asks
only that the row leaves DEFERRED and SENDING, holds.

### 5.3 A process that shutdown drops

`process-pool.ts:590` says shutdown closes all processes. `shutdown` awaits the
closes of the entries it found, then clears the map (`process-pool.ts:619`). A
creation in flight during that await adds its process to the map, and the clear
drops it unclosed; its request's release then finds neither a lease nor a
retired process. Requests can be in flight, since the server's shutdown waits
for connections and a client that hangs up ends its connection, not its
handler. The run `pool_shutdown` exhibits the behaviour.

## 6. What the models leave out

- One row. Rows do not interact in this code except through the merge, which
  appears as `TransferPending` and `TransferSettled`.
- `PmCreateClaim`: deletion of the row (`missing`), the status an outcome
  records (`Recorded` leaves the row alone), the refusal of Link to existing on a
  PENDING row (a refusal is always possible: a user may simply stop), clocks
  of different rates, workers of an older version without deadlines. That a
  refused create made no item is taken from the code, which treats a 4xx other
  than 408 as proof of it, and is not true of a tool that answers 4xx and
  creates all the same. One resend after a 401 is modelled for MCP and GitLab
  alike; a deployment with a project-level GitLab token has none, which is a
  behaviour of the model too.
- The GitHub branch of `gitlab-rest-story-sync.ts`. It compares the clock once,
  after taking the claim (`gitlab-rest-story-sync.ts:1375`), then awaits the
  read-only check (`pm-tool-fallback.ts:92-98`) and the look-up of the issue type
  (`projects-pm-adapter.ts:1316`) before `rest` (`projects-pm-adapter.ts:184-212`)
  calls `fetch` without `throwIfDispatchDeadlinePassed`; only the abort signal, a
  timer, stops it there. So what `pm-create-claim-recovery.ts:11-14` says of
  "each place that sends a create under a claim" is not said of that one here,
  and no property or theorem of `PmCreateClaim` covers it. Nor is its error path
  there: a definite refusal by GitHub keeps the claim, since the code recognises
  only GitLab's, and a refused issue type is left out and the create sent again.
- `PmSyncAttempts`: rows stamped before attempt ids existed; the unfenced edit
  of the link and the link cleared by a migration while a sync is under way;
  a row whose kind changes during a sync, which gives it a second workflow id;
  the claim inside a create, reduced to "creates only while unlinked"; one
  watchdog row per tick and no batch limit.
- `GlossyTransactions`: pruning of cache rows that a finalize did not use, the
  review decisions, which are not read by any guard; deletion of the document,
  which removes every row; the read in `markGlossyBuildSuperseded`, whose write
  is a no-op by `BuildingIsCurrent` (it is a step of `GlossyBuilds`).
- `GlossyBuilds`: which section an activity works on, and the cache; clocks that
  disagree by more than the slack of a request's bound; regenerations, which
  `GlossyTransactions` has. A late execution of finalize may publish while its
  run's retry found the claim gone: the run then returns "superseded" for an
  attempt that is published, and no property says otherwise.
- `PublishingDelivery`: the provider's dedupe window (a second message under
  the same key is the provider's business), the activation of a cycle
  (NOT_APPLICABLE), enrolment of old SENDING rows that have no deadline, paging,
  the cap of emails one attempt sends, and the script that re-drives failed rows
  by hand. The kill switch is a choice `Resolve` may take at any time.
- `ProcessPool`: the clock. `takeLru` returns the entry used longest ago, and
  none when no entry was used before the current millisecond or the clock was
  set back, in which case the pool grows past `maxProcesses`; the model allows
  any entry or none, and no property claims the capacity. Credential files, and
  requests that reach the pool only after shutdown began, are left out.
- `InstructionSync`: a row created again after a disconnect, whose generation
  starts over; the pause for a migration and the import's gates; a receipt that
  a timed-out `begin` inserts after its run gave up on it; failure counts and
  the length of a backoff; clocks that disagree, and two leases that fall on the
  same millisecond; the poll's budget and its lanes; runs started by a merged
  pull request; the child workflow that builds a snapshot, which is a choice of
  its outcome in `Acquire`.
- `NoHeadIsForgotten` makes two exceptions, both met by TLC (the second needs
  two runs). A request
  can be left behind: for an open run of an older generation, or one that ends
  before it has a receipt, no completion consumes it (`LeftBehind`). And it can
  be consumed for another run than the open one (`stolen`): by the reaper's
  completion of a terminated run's receipt, or by the late settle of someone
  who found an earlier run open; the open run's own completion then schedules a
  full interval ahead, although its fetch may be older than the commit. In both
  cases the poll finds the commit at that later check, so what is lost is time.
- The content of items, hashes, field mapping, audit logs and messages.

### Not modelled

The repository has over two million lines, most of them rendering, request
handling, prompts, seeds and generated validators, whose behaviour is
sequential and local; the share of it that these modules map is small for that
reason. Components whose state is worth a model and that have none yet are the
test-case rows of the PM sync, the adaptive scan concurrency and the backlog
apply. `PROJECT.json` gives the reason
for each component that is left out.

## 7. Plan

1. *Done:* `PmCreateOnce`, `PmCreateClaim`, `PmSyncAttempts`, their runs and
   proofs.
2. *Done:* `GlossyPublication`, `GlossyTransactions`, `GlossyBuilds`,
   `PublishingDelivery`, `ProcessPool` and their runs; `InstructionSync` with
   its run and proofs.
3. *Done:* proofs of every safety invariant and action property of
   `GlossyTransactions`, `GlossyBuilds`, `PublishingDelivery`, `ProcessPool` and
   `InstructionSync`, and of both refinements of `GlossyPublication`.
4. The create's outcome on the row's status, composing `PmCreateClaim` with the
   status writers; test cases, whose row is soft-deletable; the GitHub branch of
   the create, with the awaits between its comparison and its request.

The order is by consequence for users: duplicate items and false statuses
first, then lost or doubled builds and notifications, then local resources.
