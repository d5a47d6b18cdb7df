-------------------------- MODULE GlossyTransactions -------------------------
(***************************************************************************)
(* The database transactions on one document's Glossy edition              *)
(* (glossy-editions.ts), statement by statement: the edition row, the row  *)
(* of each build attempt, the segment-cache row of one visual, and the row *)
(* locks that READ COMMITTED transactions take on them.                    *)
(*                                                                         *)
(* A statement sees what is committed when it runs.  If its WHERE finds    *)
(* the row and another transaction has it locked, the statement waits, and *)
(* tests the WHERE again once it has the lock; if the WHERE finds nothing  *)
(* it does not wait.  What a transaction writes is seen when it commits:   *)
(* nobody else can write a row it has locked, so the model writes then.    *)
(*                                                                         *)
(* A transaction is named by the function that runs it:                    *)
(*   claim, reclaim  tryClaim, without and with a stale holder to retire   *)
(*   beat            heartbeatGlossyBuild                                  *)
(*   put             putCacheEntry of an attempt                           *)
(*   finalize, fail  finalizeGlossyBuild, failGlossyBuild                  *)
(*   regenerate      applyVisualRegeneration                               *)
(* An attempt's run may issue any of its transactions at any time, late    *)
(* ones and repeated ones too; GlossyBuilds says when they are issued.     *)
(***************************************************************************)
EXTENDS Naturals

CONSTANTS
    Tx,          \* connections: transactions open at one time
    Visual,      \* visuals an editor may regenerate
    MaxClaims    \* bound: build attempts

ASSUME ClaimsAssumption == MaxClaims \in Nat

VARIABLES
    edition,    \* the edition row exists
    claims,     \* attempts 1 .. claims have been claimed
    current,    \* currentBuildId (0 is null)
    published,  \* publishedBuildId (0 is null)
    revision,   \* contentRevision
    content,    \* the visuals regenerated in content since it was published
    status,     \* each attempt's row ("NONE": no row)
    cached,     \* the attempt that last wrote the cache row (0: no attempt)
    tx          \* each connection's transaction

rows == <<edition, claims, current, published, revision, content, status, cached>>
vars == <<rows, tx>>

Build    == 1 .. MaxClaims
Finished == {"SUCCEEDED", "FAILED", "SUPERSEDED"}
Status   == {"NONE", "BUILDING"} \cup Finished

(* What a transaction may lock: an attempt's row, named by the attempt, *)
(* the edition row and the cache row.                                   *)
EditionRow == 0
CacheRow   == MaxClaims + 1
Row        == 0 .. MaxClaims + 1

Kind == {"claim", "reclaim", "beat", "put", "finalize", "fail", "regenerate"}
PC   == {"idle", "ensure", "attempt", "edition", "cache", "others", "commit"}

(* A transaction: the statement it runs next, the attempt (for regenerate, *)
(* the published attempt) and the visual it is about, whether the attempt's *)
(* heartbeat is older than staleBefore, the content and revision it read,  *)
(* and the rows it has locked.                                             *)
Transaction ==
    [kind : Kind, pc : PC, build : 0 .. MaxClaims, visual : SUBSET Visual,
     old : BOOLEAN, read : SUBSET Visual, revision : Nat, locks : SUBSET Row]

Opened(kind, pc, b, v, read, rev) ==
    [kind |-> kind, pc |-> pc, build |-> b, visual |-> v, old |-> TRUE,
     read |-> read, revision |-> rev, locks |-> {}]

NoTx == Opened("claim", "idle", 0, {}, {}, 0)

TypeOK ==
    /\ edition \in BOOLEAN
    /\ claims \in 0 .. MaxClaims
    /\ current \in 0 .. MaxClaims
    /\ published \in 0 .. MaxClaims
    /\ revision \in Nat
    /\ content \in SUBSET Visual
    /\ status \in [Build -> Status]
    /\ cached \in 0 .. MaxClaims
    /\ tx \in [Tx -> Transaction]

Init ==
    /\ edition = FALSE /\ claims = 0 /\ current = 0 /\ published = 0
    /\ revision = 0 /\ content = {} /\ cached = 0
    /\ status = [b \in Build |-> "NONE"]
    /\ tx = [t \in Tx |-> NoTx]

-----------------------------------------------------------------------------
(* Opening a transaction. *)

Open(t, x) ==
    /\ tx[t].pc = "idle"
    /\ tx' = [tx EXCEPT ![t] = x]
    /\ UNCHANGED rows

AfterEnsure(kind) == IF kind = "reclaim" THEN "attempt" ELSE "edition"

(* Both start with ensureGlossyEdition, which finds the edition row or, the *)
(* first time, inserts it.                                                  *)
OpenClaiming(t, kind, h) ==
    /\ claims < MaxClaims
    /\ Open(t, Opened(kind, IF edition THEN AfterEnsure(kind) ELSE "ensure",
                      h, {}, {}, 0))

OpenClaim(t) == OpenClaiming(t, "claim", 0)

(* The holder was read, and found stale and gone, before this. *)
OpenReclaim(t, h) == OpenClaiming(t, "reclaim", h)

(* The WHERE also reads the edition; a statement that then waits for the *)
(* attempt's row tests only that row again.                              *)
OpenBeat(t, b) ==
    /\ current = b
    /\ Open(t, Opened("beat", "attempt", b, {}, {}, 0))

OpenWrite(t, kind, b) == Open(t, Opened(kind, "attempt", b, {}, {}, 0))

(* The regeneration read the edition while no build held it, and splices   *)
(* its visual into the content it read.  One that found the revision moved *)
(* reads again and tries again.                                            *)
OpenRegenerate(t, v) ==
    /\ current = 0 /\ published # 0
    /\ v \notin content
    /\ Open(t, Opened("regenerate", "edition", published, {v}, content, revision))

OpenSome(t) ==
    \/ OpenClaim(t)
    \/ \E b \in 1 .. claims :
          \/ OpenReclaim(t, b)
          \/ OpenBeat(t, b)
          \/ OpenWrite(t, "put", b)
          \/ OpenWrite(t, "finalize", b)
          \/ OpenWrite(t, "fail", b)
    \/ \E v \in Visual : OpenRegenerate(t, v)

-----------------------------------------------------------------------------
(* Row locks. *)

(* Mutant: finalize and fail lock their attempt's row FOR SHARE. *)
SharesAttempt(x, r) == x.kind \in {"put", "finalize", "fail"} /\ r \in Build

(* Only putCacheEntry locks an attempt's row FOR SHARE. *)
Shares(x, r) == x.kind = "put" /\ r # CacheRow

(* Mutant: putCacheEntry reads the attempt without a lock. *)
ConflictsUnshared(x, y, r) ==
    r \in y.locks /\ ~Shares(x, r) /\ ~Shares(y, r)

Conflicts(x, y, r) == r \in y.locks /\ ~(Shares(x, r) /\ Shares(y, r))

Free(t, r) == \A u \in Tx \ {t} : ~Conflicts(tx[t], tx[u], r)

Goto(t, pc)    == tx' = [tx EXCEPT ![t].pc = pc]
Lock(t, r, pc) == tx' = [tx EXCEPT ![t].pc = pc, ![t].locks = @ \cup {r}]
Close(t)       == tx' = [tx EXCEPT ![t] = NoTx]

-----------------------------------------------------------------------------
(* ensureGlossyEdition: INSERT ... ON CONFLICT DO NOTHING. *)

InsertEdition(t) ==
    /\ tx[t].pc = "ensure" /\ ~edition
    /\ Free(t, EditionRow)
    /\ Lock(t, EditionRow, AfterEnsure(tx[t].kind))
    /\ UNCHANGED rows

FindEdition(t) ==
    /\ tx[t].pc = "ensure" /\ edition
    /\ Goto(t, AfterEnsure(tx[t].kind))
    /\ UNCHANGED rows

-----------------------------------------------------------------------------
(* The statement on the attempt's own row: SELECT ... FOR UPDATE whatever  *)
(* its status, SELECT ... FOR SHARE or UPDATE while it is BUILDING.        *)

AttemptWhere(x) ==
    \/ x.kind \in {"finalize", "fail"} /\ status[x.build] # "NONE"
    \/ x.kind \in {"put", "beat"} /\ status[x.build] = "BUILDING"
    \/ x.kind = "reclaim" /\ status[x.build] = "BUILDING" /\ x.old

AfterAttempt(x) == IF x.kind = "put" THEN "cache" ELSE "edition"

LockAttempt(t) ==
    /\ tx[t].pc = "attempt" /\ AttemptWhere(tx[t])
    /\ tx[t].kind # "beat"
    /\ Free(t, tx[t].build)
    /\ Lock(t, tx[t].build, AfterAttempt(tx[t]))
    /\ UNCHANGED rows

(* The heartbeat is one statement, which commits by itself.  It is newer *)
(* than the staleBefore of every reclaim under way.                      *)
Beat(t) ==
    /\ tx[t].pc = "attempt" /\ AttemptWhere(tx[t])
    /\ tx[t].kind = "beat"
    /\ Free(t, tx[t].build)
    /\ tx' = [u \in Tx |->
                 IF u = t THEN NoTx
                 ELSE IF tx[u].kind = "reclaim" /\ tx[u].build = tx[t].build
                      THEN [tx[u] EXCEPT !.old = FALSE]
                      ELSE tx[u]]
    /\ UNCHANGED rows

(* The attempt is over: the write is superseded.  A reclaim whose holder *)
(* is not stale any more goes on, without having retired it.             *)
MissAttempt(t) ==
    /\ tx[t].pc = "attempt" /\ ~AttemptWhere(tx[t])
    /\ IF tx[t].kind = "reclaim" THEN Goto(t, "edition") ELSE Close(t)
    /\ UNCHANGED rows

-----------------------------------------------------------------------------
(* The conditional UPDATE of the edition row. *)

Retired(x) == x.kind = "reclaim" /\ x.build \in x.locks

(* Mutant: the release does not ask which attempt holds the claim. *)
EditionWhereHeldBySome(x) ==
    \/ x.kind \in {"claim", "reclaim"} /\ current = 0
    \/ Retired(x) /\ current = x.build
    \/ x.kind = "finalize" /\ current = x.build
    \/ x.kind = "fail" /\ current # 0
    \/ /\ x.kind = "regenerate"
       /\ published = x.build /\ revision = x.revision /\ current = 0

(* Mutant: the regeneration does not compare the content revision. *)
EditionWhereAnyRevision(x) ==
    \/ x.kind \in {"claim", "reclaim"} /\ current = 0
    \/ Retired(x) /\ current = x.build
    \/ x.kind \in {"finalize", "fail"} /\ current = x.build
    \/ x.kind = "regenerate" /\ published = x.build /\ current = 0

EditionWhere(x) ==
    \/ x.kind \in {"claim", "reclaim"} /\ current = 0
    \/ Retired(x) /\ current = x.build
    \/ x.kind \in {"finalize", "fail"} /\ current = x.build
    \/ /\ x.kind = "regenerate"
       /\ published = x.build /\ revision = x.revision /\ current = 0

AfterEdition(x) ==
    IF x.kind \in {"finalize", "regenerate"} THEN "cache" ELSE "commit"

LockEdition(t) ==
    /\ tx[t].pc = "edition" /\ EditionWhere(tx[t])
    /\ Free(t, EditionRow)
    /\ Lock(t, EditionRow, AfterEdition(tx[t]))
    /\ UNCHANGED rows

(* The claim is lost, the write superseded: everything is rolled back. *)
MissEdition(t) ==
    /\ tx[t].pc = "edition" /\ ~EditionWhere(tx[t])
    /\ Close(t)
    /\ UNCHANGED rows

-----------------------------------------------------------------------------
(* The cache row: upserted by put and regenerate, stamped by finalize.     *)

AfterCache(x) == IF x.kind = "finalize" THEN "others" ELSE "commit"

LockCache(t) ==
    /\ tx[t].pc = "cache"
    /\ Free(t, CacheRow)
    /\ Lock(t, CacheRow, AfterCache(tx[t]))
    /\ UNCHANGED rows

(* finalize deletes every other finished attempt of the document. *)
Others(x) == {o \in Build \ x.locks : o # x.build /\ status[o] \in Finished}

LockOther(t) ==
    /\ tx[t].pc = "others"
    /\ \E o \in Others(tx[t]) : Free(t, o) /\ Lock(t, o, "others")
    /\ UNCHANGED rows

-----------------------------------------------------------------------------
(* Committing. *)

Committing(t, kind) == tx[t].pc = "commit" /\ tx[t].kind = kind

(* The new attempt's row is BUILDING; a retired holder's is SUPERSEDED. *)
(* A claim past the bound can only be rolled back.                      *)
CommitClaim(t) ==
    LET b == claims + 1 IN
    /\ Committing(t, "claim") \/ Committing(t, "reclaim")
    /\ claims < MaxClaims
    /\ edition' = TRUE
    /\ claims' = b
    /\ current' = b
    /\ status' = [o \in Build |->
                     IF o = b THEN "BUILDING"
                     ELSE IF Retired(tx[t]) /\ o = tx[t].build THEN "SUPERSEDED"
                     ELSE status[o]]
    /\ Close(t)
    /\ UNCHANGED <<published, revision, content, cached>>

CommitPut(t) ==
    /\ Committing(t, "put")
    /\ cached' = tx[t].build
    /\ Close(t)
    /\ UNCHANGED <<edition, claims, current, published, revision, content, status>>

(* An attempt that holds the edition and is not BUILDING is an error: the *)
(* transaction throws.                                                    *)
CommitFinalize(t) ==
    LET b == tx[t].build IN
    /\ tx[t].pc = "others" /\ Others(tx[t]) = {}
    /\ status[b] = "BUILDING"
    /\ published' = b
    /\ current' = 0
    /\ content' = {}
    /\ revision' = revision + 1
    /\ status' = [o \in Build |->
                     IF o = b THEN "SUCCEEDED"
                     ELSE IF o \in tx[t].locks THEN "NONE"
                     ELSE status[o]]
    /\ Close(t)
    /\ UNCHANGED <<edition, claims, cached>>

CommitFail(t) ==
    /\ Committing(t, "fail") /\ status[tx[t].build] = "BUILDING"
    /\ current' = 0
    /\ status' = [status EXCEPT ![tx[t].build] = "FAILED"]
    /\ Close(t)
    /\ UNCHANGED <<edition, claims, published, revision, content, cached>>

CommitRegenerate(t) ==
    /\ Committing(t, "regenerate")
    /\ content' = tx[t].read \cup tx[t].visual
    /\ revision' = revision + 1
    /\ cached' = 0
    /\ Close(t)
    /\ UNCHANGED <<edition, claims, current, published, status>>

(* The process or its connection dies, or the database gives up on it. *)
Rollback(t) ==
    /\ tx[t].pc # "idle"
    /\ Close(t)
    /\ UNCHANGED rows

-----------------------------------------------------------------------------
Step(t) ==
    \/ OpenSome(t)
    \/ InsertEdition(t) \/ FindEdition(t)
    \/ LockAttempt(t) \/ Beat(t) \/ MissAttempt(t)
    \/ LockEdition(t) \/ MissEdition(t)
    \/ LockCache(t) \/ LockOther(t)
    \/ CommitClaim(t) \/ CommitPut(t)
    \/ CommitFinalize(t) \/ CommitFail(t) \/ CommitRegenerate(t)
    \/ Rollback(t)

Next == \E t \in Tx : Step(t)

Spec == Init /\ [][Next]_vars

-----------------------------------------------------------------------------
(***************************************************************************)
(* The invariant every guard relies on: in what is committed, an attempt   *)
(* is BUILDING exactly while its edition's currentBuildId names it.        *)
(***************************************************************************)
BuildingIsCurrent == \A b \in Build : status[b] = "BUILDING" <=> current = b

(***************************************************************************)
(* Transactions that wait for each other's rows cannot form a circle: the  *)
(* lock order (attempt before edition, then the cache row, then the        *)
(* finished attempts) holds for every mix of them, the deletes at the end  *)
(* of a finalize included, which lock attempt rows after the edition row.  *)
(***************************************************************************)
Wants(x) ==
    CASE x.pc = "ensure"  -> IF edition THEN {} ELSE {EditionRow}
      [] x.pc = "attempt" -> IF AttemptWhere(x) THEN {x.build} ELSE {}
      [] x.pc = "edition" -> IF EditionWhere(x) THEN {EditionRow} ELSE {}
      [] x.pc = "cache"   -> {CacheRow}
      [] x.pc = "others"  -> Others(x)
      [] OTHER            -> {}

WaitsFor(t, u) == \E r \in Wants(tx[t]) : Conflicts(tx[t], tx[u], r)

NoDeadlock ==
    \A circle \in (SUBSET Tx) \ {{}} :
        \E t \in circle : \A u \in circle \ {t} : ~WaitsFor(t, u)

(***************************************************************************)
(* A cache write of an attempt takes effect only while the attempt holds   *)
(* the edition: it commits before the claim moves, or not at all.  It      *)
(* tests the claim one statement before it writes.                         *)
(***************************************************************************)
CacheWrittenWhileHeld ==
    [][cached' # cached /\ cached' # 0 => current = cached']_vars

(***************************************************************************)
(* A transaction that has found its attempt to be the holder, under the    *)
(* locks it took, still finds it BUILDING when it finishes: the error that *)
(* finalize and fail throw for a broken invariant is never thrown.         *)
(***************************************************************************)
NeverBroken ==
    \A t \in Tx :
        tx[t].kind \in {"finalize", "fail"} /\ EditionRow \in tx[t].locks
            => status[tx[t].build] = "BUILDING" /\ current = tx[t].build

(***************************************************************************)
(* The inductive invariant behind BuildingIsCurrent, NeverBroken,          *)
(* NoDeadlock, CacheWrittenWhileHeld and PublicationSpec                   *)
(* (GlossyTransactionsProofs).                                             *)
(***************************************************************************)

LocksExclude ==
    \A t, u \in Tx : t # u =>
        \A r \in tx[t].locks : ~Conflicts(tx[t], tx[u], r)

AttemptsAreNumbered ==
    /\ current <= claims /\ published <= claims
    /\ ~edition => claims = 0
    /\ \A b \in Build : b > claims => status[b] = "NONE"
    /\ \A t \in Tx :
          /\ tx[t].build <= claims
          /\ tx[t].build = 0 <=> tx[t].kind = "claim"

(* What a transaction's WHERE found stays true of the rows it locked. *)
AttemptIsAsTested(x) ==
    /\ x.kind \in {"finalize", "fail"} /\ x.pc \notin {"idle", "attempt"}
          => x.build \in x.locks
    /\ x.kind = "put" /\ x.pc \in {"cache", "commit"}
          => x.build \in x.locks /\ status[x.build] = "BUILDING"
    /\ Retired(x) => status[x.build] = "BUILDING"

EditionIsAsTested(x) ==
    \/ x.pc \notin {"cache", "others", "commit"}
    \/ x.kind = "put"
    \/ /\ EditionRow \in x.locks
       /\ x.kind = "claim" => current = 0
       /\ x.kind = "reclaim" => current = 0 \/ (Retired(x) /\ current = x.build)
       /\ x.kind \in {"finalize", "fail"} => current = x.build
       /\ x.kind = "regenerate" =>
             published = x.build /\ revision = x.revision /\ current = 0

(* Content that still has the revision it was read at is as it was read. *)
ReadIsAsRevised(x) ==
    x.kind = "regenerate" =>
        /\ x.revision <= revision
        /\ x.revision = revision => x.read = content
        /\ \E v \in Visual : x.visual = {v}

(* Only the statements of its own function lie ahead of a transaction. *)
StatementsOf(kind) ==
    CASE kind = "claim"      -> {"idle", "ensure", "edition", "commit"}
      [] kind = "reclaim"    -> {"attempt", "edition", "commit"}
      [] kind = "beat"       -> {"attempt"}
      [] kind = "put"        -> {"attempt", "cache", "commit"}
      [] kind = "finalize"   -> {"attempt", "edition", "cache", "others"}
      [] kind = "fail"       -> {"attempt", "edition", "commit"}
      [] kind = "regenerate" -> {"edition", "cache", "commit"}

(* What a transaction may hold: the rows of its function, each from its *)
(* statement on; the finished attempts only where finalize deletes them. *)
LocksOf(x) ==
    CASE x.kind = "claim"               -> {EditionRow}
      [] x.kind \in {"reclaim", "fail"} -> {x.build, EditionRow}
      [] x.kind = "put"                 -> {x.build, CacheRow}
      [] x.kind = "regenerate"          -> {EditionRow, CacheRow}
      [] x.kind = "finalize"            -> IF x.pc = "others" THEN Row
                                           ELSE {x.build, EditionRow}
      [] x.kind = "beat"                -> {}

LocksInOrder(x) ==
    /\ x.locks \subseteq LocksOf(x)
    /\ x.pc \in {"idle", "ensure", "attempt"} => x.locks = {}
    /\ EditionRow \in x.locks => x.pc # "edition" \/ x.kind = "claim"
    /\ CacheRow \in x.locks => x.pc \in {"others", "commit"}

InOrder(x) ==
    /\ x.pc \in StatementsOf(x.kind)
    /\ LocksInOrder(x)
    /\ AttemptIsAsTested(x)
    /\ EditionIsAsTested(x)
    /\ ReadIsAsRevised(x)

IndInv ==
    /\ TypeOK
    /\ LocksExclude
    /\ AttemptsAreNumbered
    /\ BuildingIsCurrent
    /\ \A t \in Tx : InOrder(tx[t])

(***************************************************************************)
(* However their statements interleave, the transactions do what an        *)
(* edition promises: builds hold it one at a time, only the holder         *)
(* publishes, and no regenerated visual is lost to another or to a build.  *)
(***************************************************************************)
Publication == INSTANCE GlossyPublication
PublicationSpec == Publication!Spec
=============================================================================
