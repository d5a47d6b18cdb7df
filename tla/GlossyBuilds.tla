----------------------------- MODULE GlossyBuilds ----------------------------
(***************************************************************************)
(* Building the Glossy edition of one document: editors' build requests    *)
(* (dispatch-glossy-build.ts), the workflow run of each claimed attempt    *)
(* (glossy-edition-build.ts) and the activities that run executes.         *)
(*                                                                         *)
(* A transaction on the edition is one step here; GlossyTransactions shows *)
(* that its statements amount to that.  What can go wrong between the      *)
(* steps: a start request or its answer is lost or late, the API process   *)
(* dies, a run is closed by its execution timeout and writes nothing, and  *)
(* an activity that Temporal gave up on goes on to its write beside its    *)
(* retry, or after its run has closed.                                     *)
(*                                                                         *)
(* Times are ages, counted up to the largest a request tells apart.        *)
(***************************************************************************)
EXTENDS Naturals

CONSTANTS
    Editor,        \* build requests in progress
    StaleAfter,    \* GLOSSY_BUILD_STALE_AFTER_MS
    RequestBound,  \* the longest a build request, and its start, are under way
    ClaimAttempts, \* CLAIM_ATTEMPTS
    MaxClaims,     \* bound: build attempts
    MaxFaults      \* bound: crashes, lost messages, unknown answers

ASSUME TimesAssumption ==
    /\ StaleAfter \in Nat
    /\ RequestBound \in 0 .. StaleAfter
    /\ ClaimAttempts \in Nat \ {0}
    /\ MaxClaims \in Nat
    /\ MaxFaults \in Nat

VARIABLES
    claims,     \* attempts 1 .. claims have been claimed
    current,    \* currentBuildId (0 is null)
    published,  \* publishedBuildId (0 is null)
    status,     \* each attempt's row ("NONE": no row)
    age,        \* the age of each attempt's heartbeatAt
    request,    \* each editor's build request
    starts,     \* attempts whose start request is on its way to Temporal
    run,        \* the step of each attempt's run
    result,     \* what its workflow returned
    late,       \* activity executions that are past their checks
    faults      \* faults so far

edition == <<claims, current, published, status>>
temporal == <<starts, run, result, late>>
vars == <<edition, age, request, temporal, faults>>

Build == 1 .. MaxClaims
Open  == {"prepare", "work", "finalize", "failing"}

(* An age older than StaleAfter even after it was held against a request. *)
OldAge == StaleAfter + RequestBound + 1
Older(a) == IF a < OldAge THEN a + 1 ELSE a

Status    == {"NONE", "BUILDING", "SUCCEEDED", "FAILED", "SUPERSEDED"}
RequestPC == {"idle", "claiming", "reading", "probing", "starting", "awaiting",
              "releasing"}
Request   == [pc : RequestPC, holder : 0 .. MaxClaims, build : 0 .. MaxClaims,
              tries : 0 .. ClaimAttempts - 1, elapsed : 0 .. RequestBound]
Result    == {"none", "succeeded", "superseded", "failed", "unrecorded", "timedOut"}

(* A request: the holder it means to retire, the attempt it claimed, how   *)
(* often claimGlossyBuild tried, and the time since it read its clock.     *)
Requesting(pc, h, b, n, e) ==
    [pc |-> pc, holder |-> h, build |-> b, tries |-> n, elapsed |-> e]

NoRequest == Requesting("idle", 0, 0, 0, 0)

TypeOK ==
    /\ claims \in 0 .. MaxClaims
    /\ current \in 0 .. MaxClaims
    /\ published \in 0 .. MaxClaims
    /\ status \in [Build -> Status]
    /\ age \in [Build -> 0 .. OldAge]
    /\ request \in [Editor -> Request]
    /\ starts \in SUBSET Build
    /\ run \in [Build -> {"none", "closed"} \cup Open]
    /\ result \in [Build -> Result]
    /\ late \in SUBSET (Build \X {"publish", "fail"})
    /\ faults \in 0 .. MaxFaults

Init ==
    /\ claims = 0 /\ current = 0 /\ published = 0
    /\ status = [b \in Build |-> "NONE"]
    /\ age = [b \in Build |-> 0]
    /\ request = [e \in Editor |-> NoRequest]
    /\ starts = {}
    /\ run = [b \in Build |-> "none"]
    /\ result = [b \in Build |-> "none"]
    /\ late = {}
    /\ faults = 0

Fault == faults < MaxFaults /\ faults' = faults + 1

-----------------------------------------------------------------------------
(* Transactions on the edition, as GlossyTransactions has them. *)

(* heldAttempt *)
Held(b) == status[b] = "BUILDING" /\ current = b

Beat(b) ==
    /\ age' = [age EXCEPT ![b] = 0]
    /\ UNCHANGED edition

(* An attempt that lost the claim marks its own row, which the write that *)
(* took the claim has done already: a no-op, as RowsAgree shows.          *)
MarkGlossyBuildSuperseded(b) ==
    /\ status' = IF status[b] = "BUILDING" /\ current # b
                 THEN [status EXCEPT ![b] = "SUPERSEDED"] ELSE status
    /\ UNCHANGED <<claims, current, published>>

(* Mutant: the edition is swapped whichever attempt holds the claim. *)
FinalizeUnguarded(b) ==
    /\ published' = b
    /\ current' = 0
    /\ status' = [o \in Build |->
                     IF o = b THEN "SUCCEEDED"
                     ELSE IF status[o] = "BUILDING" THEN status[o] ELSE "NONE"]
    /\ UNCHANGED claims

FinalizeGlossyBuild(b) ==
    IF current = b
    THEN /\ published' = b
         /\ current' = 0
         /\ status' = [o \in Build |->
                          IF o = b THEN "SUCCEEDED"
                          ELSE IF status[o] = "BUILDING" THEN status[o] ELSE "NONE"]
         /\ UNCHANGED claims
    ELSE MarkGlossyBuildSuperseded(b)

FailGlossyBuild(b) ==
    IF current = b
    THEN /\ current' = 0
         /\ status' = [status EXCEPT ![b] = "FAILED"]
         /\ UNCHANGED <<claims, published>>
    ELSE UNCHANGED edition

-----------------------------------------------------------------------------
(* A build request: dispatchGlossyBuild. *)

Ask(e) ==
    /\ request[e].pc = "idle" /\ claims < MaxClaims
    /\ request' = [request EXCEPT ![e] = Requesting("claiming", 0, 0, 0, 0)]
    /\ UNCHANGED <<edition, age, temporal, faults>>

Answer(e) == request' = [request EXCEPT ![e] = NoRequest]

(* Mutant: the heartbeat is not asked, only Temporal. *)
StaleAtAnyAge(b, e) == TRUE

(* heartbeatAt < now - StaleAfter, now being when the request began. *)
Stale(b, e) == age[b] > StaleAfter + request[e].elapsed

Retirable(e) ==
    LET h == request[e].holder IN
    h # 0 /\ status[h] = "BUILDING" /\ Stale(h, e)

Claimable(e) == current = 0 \/ (Retirable(e) /\ current = request[e].holder)

(* tryClaim: the attempt's heartbeat is the request's clock. *)
TryClaim(e) ==
    LET b == claims + 1 IN
    /\ request[e].pc = "claiming" /\ Claimable(e)
    /\ claims < MaxClaims
    /\ claims' = b
    /\ current' = b
    /\ status' = [o \in Build |->
                     IF o = b THEN "BUILDING"
                     ELSE IF Retirable(e) /\ o = request[e].holder THEN "SUPERSEDED"
                     ELSE status[o]]
    /\ age' = [age EXCEPT ![b] = request[e].elapsed]
    /\ request' = [request EXCEPT ![e].pc = "starting", ![e].build = b]
    /\ UNCHANGED <<published, temporal, faults>>

ClaimLost(e) ==
    /\ request[e].pc = "claiming" /\ ~Claimable(e)
    /\ request' = [request EXCEPT ![e].pc = "reading"]
    /\ UNCHANGED <<edition, age, temporal, faults>>

(* A holder is the answer, unless it is stale and this claim did not come  *)
(* from retiring one: then Temporal is asked about it.                     *)
ReadHolder(e) ==
    /\ request[e].pc = "reading" /\ current # 0
    /\ IF request[e].holder = 0 /\ Stale(current, e)
       THEN request' = [request EXCEPT ![e].pc = "probing", ![e].holder = current]
       ELSE Answer(e)
    /\ UNCHANGED <<edition, age, temporal, faults>>

(* Mutant: the claim is tried for as long as holders come and go. *)
ClaimAgainForever(e) ==
    /\ request[e].pc = "reading" /\ current = 0
    /\ request' = [request EXCEPT ![e].pc = "claiming", ![e].tries = @ + 1]
    /\ UNCHANGED <<edition, age, temporal, faults>>

(* The holder finished meanwhile: claim again, ClaimAttempts times at most. *)
HolderFinished(e) ==
    /\ request[e].pc = "reading" /\ current = 0
    /\ IF request[e].tries + 1 < ClaimAttempts
       THEN request' = [request EXCEPT ![e].pc = "claiming", ![e].tries = @ + 1]
       ELSE Answer(e)
    /\ UNCHANGED <<edition, age, temporal, faults>>

(* Mutant: a run unknown to Temporal is taken for one that is not gone. *)
GoneWhenClosed(b) == run[b] = "closed"

(* isGlossyHolderGone: closed, or unknown to Temporal. *)
Gone(b) == run[b] \in {"none", "closed"}

ProbeGone(e) ==
    /\ request[e].pc = "probing" /\ Gone(request[e].holder)
    /\ request' = [request EXCEPT ![e].pc = "claiming", ![e].tries = 0]
    /\ UNCHANGED <<edition, age, temporal, faults>>

ProbeLive(e) ==
    /\ request[e].pc = "probing"
    /\ ~Gone(request[e].holder)
    /\ Answer(e)
    /\ UNCHANGED <<edition, age, temporal, faults>>

ProbeUnknown(e) ==
    /\ request[e].pc = "probing" /\ Fault
    /\ Answer(e)
    /\ UNCHANGED <<edition, age, temporal>>

SendStart(e) ==
    /\ request[e].pc = "starting"
    /\ starts' = starts \cup {request[e].build}
    /\ request' = [request EXCEPT ![e].pc = "awaiting"]
    /\ UNCHANGED <<edition, age, run, result, late, faults>>

Started(e) ==
    /\ request[e].pc = "awaiting" /\ run[request[e].build] # "none"
    /\ Answer(e)
    /\ UNCHANGED <<edition, age, temporal, faults>>

(* The start throws: it was refused or lost, *)
StartRefused(e) ==
    /\ request[e].pc = "awaiting"
    /\ request[e].build \notin starts /\ run[request[e].build] = "none"
    /\ request' = [request EXCEPT ![e].pc = "releasing"]
    /\ UNCHANGED <<edition, age, temporal, faults>>

(* or it is registered, or will be, and only its answer was lost. *)
StartAnswerLost(e) ==
    /\ request[e].pc = "awaiting" /\ Fault
    /\ request' = [request EXCEPT ![e].pc = "releasing"]
    /\ UNCHANGED <<edition, age, temporal>>

ReleaseGlossyClaim(e) ==
    /\ request[e].pc = "releasing"
    /\ FailGlossyBuild(request[e].build)
    /\ Answer(e)
    /\ UNCHANGED <<age, temporal, faults>>

(* The release fails, or the process dies: the request ends where it is. *)
Crash(e) ==
    /\ request[e].pc # "idle" /\ Fault
    /\ Answer(e)
    /\ UNCHANGED <<edition, age, temporal>>

-----------------------------------------------------------------------------
(* The run of an attempt: glossyEditionBuildWorkflow. *)

Register(b) ==
    /\ b \in starts
    /\ starts' = starts \ {b}
    /\ run' = [run EXCEPT ![b] = "prepare"]
    /\ UNCHANGED <<edition, age, request, result, late, faults>>

LoseStart(b) ==
    /\ b \in starts /\ Fault
    /\ starts' = starts \ {b}
    /\ UNCHANGED <<edition, age, request, run, result, late>>

Close(b, r) ==
    /\ run' = [run EXCEPT ![b] = "closed"]
    /\ result' = [result EXCEPT ![b] = r]

Advance(b, step) ==
    /\ run' = [run EXCEPT ![b] = step]
    /\ UNCHANGED result

(* guardBuild: the first thing each activity writes. *)
Guarded(b, step) ==
    IF Held(b)
    THEN Beat(b) /\ Advance(b, step)
    ELSE Close(b, "superseded") /\ MarkGlossyBuildSuperseded(b) /\ UNCHANGED age

Prepare(b) ==
    /\ run[b] = "prepare"
    /\ Guarded(b, "work")
    /\ UNCHANGED <<request, starts, late, faults>>

(* Detection, rewrites and extractions, one after another or side by side. *)
Work(b) ==
    /\ run[b] = "work"
    /\ \E step \in {"work", "finalize"} : Guarded(b, step)
    /\ UNCHANGED <<request, starts, late, faults>>

(* Finalize first asks whether an earlier execution of it published. *)
FinalizeAgain(b) ==
    /\ run[b] = "finalize"
    /\ published = b /\ current # b
    /\ Close(b, "succeeded")
    /\ UNCHANGED <<edition, age, request, starts, late, faults>>

StartFinalize(b) ==
    /\ run[b] = "finalize"
    /\ ~(published = b /\ current # b)
    /\ Guarded(b, "finalize")
    /\ late' = IF Held(b) THEN late \cup {<<b, "publish">>} ELSE late
    /\ UNCHANGED <<request, starts, faults>>

(* Its transaction, perhaps after Temporal gave up on it, beside a retry   *)
(* or after its run has closed; its answer may be lost.                    *)
Finalize(b) ==
    /\ <<b, "publish">> \in late
    /\ late' \in {late, late \ {<<b, "publish">>}}
    /\ FinalizeGlossyBuild(b)
    /\ \/ /\ run[b] = "finalize"
          /\ Close(b, IF current = b THEN "succeeded" ELSE "superseded")
       \/ UNCHANGED <<run, result>>
    /\ UNCHANGED <<age, request, starts, faults>>

(* A verdict, a cancellation, or the last attempt of an activity failed. *)
Fails(b) ==
    /\ run[b] \in {"prepare", "work", "finalize"}
    /\ Advance(b, "failing")
    /\ UNCHANGED <<edition, age, request, starts, late, faults>>

RecordFailure(b) ==
    /\ run[b] = "failing"
    /\ IF current = b THEN FailGlossyBuild(b) ELSE MarkGlossyBuildSuperseded(b)
    /\ Close(b, IF current = b THEN "failed" ELSE "superseded")
    /\ UNCHANGED <<age, request, starts, late, faults>>

(* Its attempts fail, and one may still be on its way to its write. *)
FailureUnrecorded(b) ==
    /\ run[b] = "failing" /\ Fault
    /\ Close(b, "unrecorded")
    /\ late' \in {late, late \cup {<<b, "fail">>}}
    /\ UNCHANGED <<edition, age, request, starts>>

FailLate(b) ==
    /\ <<b, "fail">> \in late
    /\ late' = late \ {<<b, "fail">>}
    /\ IF current = b THEN FailGlossyBuild(b) ELSE MarkGlossyBuildSuperseded(b)
    /\ UNCHANGED <<age, request, starts, run, result, faults>>

(* GLOSSY_BUILD_EXECUTION_TIMEOUT: a closed run executes no more code. *)
TimeOut(b) ==
    /\ run[b] \in Open
    /\ Close(b, "timedOut")
    /\ UNCHANGED <<edition, age, request, starts, late, faults>>

-----------------------------------------------------------------------------
(* Time passes; a request, or a start on its way, does not outlive *)
(* RequestBound.                                                   *)
Tick ==
    /\ \A e \in Editor : request[e].pc # "idle" => request[e].elapsed < RequestBound
    /\ \A b \in starts : age[b] < RequestBound
    /\ age' = [b \in Build |-> IF b <= claims THEN Older(age[b]) ELSE 0]
    /\ request' = [e \in Editor |->
                      IF request[e].pc = "idle" THEN NoRequest
                      ELSE [request[e] EXCEPT !.elapsed = @ + 1]]
    /\ UNCHANGED <<edition, temporal, faults>>

RequestStep(e) ==
    \/ TryClaim(e) \/ ClaimLost(e) \/ ReadHolder(e) \/ HolderFinished(e)
    \/ ProbeGone(e) \/ ProbeLive(e)
    \/ SendStart(e) \/ Started(e) \/ StartRefused(e) \/ ReleaseGlossyClaim(e)

RequestFault(e) == ProbeUnknown(e) \/ StartAnswerLost(e) \/ Crash(e)

RunStep(b) ==
    \/ Prepare(b) \/ Work(b) \/ FinalizeAgain(b) \/ StartFinalize(b) \/ Finalize(b)
    \/ Fails(b) \/ RecordFailure(b) \/ FailureUnrecorded(b) \/ FailLate(b)

Next ==
    \/ \E e \in Editor : Ask(e) \/ RequestStep(e) \/ RequestFault(e)
    \/ \E b \in Build : Register(b) \/ LoseStart(b) \/ RunStep(b) \/ TimeOut(b)
    \/ Tick

Spec == Init /\ [][Next]_vars

-----------------------------------------------------------------------------
(***************************************************************************)
(* A claim is taken over only from an attempt whose run is over, or was    *)
(* never registered and never will be: no request, with its stale read and *)
(* its earlier probe, takes the edition from a run that is still building, *)
(* nor from one whose start is on its way (dispatch-glossy-build.ts).      *)
(***************************************************************************)
LiveRunKeepsClaim ==
    [][\A b \in Build : status[b] = "BUILDING" /\ status'[b] = "SUPERSEDED"
           => run'[b] \in {"none", "closed"} /\ b \notin starts']_vars

(***************************************************************************)
(* What a build reported stays true, whatever its late executions still    *)
(* do: one that succeeded was published, and gave way to newer builds at   *)
(* most; one that failed never is published.                               *)
(***************************************************************************)
ResultIsTrue ==
    \A b \in Build :
        /\ result[b] = "succeeded" => published >= b
        /\ result[b] = "failed" => published # b

(***************************************************************************)
(* An attempt is BUILDING exactly while the edition's currentBuildId names *)
(* it, and the published attempt's row, whose snapshot a regeneration      *)
(* reads, is kept until the next publication.                              *)
(***************************************************************************)
RowsAgree ==
    /\ \A b \in Build : status[b] = "BUILDING" <=> current = b
    /\ published # 0 => status[published] = "SUCCEEDED"

(***************************************************************************)
(* The inductive invariant behind RowsAgree, ResultIsTrue,                 *)
(* LiveRunKeepsClaim and PublicationSpec (GlossyBuildsProofs).             *)
(***************************************************************************)

AttemptsAreNumbered ==
    /\ current <= claims
    /\ current # 0 => published < current
    /\ published <= claims
    /\ \A b \in Build :
          /\ b > claims => status[b] = "NONE"
          /\ result[b] = "failed" => b <= claims /\ current # b

(* A start is on its way only while its attempt's heartbeat is young.  A    *)
(* request has the attempt it claimed; and the holder it found gone is gone *)
(* still, or was registered so late that the request cannot find it stale.  *)
StartsAreYoung == \A b \in starts : age[b] <= RequestBound

RequestInOrder(q) ==
    /\ q.pc \in {"starting", "awaiting", "releasing"} => q.build \in 1 .. claims
    /\ q.pc = "starting" => age[q.build] <= q.elapsed
    /\ q.pc \in {"claiming", "reading"} /\ q.holder # 0 =>
          Gone(q.holder) \/ age[q.holder] <= StaleAfter + q.elapsed

IndInv ==
    /\ TypeOK
    /\ RowsAgree
    /\ ResultIsTrue
    /\ AttemptsAreNumbered
    /\ StartsAreYoung
    /\ \A e \in Editor : RequestInOrder(request[e])

(***************************************************************************)
(* Requests, runs and their late executions together do what an edition    *)
(* promises: the published edition is never replaced by an older build's.  *)
(***************************************************************************)
Publication == INSTANCE GlossyPublication WITH content <- {}, Visual <- {}
PublicationSpec == Publication!Spec

-----------------------------------------------------------------------------
(***************************************************************************)
(* Liveness.  Time passes, requests that are under way proceed, a start    *)
(* that is on its way arrives, Temporal closes a run at its execution      *)
(* timeout, and some editor asks for a build again and again.  No run or   *)
(* activity need ever take a step.                                         *)
(***************************************************************************)
FairSpec ==
    /\ Spec
    /\ WF_vars(Tick)
    /\ \A e \in Editor : WF_vars(Ask(e)) /\ WF_vars(RequestStep(e))
    /\ \A b \in Build : WF_vars(Register(b)) /\ WF_vars(TimeOut(b))

(***************************************************************************)
(* No attempt holds the edition forever, although its run died without a   *)
(* word, its start was lost, or the request that claimed it crashed.       *)
(***************************************************************************)
EditionIsFreed ==
    \A b \in Build : b < MaxClaims => (current = b ~> current # b)
=============================================================================
