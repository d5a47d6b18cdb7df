-------------------------- MODULE GlossyBuildsProofs -------------------------
(***************************************************************************)
(* Proofs about GlossyBuilds, for any number of editors, build attempts    *)
(* and faults, and any ages with RequestBound <= StaleAfter.               *)
(***************************************************************************)
EXTENDS GlossyBuilds, TLAPS

-----------------------------------------------------------------------------
(* What the steps change: an attempt's row in the edition, its run, and one *)
(* editor's request.                                                        *)

\* b publishes, b gives the edition back.
Publishes(b) == current = b /\ FinalizeGlossyBuild(b)
Releases(b)  == current = b /\ FailGlossyBuild(b)

\* The part of the invariant that is about attempts and their results.
EditionInv ==
    /\ claims \in 0 .. MaxClaims /\ current \in 0 .. MaxClaims /\ published \in 0 .. MaxClaims
    /\ status \in [Build -> Status] /\ result \in [Build -> Result]
    /\ RowsAgree /\ ResultIsTrue /\ AttemptsAreNumbered

\* The part that is about times, and about what requests rely on.
TimesInv ==
    /\ age \in [Build -> 0 .. OldAge]
    /\ request \in [Editor -> Request]
    /\ starts \in SUBSET Build
    /\ run \in [Build -> {"none", "closed"} \cup Open]
    /\ StartsAreYoung
    /\ \A e \in Editor : RequestInOrder(request[e])

LEMMA Parts ==
    IndInv <=> /\ EditionInv /\ TimesInv
               /\ late \in SUBSET (Build \X {"publish", "fail"})
               /\ faults \in 0 .. MaxFaults
BY DEF IndInv, TypeOK, EditionInv, TimesInv

LEMMA PartsNext ==
    ASSUME EditionInv', TimesInv', late' \in SUBSET (Build \X {"publish", "fail"}),
           faults' \in 0 .. MaxFaults
    PROVE  IndInv'
BY DEF IndInv, TypeOK, EditionInv, TimesInv

\* A result is true when it is recorded.
Truthful(b, r) ==
    /\ r \in Result
    /\ r = "succeeded" => published' = b
    /\ r = "failed" => Releases(b)

\* No run changes an attempt's row but by publishing or giving back.
LEMMA EditionStep ==
    ASSUME EditionInv, NEW b \in Build,
           UNCHANGED edition \/ Publishes(b) \/ Releases(b),
           \/ UNCHANGED result
           \/ \E r : result' = [result EXCEPT ![b] = r] /\ Truthful(b, r)
    PROVE  EditionInv'
<1> USE TimesAssumption
<1>1. /\ claims \in Nat /\ current \in Nat /\ published \in Nat /\ MaxClaims \in Nat
      /\ b \in Nat \ {0} /\ claims' = claims
      /\ current <= claims /\ published <= claims
  BY DEF EditionInv, Build, AttemptsAreNumbered, Publishes, Releases, edition,
         FinalizeGlossyBuild, FailGlossyBuild
<1>2. result' \in [Build -> Result]
  BY DEF EditionInv, Truthful
<1>3. /\ current' \in 0 .. MaxClaims /\ published' \in 0 .. MaxClaims
      /\ status' \in [Build -> Status]
  BY DEF EditionInv, Publishes, Releases, edition, FinalizeGlossyBuild, FailGlossyBuild,
         Build, Status
<1>4. /\ RowsAgree'
      /\ published' >= published
      /\ current' \in {0, current}
      /\ current' # 0 => published' < current'
      /\ published' <= claims
      /\ \A o \in Build : o > claims => status'[o] = "NONE"
  <2>1. CASE UNCHANGED edition
    BY <1>1, <2>1 DEF edition, EditionInv, RowsAgree, AttemptsAreNumbered
  <2>2. CASE Publishes(b)
    BY <1>1, <2>2
       DEF Publishes, FinalizeGlossyBuild, EditionInv, RowsAgree, AttemptsAreNumbered, Build
  <2>3. CASE Releases(b)
    BY <1>1, <2>3
       DEF Releases, FailGlossyBuild, EditionInv, RowsAgree, AttemptsAreNumbered, Build
  <2> QED
    BY <2>1, <2>2, <2>3
<1>5. \A o \in Build : result[o] = "failed" => published' # o /\ current' # o /\ o <= claims
  <2>1. CASE UNCHANGED edition
    BY <2>1 DEF edition, EditionInv, ResultIsTrue, AttemptsAreNumbered
  <2>2. CASE Publishes(b)
    BY <1>1, <2>2 DEF Publishes, FinalizeGlossyBuild, EditionInv, AttemptsAreNumbered, Build
  <2>3. CASE Releases(b)
    BY <1>1, <2>3
       DEF Releases, FailGlossyBuild, EditionInv, ResultIsTrue, AttemptsAreNumbered, Build
  <2> QED
    BY <2>1, <2>2, <2>3
<1>6. Releases(b) => published' # b /\ current' # b /\ b <= claims
  BY <1>1 DEF Releases, FailGlossyBuild, EditionInv, AttemptsAreNumbered
<1>7. \A o \in Build : result'[o] = "failed" => published' # o /\ current' # o /\ o <= claims
  BY <1>5, <1>6 DEF EditionInv, Truthful
<1>8. \A o \in Build : result'[o] = "succeeded" => published' >= o
  <2>1. \A o \in Build : o \in Nat /\ (result[o] = "succeeded" => published >= o)
    BY DEF EditionInv, ResultIsTrue, Build
  <2>2. published' \in Nat
    BY <1>1, <1>3
  <2> QED
    BY <1>1, <1>4, <2>1, <2>2 DEF EditionInv, Truthful
<1> QED
  BY <1>1, <1>2, <1>3, <1>4, <1>7, <1>8
     DEF EditionInv, ResultIsTrue, AttemptsAreNumbered

\* Time aside, heartbeats only get younger; what is gone stays so, or is young.
LEMMA TimesStep ==
    ASSUME TimesInv, UNCHANGED request, claims \in Nat, claims' \in Nat, claims <= claims',
           age' \in [Build -> 0 .. OldAge], starts' \subseteq starts,
           run' \in [Build -> {"none", "closed"} \cup Open],
           \A b \in Build : age'[b] <= age[b] /\ (Gone(b) => Gone(b)' \/ age'[b] <= StaleAfter)
    PROVE  TimesInv'
<1> USE TimesAssumption
<1>1. \A b \in Build : age[b] \in Nat /\ age'[b] \in Nat
  BY DEF TimesInv, OldAge
<1>2. StartsAreYoung'
  BY <1>1 DEF TimesInv, StartsAreYoung
<1>3. ASSUME NEW e \in Editor
      PROVE  RequestInOrder(request[e])'
  <2> DEFINE q == request[e]
  <2>1. /\ RequestInOrder(q) /\ q.elapsed \in Nat
        /\ q.holder # 0 => q.holder \in Build
        /\ q.build \in 1 .. claims => q.build \in Build
    BY DEF TimesInv, Request, Build
  <2>2. q.pc \in {"starting", "awaiting", "releasing"} => q.build \in 1 .. claims'
    BY <2>1 DEF RequestInOrder
  <2>3. q.pc = "starting" => age'[q.build] <= q.elapsed
    BY <1>1, <2>1 DEF RequestInOrder
  <2>4. q.pc \in {"claiming", "reading"} /\ q.holder # 0 =>
           Gone(q.holder)' \/ age'[q.holder] <= StaleAfter + q.elapsed
    BY <1>1, <2>1 DEF RequestInOrder
  <2> QED
    BY <2>2, <2>3, <2>4 DEF RequestInOrder, Gone
<1> QED
  BY <1>2, <1>3 DEF TimesInv

-----------------------------------------------------------------------------
(* The steps of runs and of their executions.                               *)

\* The write that took an attempt's claim has marked its row: nothing is left.
LEMMA MarkIsNothing ==
    ASSUME EditionInv, NEW b \in Build, MarkGlossyBuildSuperseded(b)
    PROVE  UNCHANGED edition
BY DEF EditionInv, RowsAgree, MarkGlossyBuildSuperseded, edition

\* A run's step changes its attempt's row, heartbeat, run and result only.
LEMMA RunChanges ==
    ASSUME IndInv, NEW b \in Build, UNCHANGED <<request, starts>>,
           UNCHANGED edition \/ Publishes(b) \/ Releases(b),
           UNCHANGED age \/ age' = [age EXCEPT ![b] = 0],
           \/ UNCHANGED <<run, result>>
           \/ run[b] \in Open /\ \E step \in Open : Advance(b, step)
           \/ \E r : Close(b, r) /\ Truthful(b, r),
           late' \in SUBSET (Build \X {"publish", "fail"}), faults' \in 0 .. MaxFaults
    PROVE  IndInv'
<1>1. EditionInv /\ TimesInv
  BY Parts
<1>2. EditionInv'
  BY <1>1, EditionStep DEF Advance, Close
<1>3. claims' = claims /\ claims \in Nat
  BY <1>1, TimesAssumption
     DEF EditionInv, Publishes, Releases, edition, FinalizeGlossyBuild, FailGlossyBuild
<1>4. /\ run' \in [Build -> {"none", "closed"} \cup Open]
      /\ \A o \in Build : Gone(o) => Gone(o)'
  BY <1>1 DEF TimesInv, Advance, Close, Gone, Open
<1>5. /\ age' \in [Build -> 0 .. OldAge]
      /\ \A o \in Build : age'[o] <= age[o]
  <2>1. \A o \in Build : age[o] \in 0 .. OldAge
    BY <1>1 DEF TimesInv
  <2>2. OldAge \in Nat
    BY TimesAssumption DEF OldAge
  <2>3. age' \in [Build -> 0 .. OldAge]
    BY <1>1, <2>2 DEF TimesInv
  <2>4. \A o \in Build : age'[o] \in {0, age[o]}
    BY <1>1 DEF TimesInv
  <2> QED
    BY <2>1, <2>2, <2>3, <2>4
<1>6. TimesInv'
  BY <1>1, <1>3, <1>4, <1>5, TimesStep
<1> QED
  BY <1>2, <1>6, PartsNext

\* guardBuild, at an open run.
LEMMA GuardedChanges ==
    ASSUME IndInv, NEW b \in Build, NEW step \in Open, run[b] \in Open, Guarded(b, step)
    PROVE  /\ UNCHANGED edition
           /\ UNCHANGED age \/ age' = [age EXCEPT ![b] = 0]
           /\ \/ run[b] \in Open /\ \E s \in Open : Advance(b, s)
              \/ \E r : Close(b, r) /\ Truthful(b, r)
<1>1. EditionInv
  BY Parts
<1>2. CASE Held(b)
  BY <1>2 DEF Guarded, Beat
<1>3. CASE ~Held(b)
  <2>1. /\ Close(b, "superseded") /\ Truthful(b, "superseded") /\ UNCHANGED age
    BY <1>3 DEF Guarded, Truthful, Result
  <2>2. UNCHANGED edition
    BY <1>1, <1>3, MarkIsNothing DEF Guarded
  <2> QED
    BY <2>1, <2>2
<1> QED
  BY <1>2, <1>3

LEMMA GuardedSteps ==
    ASSUME IndInv, NEW b \in Build, Prepare(b) \/ Work(b) \/ StartFinalize(b)
    PROVE  IndInv'
<1>1. /\ late \in SUBSET (Build \X {"publish", "fail"})
      /\ late' \in SUBSET (Build \X {"publish", "fail"})
      /\ faults' = faults /\ faults \in 0 .. MaxFaults
  BY Parts DEF Prepare, Work, StartFinalize
<1>2. /\ UNCHANGED <<request, starts>>
      /\ run[b] \in Open /\ \E step \in Open : Guarded(b, step)
  BY DEF Prepare, Work, StartFinalize, Open
<1>3. PICK step \in Open : Guarded(b, step)
  BY <1>2
<1>4. /\ UNCHANGED edition
      /\ UNCHANGED age \/ age' = [age EXCEPT ![b] = 0]
      /\ \/ run[b] \in Open /\ \E s \in Open : Advance(b, s)
         \/ \E r : Close(b, r) /\ Truthful(b, r)
  BY <1>2, <1>3, GuardedChanges
<1> QED
  BY <1>1, <1>2, <1>4, RunChanges

LEMMA FinalizeAgainStep ==
    ASSUME IndInv, NEW b \in Build, FinalizeAgain(b)
    PROVE  IndInv'
<1>1. Close(b, "succeeded") /\ Truthful(b, "succeeded")
  BY DEF FinalizeAgain, Truthful, Result, edition
<1>2. /\ UNCHANGED <<request, starts>> /\ UNCHANGED edition /\ UNCHANGED age
      /\ UNCHANGED <<late, faults>>
  BY DEF FinalizeAgain
<1> QED
  BY <1>1, <1>2, Parts, RunChanges

LEMMA FinalizeStep ==
    ASSUME IndInv, NEW b \in Build, Finalize(b)
    PROVE  IndInv'
<1>1. EditionInv
  BY Parts
<1>2. UNCHANGED edition \/ Publishes(b)
  BY <1>1, MarkIsNothing DEF Finalize, FinalizeGlossyBuild, Publishes
<1>3. \/ UNCHANGED <<run, result>>
      \/ \E r : Close(b, r) /\ Truthful(b, r)
  BY DEF Finalize, FinalizeGlossyBuild, Truthful, Result
<1>4. /\ UNCHANGED <<request, starts, age, faults>>
      /\ late' \in {late, late \ {<<b, "publish">>}}
  BY DEF Finalize
<1> QED
  BY <1>2, <1>3, <1>4, Parts, RunChanges

LEMMA FailingSteps ==
    ASSUME IndInv, NEW b \in Build,
           Fails(b) \/ RecordFailure(b) \/ FailureUnrecorded(b) \/ FailLate(b) \/ TimeOut(b)
    PROVE  IndInv'
<1> DEFINE Write == IF current = b THEN FailGlossyBuild(b) ELSE MarkGlossyBuildSuperseded(b)
<1>1. EditionInv
  BY Parts
<1>2. Write => UNCHANGED edition \/ Releases(b)
  BY <1>1, MarkIsNothing DEF Releases
<1>3. /\ UNCHANGED edition \/ Releases(b)
      /\ UNCHANGED <<age, request, starts>>
  BY <1>2 DEF Fails, RecordFailure, FailureUnrecorded, FailLate, TimeOut
<1>4. \/ UNCHANGED <<run, result>>
      \/ run[b] \in Open /\ \E step \in Open : Advance(b, step)
      \/ \E r : Close(b, r) /\ Truthful(b, r)
  <2>1. CASE Fails(b)
    BY <2>1 DEF Fails, Open
  <2>2. CASE RecordFailure(b)
    BY <2>2 DEF RecordFailure, Truthful, Result, Releases
  <2>3. CASE FailureUnrecorded(b)
    BY <2>3 DEF FailureUnrecorded, Truthful, Result
  <2>4. CASE FailLate(b)
    BY <2>4 DEF FailLate
  <2>5. CASE TimeOut(b)
    BY <2>5 DEF TimeOut, Truthful, Result
  <2> QED
    BY <2>1, <2>2, <2>3, <2>4, <2>5
<1>5. late' \in SUBSET (Build \X {"publish", "fail"}) /\ faults' \in 0 .. MaxFaults
  BY Parts, TimesAssumption DEF Fails, RecordFailure, FailureUnrecorded, FailLate, TimeOut, Fault
<1> QED
  BY <1>3, <1>4, <1>5, RunChanges

\* A start arrives, and its attempt's heartbeat is young; or it is lost.
LEMMA StartSteps ==
    ASSUME IndInv, NEW b \in Build, Register(b) \/ LoseStart(b)
    PROVE  IndInv'
<1>1. EditionInv /\ TimesInv /\ b \in starts
  BY Parts DEF Register, LoseStart
<1>2. /\ UNCHANGED edition /\ UNCHANGED <<age, request, result, late>>
      /\ starts' = starts \ {b}
      /\ run' = run \/ run' = [run EXCEPT ![b] = "prepare"]
      /\ faults' \in 0 .. MaxFaults
  BY Parts, TimesAssumption DEF Register, LoseStart, Fault
<1>3. EditionInv'
  BY <1>1, <1>2, EditionStep
<1>4. /\ age' \in [Build -> 0 .. OldAge]
      /\ \A o \in Build : age'[o] <= age[o] /\ (Gone(o) => Gone(o)' \/ age'[o] <= StaleAfter)
  <2>1. \A o \in Build : age[o] \in Nat
    BY <1>1, TimesAssumption DEF TimesInv, OldAge
  <2>2. age[b] <= StaleAfter
    BY <1>1, <2>1, TimesAssumption DEF TimesInv, StartsAreYoung
  <2>3. \A o \in Build \ {b} : Gone(o) => Gone(o)'
    BY <1>1, <1>2 DEF TimesInv, Gone
  <2> QED
    BY <1>1, <1>2, <2>1, <2>2, <2>3 DEF TimesInv
<1>5. run' \in [Build -> {"none", "closed"} \cup Open]
  BY <1>1, <1>2 DEF TimesInv, Open
<1>6. claims \in Nat /\ claims' = claims
  BY <1>1, <1>2, TimesAssumption DEF EditionInv, edition
<1>7. TimesInv'
  BY <1>1, <1>2, <1>4, <1>5, <1>6, TimesStep
<1> QED
  BY <1>2, <1>3, <1>7, Parts, PartsNext

-----------------------------------------------------------------------------
(* The steps of requests.                                                   *)

\* Only e's request changes, and which starts are on their way.
LEMMA RequestChanges ==
    ASSUME TimesInv, NEW e \in Editor, NEW q \in Request,
           request' = [request EXCEPT ![e] = q], RequestInOrder(q),
           UNCHANGED <<claims, age, run>>,
           starts' \in SUBSET Build, \A b \in starts' : age[b] <= RequestBound
    PROVE  TimesInv'
<1>1. request' \in [Editor -> Request]
  BY DEF TimesInv
<1>2. ASSUME NEW d \in Editor
      PROVE  RequestInOrder(request[d])'
  <2>1. RequestInOrder(request'[d])
    BY DEF TimesInv
  <2> QED
    BY <2>1 DEF RequestInOrder, Gone
<1> QED
  BY <1>1, <1>2 DEF TimesInv, StartsAreYoung

\* Nothing else changes.
LEMMA RequestOnly ==
    ASSUME IndInv, NEW e \in Editor, NEW q \in Request,
           request' = [request EXCEPT ![e] = q], RequestInOrder(q),
           UNCHANGED <<edition, age, temporal>>, faults' \in 0 .. MaxFaults
    PROVE  IndInv'
<1>1. EditionInv'
  BY Parts DEF EditionInv, RowsAgree, ResultIsTrue, AttemptsAreNumbered, edition, temporal
<1>2. TimesInv'
  BY Parts, RequestChanges DEF edition, temporal, TimesInv, StartsAreYoung
<1> QED
  BY <1>1, <1>2, Parts, PartsNext DEF temporal

LEMMA RequestFacts ==
    ASSUME IndInv, NEW e \in Editor
    PROVE  /\ request[e] \in Request /\ RequestInOrder(request[e])
           /\ request \in [Editor -> Request]
           /\ NoRequest \in Request /\ RequestInOrder(NoRequest)
           /\ faults \in 0 .. MaxFaults
           /\ current \in 0 .. MaxClaims /\ claims \in 0 .. MaxClaims
BY Parts, TimesAssumption
   DEF TimesInv, EditionInv, NoRequest, Requesting, Request, RequestPC, RequestInOrder

\* A request is answered.
LEMMA AnswerStep ==
    ASSUME IndInv, NEW e \in Editor, Answer(e), UNCHANGED <<edition, age, temporal>>,
           faults' = faults \/ Fault
    PROVE  IndInv'
<1>1. faults' \in 0 .. MaxFaults
  BY RequestFacts, TimesAssumption DEF Fault
<1> QED
  BY <1>1, RequestFacts, RequestOnly DEF Answer

\* A request goes on to its next step; one that claims has found its holder gone.
LEMMA ToStep ==
    ASSUME IndInv, NEW e \in Editor, NEW q \in Request, request' = [request EXCEPT ![e] = q],
           q.pc \in {"claiming", "reading", "probing", "releasing"},
           q.build = request[e].build, q.elapsed = request[e].elapsed,
           q.pc \in {"claiming", "reading"} /\ q.holder # 0 =>
              \/ Gone(q.holder)
              \/ q.holder = request[e].holder /\ request[e].pc \in {"claiming", "reading"},
           q.pc = "releasing" => request[e].pc = "awaiting",
           UNCHANGED <<edition, age, temporal>>, faults' = faults \/ Fault
    PROVE  IndInv'
<1>1. faults' \in 0 .. MaxFaults
  BY RequestFacts, TimesAssumption DEF Fault
<1>2. RequestInOrder(q)
  BY RequestFacts DEF RequestInOrder
<1> QED
  BY <1>1, <1>2, RequestOnly

LEMMA ClaimingSteps ==
    ASSUME IndInv, NEW e \in Editor,
           ClaimLost(e) \/ ReadHolder(e) \/ HolderFinished(e) \/ ProbeGone(e)
    PROVE  IndInv'
<1> DEFINE x == request[e]
<1>1. /\ x \in Request /\ request \in [Editor -> Request]
      /\ current \in 0 .. MaxClaims
      /\ x.tries + 1 < ClaimAttempts => x.tries + 1 \in 0 .. ClaimAttempts - 1
      /\ 0 \in 0 .. ClaimAttempts - 1
  BY RequestFacts, TimesAssumption DEF Request
<1>2. CASE ClaimLost(e)
  <2> DEFINE q == [x EXCEPT !.pc = "reading"]
  <2>1. /\ q \in Request /\ q.pc = "reading" /\ q.holder = x.holder
        /\ q.build = x.build /\ q.elapsed = x.elapsed
    BY <1>1 DEF Request, RequestPC
  <2>2. request' = [request EXCEPT ![e] = q]
    BY <1>2 DEF ClaimLost
  <2> HIDE DEF q
  <2> QED
    BY <1>2, <2>1, <2>2, ToStep DEF ClaimLost
<1>3. CASE ReadHolder(e)
  <2> DEFINE q == [x EXCEPT !.pc = "probing", !.holder = current]
  <2>1. /\ q \in Request /\ q.pc = "probing" /\ q.build = x.build /\ q.elapsed = x.elapsed
    BY <1>1 DEF Request, RequestPC
  <2>2. request' = [request EXCEPT ![e] = q] \/ Answer(e)
    BY <1>3 DEF ReadHolder
  <2> HIDE DEF q
  <2> QED
    BY <1>3, <2>1, <2>2, ToStep, AnswerStep DEF ReadHolder
<1>4. CASE HolderFinished(e)
  <2>1. CASE x.tries + 1 < ClaimAttempts
    <3> DEFINE q == [x EXCEPT !.pc = "claiming", !.tries = x.tries + 1]
    <3>1. /\ q \in Request /\ q.pc = "claiming" /\ q.holder = x.holder
          /\ q.build = x.build /\ q.elapsed = x.elapsed
      BY <1>1, <2>1 DEF Request, RequestPC
    <3>2. request' = [request EXCEPT ![e] = q]
      BY <1>4, <2>1 DEF HolderFinished
    <3> HIDE DEF q
    <3> QED
      BY <1>4, <3>1, <3>2, ToStep DEF HolderFinished
  <2>2. CASE ~(x.tries + 1 < ClaimAttempts)
    BY <1>4, <2>2, AnswerStep DEF HolderFinished
  <2> QED
    BY <2>1, <2>2
<1>5. CASE ProbeGone(e)
  <2> DEFINE q == [x EXCEPT !.pc = "claiming", !.tries = 0]
  <2>1. /\ q \in Request /\ q.pc = "claiming" /\ q.holder = x.holder
        /\ q.build = x.build /\ q.elapsed = x.elapsed
    BY <1>1 DEF Request, RequestPC
  <2>2. request' = [request EXCEPT ![e] = q]
    BY <1>5 DEF ProbeGone
  <2> HIDE DEF q
  <2> QED
    BY <1>5, <2>1, <2>2, ToStep DEF ProbeGone
<1> QED
  BY <1>2, <1>3, <1>4, <1>5

LEMMA AnsweringSteps ==
    ASSUME IndInv, NEW e \in Editor,
           ProbeLive(e) \/ Started(e) \/ ProbeUnknown(e) \/ Crash(e)
    PROVE  IndInv'
BY AnswerStep DEF ProbeLive, Started, ProbeUnknown, Crash

LEMMA StartFailsSteps ==
    ASSUME IndInv, NEW e \in Editor, StartRefused(e) \/ StartAnswerLost(e)
    PROVE  IndInv'
<1> DEFINE x == request[e]
           q == [x EXCEPT !.pc = "releasing"]
<1>1. /\ q \in Request /\ q.pc = "releasing" /\ q.build = x.build /\ q.elapsed = x.elapsed
  BY RequestFacts DEF Request, RequestPC
<1>2. request' = [request EXCEPT ![e] = q] /\ x.pc = "awaiting"
  BY DEF StartRefused, StartAnswerLost
<1>3. UNCHANGED <<edition, age, temporal>> /\ (faults' = faults \/ Fault)
  BY DEF StartRefused, StartAnswerLost
<1> HIDE DEF q
<1> QED
  BY <1>1, <1>2, <1>3, ToStep

LEMMA AskStep ==
    ASSUME IndInv, NEW e \in Editor, Ask(e)
    PROVE  IndInv'
<1> DEFINE q == Requesting("claiming", 0, 0, 0, 0)
<1>1. q \in Request /\ RequestInOrder(q)
  BY TimesAssumption DEF Requesting, Request, RequestPC, RequestInOrder
<1> HIDE DEF q
<1>2. request' = [request EXCEPT ![e] = q]
  BY DEF Ask, q
<1> QED
  BY <1>1, <1>2, RequestFacts, RequestOnly DEF Ask

\* The start goes out while the attempt's heartbeat is the request's own clock.
LEMMA SendStartStep ==
    ASSUME IndInv, NEW e \in Editor, SendStart(e)
    PROVE  IndInv'
<1> DEFINE x == request[e]
           q == [x EXCEPT !.pc = "awaiting"]
<1>1. /\ q \in Request /\ q.pc = "awaiting" /\ q.build = x.build
      /\ x.elapsed \in 0 .. RequestBound /\ x.build \in 0 .. MaxClaims
      /\ x.pc = "starting" /\ starts' = starts \cup {x.build}
      /\ request' = [request EXCEPT ![e] = q]
  BY RequestFacts DEF Request, RequestPC, SendStart
<1>2. x.build \in Build /\ x.build \in 1 .. claims /\ age[x.build] <= x.elapsed
  BY <1>1, RequestFacts DEF RequestInOrder, Build
<1>3. RequestInOrder(q)
  BY <1>1, <1>2 DEF RequestInOrder
<1>4. starts' \in SUBSET Build /\ \A b \in starts' : age[b] <= RequestBound
  <2>1. age[x.build] <= RequestBound
    BY <1>1, <1>2, Parts, TimesAssumption DEF TimesInv, OldAge
  <2> QED
    BY <1>1, <1>2, <2>1, Parts DEF TimesInv, StartsAreYoung
<1> HIDE DEF q
<1>5. UNCHANGED <<claims, current, published, status, age, run, result, late, faults>>
  BY DEF SendStart, edition
<1>6. TimesInv'
  BY <1>1, <1>3, <1>4, <1>5, Parts, RequestChanges
<1>7. EditionInv'
  BY <1>5, Parts DEF EditionInv, RowsAgree, ResultIsTrue, AttemptsAreNumbered
<1> QED
  BY <1>5, <1>6, <1>7, Parts, PartsNext

LEMMA ReleaseStep ==
    ASSUME IndInv, NEW e \in Editor, ReleaseGlossyClaim(e)
    PROVE  IndInv'
<1> DEFINE b == request[e].build
<1>1. /\ b \in Build /\ FailGlossyBuild(b)
      /\ request' = [request EXCEPT ![e] = NoRequest]
      /\ UNCHANGED <<age, temporal, faults>>
  <2>1. b \in 1 .. claims
    BY RequestFacts DEF ReleaseGlossyClaim, RequestInOrder
  <2>2. b \in Build
    BY <2>1, RequestFacts, TimesAssumption DEF Build
  <2> QED
    BY <2>2 DEF ReleaseGlossyClaim, Answer
<1>2. UNCHANGED edition \/ Releases(b)
  BY <1>1 DEF FailGlossyBuild, Releases
<1>3. EditionInv' /\ claims' = claims
  <2>1. UNCHANGED result
    BY <1>1 DEF temporal
  <2> QED
    BY <1>1, <1>2, <2>1, Parts, EditionStep DEF edition, Releases, FailGlossyBuild
<1>4. TimesInv'
  BY <1>1, <1>3, RequestFacts, RequestChanges, Parts DEF temporal, TimesInv, StartsAreYoung
<1> QED
  BY <1>1, <1>3, <1>4, Parts, PartsNext DEF temporal

\* The claim: a holder it retires has its row marked, and no other is BUILDING.
LEMMA TryClaimStep ==
    ASSUME IndInv, NEW e \in Editor, TryClaim(e)
    PROVE  IndInv'
<1> DEFINE x == request[e]
           b == claims + 1
           q == [x EXCEPT !.pc = "starting", !.build = b]
<1>1. /\ EditionInv /\ TimesInv /\ x \in Request /\ MaxClaims \in Nat
      /\ claims \in Nat /\ b \in Build /\ claims' = b /\ current' = b
      /\ request' = [request EXCEPT ![e] = q]
      /\ age' = [age EXCEPT ![b] = x.elapsed]
      /\ UNCHANGED <<published, starts, run, result, late, faults>>
  <2>1. /\ EditionInv /\ TimesInv /\ x \in Request /\ MaxClaims \in Nat
        /\ claims \in Nat /\ b \in Build
    BY Parts, RequestFacts, TimesAssumption DEF TryClaim, Build
  <2>2. request' = [request EXCEPT ![e] = q]
    BY RequestFacts DEF TryClaim
  <2> QED
    BY <2>1, <2>2 DEF TryClaim, temporal
<1>2. /\ status' = [o \in Build |->
                     IF o = b THEN "BUILDING"
                     ELSE IF Retirable(e) /\ o = x.holder THEN "SUPERSEDED"
                     ELSE status[o]]
      /\ current = 0 \/ (Retirable(e) /\ current = x.holder)
  BY DEF TryClaim, Claimable
<1>3. x.elapsed \in 0 .. RequestBound /\ RequestBound \in 0 .. StaleAfter /\ StaleAfter \in Nat
  BY <1>1, TimesAssumption DEF Request
<1>4. EditionInv'
  <2>1. /\ status' \in [Build -> Status] /\ result' \in [Build -> Result]
        /\ claims' \in 0 .. MaxClaims /\ current' \in 0 .. MaxClaims
        /\ published' \in 0 .. MaxClaims /\ published <= claims
        /\ current <= claims
    BY <1>1, <1>2 DEF EditionInv, Status, Build, AttemptsAreNumbered
  <2>2. RowsAgree'
    <3>1. ASSUME NEW o \in Build
          PROVE  status'[o] = "BUILDING" <=> current' = o
      <4>1. o # 0 /\ (status[o] = "BUILDING" <=> current = o)
        BY <1>1 DEF EditionInv, RowsAgree, Build
      <4> QED
        BY <1>1, <1>2, <4>1
    <3>2. published # 0 => status'[published] = "SUCCEEDED"
      <4>1. published # 0 => published \in Build /\ published # b /\ status[published] = "SUCCEEDED"
        BY <1>1, <2>1 DEF EditionInv, RowsAgree, Build
      <4>2. Retirable(e) => status[x.holder] = "BUILDING"
        BY DEF Retirable
      <4> QED
        BY <1>2, <4>1, <4>2
    <3> QED
      BY <1>1, <3>1, <3>2 DEF RowsAgree
  <2>3. ResultIsTrue'
    BY <1>1 DEF EditionInv, ResultIsTrue
  <2>4. AttemptsAreNumbered'
    <3>1. ASSUME NEW o \in Build, o > b
          PROVE  status'[o] = "NONE"
      <4>1. status[o] = "NONE" /\ o > claims
        BY <1>1, <3>1 DEF EditionInv, AttemptsAreNumbered, Build
      <4>2. Retirable(e) => status[x.holder] = "BUILDING"
        BY DEF Retirable
      <4> QED
        BY <1>1, <1>2, <3>1, <4>1, <4>2
    <3>2. ASSUME NEW o \in Build, result[o] = "failed"
          PROVE  o <= b /\ b # o
      BY <1>1, <3>2 DEF EditionInv, AttemptsAreNumbered, Build
    <3>3. published \in Nat
      BY <1>1, <2>1
    <3> QED
      BY <1>1, <2>1, <3>1, <3>2, <3>3 DEF AttemptsAreNumbered
  <2> QED
    BY <2>1, <2>2, <2>3, <2>4 DEF EditionInv
<1>5. \A o \in Build : age'[o] = IF o = b THEN x.elapsed ELSE age[o]
  BY <1>1 DEF TimesInv
<1>6. age' \in [Build -> 0 .. OldAge] /\ request' \in [Editor -> Request]
  <2>1. x.elapsed \in 0 .. OldAge
    BY <1>3 DEF OldAge
  <2>2. b \in 0 .. MaxClaims /\ x \in Request
    BY <1>1 DEF Build
  <2>3. q \in Request
    BY <2>2 DEF Request, RequestPC
  <2> QED
    BY <1>1, <2>1, <2>3 DEF TimesInv
<1>7. StartsAreYoung'
  BY <1>1, <1>3, <1>5 DEF TimesInv, StartsAreYoung
<1>8. ASSUME NEW d \in Editor
      PROVE  RequestInOrder(request[d])'
  <2>1. CASE d = e
    <3>1. /\ request'[d] = q /\ q.pc = "starting" /\ q.build = b /\ q.elapsed = x.elapsed
      BY <1>1, <2>1 DEF TimesInv, Request
    <3>2. b \in 1 .. claims' /\ age'[b] <= x.elapsed
      BY <1>1, <1>3, <1>5
    <3> HIDE DEF q, b, x
    <3> QED
      BY <3>1, <3>2 DEF RequestInOrder
  <2>2. CASE d # e
    <3> DEFINE y == request[d]
    <3>1. /\ request'[d] = y /\ RequestInOrder(y) /\ y.elapsed \in Nat
          /\ y.holder # 0 => y.holder \in Build
      BY <1>1, <2>2 DEF TimesInv, Request, Build
    <3>2. y.pc \in {"starting", "awaiting", "releasing"} => y.build \in 1 .. claims'
      BY <1>1, <3>1 DEF RequestInOrder
    <3>3. y.pc = "starting" => age'[y.build] <= y.elapsed
      <4>1. y.build \in 1 .. claims => y.build \in Build /\ y.build # b
        BY <1>1 DEF Build
      <4> QED
        BY <1>5, <3>1, <4>1 DEF RequestInOrder
    <3>4. y.pc \in {"claiming", "reading"} /\ y.holder # 0 =>
             Gone(y.holder)' \/ age'[y.holder] <= StaleAfter + y.elapsed
      BY <1>1, <1>3, <1>5, <3>1 DEF RequestInOrder, Gone
    <3> QED
      BY <3>1, <3>2, <3>3, <3>4 DEF RequestInOrder, Gone
  <2> QED
    BY <2>1, <2>2
<1>9. TimesInv'
  BY <1>1, <1>6, <1>7, <1>8 DEF TimesInv
<1> QED
  BY <1>1, <1>4, <1>9, Parts, PartsNext

\* Heartbeats and requests grow older together.
LEMMA TickStep ==
    ASSUME IndInv, Tick
    PROVE  IndInv'
<1>1. /\ EditionInv /\ TimesInv
      /\ age' = [b \in Build |-> IF b <= claims THEN Older(age[b]) ELSE 0]
      /\ request' = [e \in Editor |->
                        IF request[e].pc = "idle" THEN NoRequest
                        ELSE [request[e] EXCEPT !.elapsed = @ + 1]]
      /\ UNCHANGED <<claims, current, published, status, starts, run, result, late, faults>>
  BY Parts DEF Tick, edition, temporal
<1>2. /\ StaleAfter \in Nat /\ RequestBound \in 0 .. StaleAfter /\ OldAge \in Nat
      /\ claims \in Nat
  BY <1>1, TimesAssumption DEF OldAge, EditionInv
<1>3. ASSUME NEW b \in Build
      PROVE  age[b] \in Nat /\ age'[b] \in 0 .. OldAge /\ age'[b] <= age[b] + 1
  <2>1. age[b] \in 0 .. OldAge
    BY <1>1 DEF TimesInv
  <2>2. age'[b] = IF b <= claims THEN Older(age[b]) ELSE 0
    BY <1>1
  <2> QED
    BY <1>2, <2>1, <2>2 DEF Older
<1>4. age' \in [Build -> 0 .. OldAge]
  BY <1>1, <1>3
<1>5. StartsAreYoung'
  <2> SUFFICES ASSUME NEW b \in starts PROVE age'[b] <= RequestBound
    BY <1>1 DEF StartsAreYoung
  <2>1. b \in Build /\ age[b] < RequestBound
    BY <1>1 DEF TimesInv, Tick
  <2> QED
    BY <1>2, <1>3, <2>1
<1>6. ASSUME NEW e \in Editor
      PROVE  request'[e] \in Request /\ RequestInOrder(request[e])'
  <2> DEFINE x == request[e]
  <2>1. CASE x.pc = "idle"
    <3>1. request'[e] = NoRequest /\ NoRequest.pc = "idle" /\ NoRequest \in Request
      BY <1>1, <2>1, RequestFacts DEF NoRequest, Requesting
    <3> QED
      BY <3>1 DEF RequestInOrder
  <2>2. CASE x.pc # "idle"
    <3>1. /\ x \in Request /\ RequestInOrder(x) /\ x.elapsed \in Nat
          /\ x.elapsed < RequestBound
      BY <1>1, <2>2 DEF TimesInv, Tick, Request
    <3>2. request'[e] = [x EXCEPT !.elapsed = x.elapsed + 1]
      BY <1>1, <2>2
    <3>3. /\ request'[e] \in Request /\ request'[e].pc = x.pc
          /\ request'[e].build = x.build /\ request'[e].holder = x.holder
          /\ request'[e].elapsed = x.elapsed + 1
      BY <1>2, <3>1, <3>2 DEF Request
    <3>4. x.build \in 1 .. claims => x.build \in Build
      BY <1>1, TimesAssumption DEF EditionInv, Build
    <3>5. x.holder # 0 => x.holder \in Build
      BY <3>1 DEF Request, Build
    <3>6. x.pc = "starting" => age'[x.build] <= x.elapsed + 1
      BY <1>3, <3>1, <3>4 DEF RequestInOrder
    <3>7. x.pc \in {"claiming", "reading"} /\ x.holder # 0 =>
             Gone(x.holder)' \/ age'[x.holder] <= StaleAfter + x.elapsed + 1
      BY <1>1, <1>2, <1>3, <3>1, <3>5 DEF RequestInOrder, Gone
    <3> QED
      BY <1>1, <1>2, <3>1, <3>3, <3>6, <3>7 DEF RequestInOrder, Gone
  <2> QED
    BY <2>1, <2>2
<1>7. TimesInv'
  BY <1>1, <1>4, <1>5, <1>6 DEF TimesInv
<1>8. EditionInv'
  BY <1>1 DEF EditionInv, RowsAgree, ResultIsTrue, AttemptsAreNumbered
<1> QED
  BY <1>1, <1>7, <1>8, Parts, PartsNext

-----------------------------------------------------------------------------
LEMMA InitInv ==
    ASSUME Init
    PROVE  IndInv
<1> USE TimesAssumption
<1>1. NoRequest \in Request /\ NoRequest.pc = "idle"
  BY DEF NoRequest, Requesting, Request, RequestPC
<1>2. TypeOK
  BY <1>1 DEF Init, TypeOK, Status, Result, OldAge
<1>3. RowsAgree /\ ResultIsTrue /\ AttemptsAreNumbered /\ StartsAreYoung
  BY DEF Init, RowsAgree, ResultIsTrue, AttemptsAreNumbered, StartsAreYoung, Build
<1>4. \A e \in Editor : RequestInOrder(request[e])
  BY <1>1 DEF Init, RequestInOrder
<1> QED
  BY <1>2, <1>3, <1>4 DEF IndInv

LEMMA StutterStep ==
    ASSUME IndInv, UNCHANGED vars
    PROVE  IndInv'
BY DEF vars, edition, temporal, IndInv, TypeOK, RowsAgree, ResultIsTrue,
       AttemptsAreNumbered, StartsAreYoung, RequestInOrder, Gone

LEMMA StepInv ==
    ASSUME IndInv, [Next]_vars
    PROVE  IndInv'
<1>1. ASSUME NEW e \in Editor, Ask(e) \/ RequestStep(e) \/ RequestFault(e)
      PROVE  IndInv'
  BY <1>1, AskStep, TryClaimStep, ClaimingSteps, AnsweringSteps, StartFailsSteps,
     SendStartStep, ReleaseStep
     DEF RequestStep, RequestFault
<1>2. ASSUME NEW b \in Build, Register(b) \/ LoseStart(b) \/ RunStep(b) \/ TimeOut(b)
      PROVE  IndInv'
  BY <1>2, StartSteps, GuardedSteps, FinalizeAgainStep, FinalizeStep, FailingSteps
     DEF RunStep
<1> QED
  BY <1>1, <1>2, TickStep, StutterStep DEF Next

(***************************************************************************)
(* Every reachable state satisfies the inductive invariant, however many   *)
(* editors, attempts and faults there are.                                 *)
(***************************************************************************)
THEOREM InvHolds == Spec => []IndInv
<1>1. Init => IndInv
  BY InitInv
<1>2. IndInv /\ [Next]_vars => IndInv'
  BY StepInv
<1> QED
  BY <1>1, <1>2, PTL DEF Spec

(***************************************************************************)
(* An attempt is BUILDING exactly while the edition names it, and the      *)
(* published attempt's row is kept.                                        *)
(***************************************************************************)
THEOREM RowsAgreeHolds == Spec => []RowsAgree
<1>1. IndInv => RowsAgree
  BY DEF IndInv
<1> QED
  BY <1>1, InvHolds, PTL

(***************************************************************************)
(* What a run reported stays true, whatever its late executions still do.  *)
(***************************************************************************)
THEOREM ResultIsTrueHolds == Spec => []ResultIsTrue
<1>1. IndInv => ResultIsTrue
  BY DEF IndInv
<1> QED
  BY <1>1, InvHolds, PTL

(***************************************************************************)
(* A claim is taken over only from an attempt whose run is over, or was    *)
(* never registered and never will be.  Only a claim that retires its      *)
(* holder marks a BUILDING row; the holder was found gone, and is found    *)
(* stale: so it was not registered since, and no start is on its way.      *)
(***************************************************************************)
LEMMA StepLiveRun ==
    ASSUME IndInv, Next, NEW b \in Build, status[b] = "BUILDING", status'[b] = "SUPERSEDED"
    PROVE  run'[b] \in {"none", "closed"} /\ b \notin starts'
<1>1. EditionInv /\ TimesInv /\ \A o \in Build : status[o] = "BUILDING" <=> current = o
  BY Parts DEF EditionInv, RowsAgree
<1>2. PICK e \in Editor : TryClaim(e)
  <2>1. ~UNCHANGED status
    OBVIOUS
  <2>2. ASSUME NEW o \in Build, FinalizeGlossyBuild(o) \/ FailGlossyBuild(o)
                                \/ MarkGlossyBuildSuperseded(o)
        PROVE  FALSE
    BY <1>1, <2>2
       DEF FinalizeGlossyBuild, FailGlossyBuild, MarkGlossyBuildSuperseded, edition, EditionInv
  <2>3. ASSUME NEW e \in Editor, ReleaseGlossyClaim(e)
        PROVE  FALSE
    BY <1>1, <2>3 DEF ReleaseGlossyClaim, FailGlossyBuild, edition, EditionInv
  <2>4. ASSUME NEW o \in Build, Register(o) \/ LoseStart(o) \/ RunStep(o) \/ TimeOut(o)
        PROVE  FALSE
    BY <2>1, <2>2, <2>4
       DEF Register, LoseStart, RunStep, TimeOut, Prepare, Work, FinalizeAgain, StartFinalize,
           Finalize, Fails, RecordFailure, FailureUnrecorded, FailLate, Guarded, Beat, edition
  <2> QED
    BY <2>1, <2>3, <2>4
       DEF Next, Ask, RequestStep, RequestFault, ClaimLost, ReadHolder, HolderFinished,
           ProbeGone, ProbeLive, SendStart, Started, StartRefused, ProbeUnknown,
           StartAnswerLost, Crash, Tick, edition
<1> DEFINE x == request[e]
<1>3. /\ x.pc = "claiming" /\ UNCHANGED <<run, starts>>
      /\ Retirable(e) /\ b = x.holder /\ x.holder # 0
  BY <1>1, <1>2 DEF TryClaim, Retirable, temporal, EditionInv
<1>4. /\ age[b] > StaleAfter + x.elapsed /\ x.elapsed \in Nat /\ age[b] \in Nat
  BY <1>1, <1>3, TimesAssumption DEF Retirable, Stale, TimesInv, Request, OldAge
<1>5. Gone(b)
  BY <1>1, <1>3, <1>4, TimesAssumption DEF TimesInv, RequestInOrder
<1>6. b \notin starts
  BY <1>1, <1>4, TimesAssumption DEF TimesInv, StartsAreYoung
<1> QED
  BY <1>3, <1>5, <1>6 DEF Gone

(***************************************************************************)
(* A claim is retired only when its run has ended or never began, and its  *)
(* start can no longer arrive (dispatch-glossy-build.ts).                  *)
(***************************************************************************)
THEOREM LiveRunKeepsClaimHolds == Spec => LiveRunKeepsClaim
<1>1. IndInv /\ [Next]_vars =>
        [\A b \in Build : status[b] = "BUILDING" /\ status'[b] = "SUPERSEDED"
            => run'[b] \in {"none", "closed"} /\ b \notin starts']_vars
  BY StepLiveRun
<1> QED
  BY <1>1, InvHolds, PTL DEF Spec, LiveRunKeepsClaim

-----------------------------------------------------------------------------
(***************************************************************************)
(* Requests, runs and late executions implement GlossyPublication: of all  *)
(* their steps only a claim, a publication and the ends of a failed build  *)
(* change what it describes.                                               *)
(***************************************************************************)
pubvars == <<claims, current, published, {}>>

LEMMA StepPublication ==
    ASSUME IndInv, [Next]_vars
    PROVE  [Publication!Next]_pubvars
<1> USE DEF pubvars
<1>1. EditionInv
  BY Parts
<1>2. ASSUME NEW b \in Build, Publishes(b) \/ Releases(b)
      PROVE  Publication!Next
  BY <1>2
     DEF Publishes, Releases, FinalizeGlossyBuild, FailGlossyBuild, Build, Publication!Next,
         Publication!Publish, Publication!Release
<1>3. ASSUME NEW b \in Build,
             \/ FinalizeGlossyBuild(b) \/ FailGlossyBuild(b)
             \/ MarkGlossyBuildSuperseded(b) \/ UNCHANGED edition
      PROVE  Publication!Next \/ UNCHANGED pubvars
  BY <1>1, <1>2, <1>3, MarkIsNothing
     DEF Publishes, Releases, FinalizeGlossyBuild, FailGlossyBuild, edition
<1>4. ASSUME NEW b \in Build, Register(b) \/ LoseStart(b) \/ RunStep(b) \/ TimeOut(b)
      PROVE  Publication!Next \/ UNCHANGED pubvars
  <2>1. \/ FinalizeGlossyBuild(b) \/ FailGlossyBuild(b)
        \/ MarkGlossyBuildSuperseded(b) \/ UNCHANGED edition
    BY <1>4
       DEF Register, LoseStart, RunStep, TimeOut, Prepare, Work, FinalizeAgain, StartFinalize,
           Finalize, Fails, RecordFailure, FailureUnrecorded, FailLate, Guarded, Beat
  <2> QED
    BY <1>3, <2>1
<1>5. ASSUME NEW e \in Editor, Ask(e) \/ RequestStep(e) \/ RequestFault(e)
      PROVE  Publication!Next \/ UNCHANGED pubvars
  <2>1. CASE TryClaim(e)
    BY <2>1 DEF TryClaim, Publication!Next, Publication!Claim
  <2>2. CASE ReleaseGlossyClaim(e)
    <3>1. request[e].build \in 1 .. claims /\ claims \in 0 .. MaxClaims
      BY <2>2, RequestFacts DEF ReleaseGlossyClaim, RequestInOrder
    <3>2. request[e].build \in Build
      BY <3>1, TimesAssumption DEF Build
    <3> QED
      BY <1>3, <2>2, <3>2 DEF ReleaseGlossyClaim
  <2>3. CASE ~TryClaim(e) /\ ~ReleaseGlossyClaim(e)
    BY <1>5, <2>3
       DEF Ask, RequestStep, RequestFault, ClaimLost, ReadHolder, HolderFinished, ProbeGone,
           ProbeLive, SendStart, Started, StartRefused, ProbeUnknown, StartAnswerLost, Crash,
           edition
  <2> QED
    BY <2>1, <2>2, <2>3
<1> QED
  BY <1>4, <1>5 DEF Next, Tick, vars, edition

(***************************************************************************)
(* Requests, runs and late executions together do nothing that             *)
(* GlossyPublication does not allow.                                       *)
(***************************************************************************)
THEOREM ImplementsPublication == Spec => PublicationSpec
<1>1. Init => Publication!Init
  BY DEF Init, Publication!Init
<1>2. IndInv /\ [Next]_vars => [Publication!Next]_pubvars
  BY StepPublication
<1> QED
  BY <1>1, <1>2, InvHolds, PTL
     DEF Spec, PublicationSpec, Publication!Spec, pubvars
=============================================================================
