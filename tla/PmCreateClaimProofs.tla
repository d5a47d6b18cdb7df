------------------------ MODULE PmCreateClaimProofs -------------------------
(***************************************************************************)
(* Proofs about PmCreateClaim, for any number of senders and users, any    *)
(* send timeout and any recovery age no shorter than it.                   *)
(***************************************************************************)
EXTENDS PmCreateClaim, TLAPS

(* A sender that moves to a well-typed control point keeps run well typed. *)
LEMMA PointType ==
    ASSUME NEW pc \in PC, NEW start \in Nat, NEW stamp \in Nat, NEW tries \in Nat
    PROVE  At(pc, start, stamp, tries) \in RunState
BY DEF At, RunState

LEMMA GotoType ==
    ASSUME NEW s \in Sender, NEW there \in RunState,
           run \in [Sender -> RunState], Goto(s, there)
    PROVE  run' \in [Sender -> RunState]
BY DEF Goto

(***************************************************************************)
(* Type correctness: every column, local and history variable keeps to the *)
(* values the code can give it (a claim is a sender's id, a link an item). *)
(***************************************************************************)
LEMMA TypeStep ==
    ASSUME TypeOK, [Next]_vars
    PROVE  TypeOK'
<1> USE ValueAssumption, TimeAssumption, BoundAssumption DEF Item
<1>1. CASE Tick
  BY <1>1 DEF Tick, TypeOK, rowVars
<1>2. ASSUME NEW s \in Sender, SenderStep(s)
      PROVE  TypeOK'
  <2> USE GotoType, PointType DEF TypeOK, rowVars, Past, PC
  <2>a. /\ run[s] \in RunState
        /\ run[s].start \in Nat /\ run[s].stamp \in Nat /\ run[s].tries \in Nat
    BY DEF RunState
  <2>b. \A pc \in PC : Onward(s, pc) \in RunState
    BY <2>a DEF Onward
  <2>1. CASE StartSendDeadline(s)
    BY <2>1 DEF StartSendDeadline
  <2>2. CASE ReadDatabaseClock(s)
    BY <2>a, <2>2 DEF ReadDatabaseClock
  <2>c. \A pc \in PC, n \in Nat : Sending(s, pc, n) \in RunState
    BY <2>a DEF Sending
  <2>3. CASE TakeClaim(s)
    <3>1. Sending(s, "send", 1) \in RunState
      BY <2>c
    <3>2. run' \in [Sender -> RunState]
      BY <2>3, <3>1 DEF TakeClaim
    <3> QED
      BY <2>3, <2>a, <3>2 DEF TakeClaim, ClaimRow
  <2>4. CASE TakeClaimAnswerLost(s)
    BY <2>a, <2>4 DEF TakeClaimAnswerLost, ClaimRow
  <2>5. CASE MissClaim(s)
    BY <2>b, <2>5 DEF MissClaim
  <2>6. CASE ReadBack(s)
    <3>1. PICK there \in RunState : Goto(s, there)
      BY <2>a, <2>6 DEF ReadBack
    <3> QED
      BY <2>6, <3>1 DEF ReadBack
  <2>7. CASE Dispatch(s)
    BY <2>7, <2>a, <2>c DEF Dispatch
  <2>8. CASE DispatchTooLate(s) \/ RefusedBeforeSend(s) \/ ThrewBeforeSend(s)
    BY <2>8 DEF DispatchTooLate, RefusedBeforeSend, ThrewBeforeSend
  <2>9. CASE Answered(s) \/ NotAnswered(s) \/ Rejected(s)
    BY <2>9 DEF Answered, NotAnswered, Rejected
  <2>10. CASE Release(s)
    BY <2>10 DEF Release
  <2>11. CASE LinkWrite(s)
    BY <2>11 DEF LinkWrite, SettleClaim
  <2>12. CASE LinkWriteFails(s)
    <3>1. /\ Past("link", run[s].tries + 1) \in RunState
          /\ Past("uncertain", 0) \in RunState
          /\ Past("orphaned", 0) \in RunState
      BY <2>a
    <3>2. PICK there \in RunState : Goto(s, there)
      BY <2>12, <3>1 DEF LinkWriteFails, AfterFailedTry
    <3>3. run' \in [Sender -> RunState]
      BY <3>2
    <3>4. /\ UNCHANGED <<now, request, view, givenUp>>
          /\ UNCHANGED rowVars \/ SettleClaim(s)
      BY <2>12, Zenon DEF LinkWriteFails
    <3> QED
      BY <3>3, <3>4 DEF SettleClaim
  <2>13. CASE SettleUncertainLink(s) \/ Recorded(s) \/ Crash(s)
    BY <2>13 DEF SettleUncertainLink, Recorded, Crash
  <2>14. CASE Unauthorized(s)
    BY <2>14, <2>c DEF Unauthorized
  <2> QED
    BY <1>2, <2>1, <2>2, <2>3, <2>4, <2>5, <2>6, <2>7, <2>8, <2>9, <2>10, <2>11,
       <2>12, <2>13, <2>14 DEF SenderStep
<1>3. ASSUME NEW s \in Sender, ToolHandles(s)
      PROVE  TypeOK'
  BY <1>3 DEF ToolHandles, TypeOK, rowVars
<1>4. ASSUME NEW u \in User, UserStep(u)
      PROVE  TypeOK'
  <2> USE DEF TypeOK, rowVars, NoView, Done, GiveUp, Sent, Nameable, Created
  <2>1. CASE LoadRow(u) \/ ReadCutoff(u) \/ Refused(u)
    BY <1>4, <2>1 DEF LoadRow, ReadCutoff, Refused
  <2>2. CASE UnlinkAndRecreate(u) \/ ClearPmCreateClaim(u)
    BY <1>4, <2>2 DEF UnlinkAndRecreate, ClearPmCreateClaim, DropRow
  <2>3. CASE LinkToExisting(u)
    BY <1>4, <2>3 DEF LinkToExisting, DropRow
  <2>4. CASE UnlinkOnly(u) \/ EditLink(u)
    BY <1>4, <2>4 DEF UnlinkOnly, EditLink
  <2> QED
    BY <1>4, <2>1, <2>2, <2>3, <2>4 DEF UserStep
<1>5. CASE UNCHANGED vars
  BY <1>5 DEF vars, TypeOK
<1> QED
  BY <1>1, <1>2, <1>3, <1>4, <1>5 DEF Next

LEMMA TypeInit == Init => TypeOK
BY ValueAssumption DEF Init, TypeOK, Past, At, PC, RunState, NoView, Item

THEOREM TypeCorrect == Spec => []TypeOK
BY TypeInit, TypeStep, PTL DEF Spec

-----------------------------------------------------------------------------
Late == {"await", "link", "uncertain", "orphaned", "unconfirmed", "linked", "ended"}
Early == {"idle", "clock", "take", "readBack"}
Asking == {"send", "await"}

(* What a sender's next control point must satisfy when the step changes     *)
(* nothing else.                                                             *)
Allowed(s, there) ==
    /\ there \in RunState
    /\ there.pc \in Asking => run[s].pc \in Asking /\ there.start = run[s].start
    /\ there.pc = "link" => s \in Created
    /\ there.pc \in {"clock", "take", "readBack"} => there.start <= now
    /\ there.pc = "take" => there.start <= there.stamp /\ there.stamp <= now
    /\ claim = s \/ s \in givenUp => there.pc \notin Early
    /\ s \in Sent => there.pc \in Late

LEMMA GotoValue ==
    ASSUME NEW s \in Sender, NEW there, run \in [Sender -> RunState], Goto(s, there)
    PROVE  /\ run'[s] = there
           /\ \A t \in Sender \ {s} : run'[t] = run[t]
BY DEF Goto

LEMMA PointFields ==
    ASSUME NEW pc, NEW start, NEW stamp, NEW tries
    PROVE  /\ At(pc, start, stamp, tries).pc = pc
           /\ At(pc, start, stamp, tries).start = start
           /\ At(pc, start, stamp, tries).stamp = stamp
BY DEF At

LEMMA QuietStep ==
    ASSUME IndInv, TypeOK', NEW s \in Sender, NEW there,
           Goto(s, there), Allowed(s, there),
           UNCHANGED <<now, rowVars, request, view, givenUp>>
    PROVE  IndInv'
<1>1. /\ run'[s] = there
      /\ \A t \in Sender \ {s} : run'[t] = run[t]
  BY GotoValue DEF IndInv, TypeOK
<1>2. /\ now' = now /\ link' = link /\ claim' = claim /\ claimedAt' = claimedAt
      /\ request' = request /\ view' = view /\ givenUp' = givenUp
  BY DEF rowVars
<1>3. Sent' = Sent /\ Created' = Created
  BY <1>2 DEF Sent, Created
<1>4. GivenUpForGood' /\ LinkExcludesClaim' /\ SentCreatesAreHeld'
  BY <1>2, <1>3 DEF IndInv, GivenUpForGood, LinkExcludesClaim, SentCreatesAreHeld
<1>5. ClocksInOrder'
  BY <1>1, <1>2 DEF IndInv, ClocksInOrder, Allowed, DeadlinePassed, Asking
<1>6. ClaimsAndSends'
  BY <1>1, <1>2, <1>3 DEF IndInv, ClaimsAndSends, Allowed, Early, Late, Asking
<1>7. ItemsAreLinked'
  BY <1>1, <1>2, <1>3 DEF IndInv, ItemsAreLinked, Allowed
<1> QED
  BY <1>4, <1>5, <1>6, <1>7 DEF IndInv

LEMMA CreatedIsSent == Created \subseteq Sent
BY DEF Created, Sent

LEMMA InvStep ==
    ASSUME IndInv, [Next]_vars
    PROVE  IndInv'
<1> USE ValueAssumption, TimeAssumption
<1>0. TypeOK /\ TypeOK'
  BY TypeStep DEF IndInv
<1>1. CASE Tick
  <2>1. /\ now' = now + 1 /\ link' = link /\ claim' = claim
        /\ claimedAt' = claimedAt /\ run' = run /\ request' = request
        /\ view' = view /\ givenUp' = givenUp
        /\ Sent' = Sent /\ Created' = Created
    BY <1>1 DEF Tick, rowVars, Sent, Created
  <2>2. ClocksInOrder'
    BY <1>0, <2>1 DEF IndInv, ClocksInOrder, DeadlinePassed, TypeOK, RunState
  <2> QED
    BY <1>0, <2>1, <2>2
       DEF IndInv, ClaimsAndSends, ItemsAreLinked, GivenUpForGood,
           LinkExcludesClaim, SentCreatesAreHeld
<1>2. ASSUME NEW s \in Sender, ToolHandles(s)
      PROVE  IndInv'
  <2>1. /\ now' = now /\ link' = link /\ claim' = claim
        /\ claimedAt' = claimedAt /\ run' = run /\ view' = view /\ givenUp' = givenUp
    BY <1>2 DEF ToolHandles, rowVars
  (* A refused create leaves Sent, and nothing that is created is lost. *)
  <2>2. Sent' \subseteq Sent /\ Created \subseteq Created'
    BY <1>0, <1>2 DEF ToolHandles, Sent, Created, TypeOK
  <2>3. ClocksInOrder' /\ ClaimsAndSends'
    BY <2>1, <2>2 DEF IndInv, ClocksInOrder, DeadlinePassed, ClaimsAndSends
  <2>4. ItemsAreLinked' /\ GivenUpForGood'
    BY <2>1, <2>2 DEF IndInv, ItemsAreLinked, GivenUpForGood
  <2> QED
    BY <1>0, <2>1, <2>2, <2>3, <2>4
       DEF IndInv, LinkExcludesClaim, SentCreatesAreHeld
<1>3. ASSUME NEW s \in Sender, SenderStep(s)
      PROVE  IndInv'
  <2>a. /\ run[s] \in RunState
        /\ run[s].start \in Nat /\ run[s].stamp \in Nat /\ run[s].tries \in Nat
        /\ now \in Nat
    BY <1>0 DEF TypeOK, RunState
  <2>b. /\ run[s].pc \in {"clock", "take", "readBack"} => run[s].start <= now
        /\ run[s].pc = "take" => run[s].start <= run[s].stamp /\ run[s].stamp <= now
        /\ claim = s \/ s \in givenUp => run[s].pc \notin Early
        /\ s \in Sent => run[s].pc \in Late
        /\ run[s].pc \in Asking /\ claim # s => DeadlinePassed(s)
        /\ run[s].pc = "link" => s \in Created
    BY DEF IndInv, ClocksInOrder, ClaimsAndSends, ItemsAreLinked, Early, Late, Asking
  <2>c. \A pc \in PC : /\ Past(pc, 0) \in RunState
                       /\ Past(pc, 1) \in RunState
                       /\ Past(pc, run[s].tries + 1) \in RunState
    BY <2>a, PointType DEF Past
  <2>d. \A pc, n : Past(pc, n).pc = pc
    BY PointFields DEF Past
  (* The steps that only move the sender to a later control point. *)
  <2>1. ASSUME NEW pc \in PC, NEW n \in {0, 1, run[s].tries + 1}, Goto(s, Past(pc, n)),
               UNCHANGED <<now, rowVars, request, view, givenUp>>,
               pc \notin Early \cup Asking, s \in Sent => pc \in Late,
               pc = "link" => s \in Created
        PROVE  IndInv'
    <3>1. Past(pc, n).pc = pc /\ Past(pc, n) \in RunState
      BY <2>c, <2>d
    <3>2. Allowed(s, Past(pc, n))
      BY <2>1, <3>1 DEF Allowed, Early
    <3> QED
      BY <1>0, <2>1, <3>2, QuietStep
  <2>2. CASE StartSendDeadline(s)
    <3> DEFINE there == At("clock", now, 0, 1)
    <3>1. /\ there \in RunState
          /\ there.pc = "clock"
          /\ there.start = now
          /\ there.stamp = 0
      BY <2>a DEF At, RunState, PC
    <3>2. Allowed(s, there)
      BY <2>2, <2>a, <2>b, <3>1 DEF StartSendDeadline, Allowed, Early, Late, Asking
    <3> QED
      BY <1>0, <2>2, <3>2, QuietStep DEF StartSendDeadline
  <2>3. CASE ReadDatabaseClock(s)
    <3> DEFINE there == At("take", run[s].start, now, run[s].tries)
    <3>1. /\ there \in RunState
          /\ there.pc = "take"
          /\ there.start = run[s].start
          /\ there.stamp = now
      BY <2>a DEF At, RunState, PC
    <3>2. Allowed(s, there)
      BY <2>3, <2>a, <2>b, <3>1 DEF ReadDatabaseClock, Allowed, Early, Late, Asking
    <3> QED
      BY <1>0, <2>3, <3>2, QuietStep DEF ReadDatabaseClock
  <2>4. CASE MissClaim(s)
    <3> DEFINE there == Onward(s, "readBack")
    <3>1. /\ there \in RunState
          /\ there.pc = "readBack"
          /\ there.start = run[s].start
          /\ there.stamp = run[s].stamp
      BY <2>a DEF Onward, At, RunState, PC
    <3>2. Allowed(s, there)
      BY <2>4, <2>a, <2>b, <3>1 DEF MissClaim, Allowed, Early, Late, Asking
    <3> QED
      BY <1>0, <2>4, <3>2, QuietStep DEF MissClaim
  <2>5. CASE ReadBack(s)
    <3>1. UNCHANGED <<now, rowVars, request, view, givenUp>> /\ s \notin Sent
      BY <2>5, <2>b DEF ReadBack, Late
    <3>2. CASE Goto(s, Past("ended", 0)) \/ Goto(s, Past("held", 0))
      BY <2>1, <3>1, <3>2 DEF PC, Early, Asking
    <3>3. CASE Goto(s, At("clock", run[s].start, 0, run[s].tries + 1))
      <4> DEFINE there == At("clock", run[s].start, 0, run[s].tries + 1)
      <4>1. /\ there \in RunState
            /\ there.pc = "clock"
            /\ there.start = run[s].start
            /\ there.stamp = 0
        BY <2>a DEF At, RunState, PC
      <4>2. Allowed(s, there)
        BY <2>5, <2>a, <2>b, <4>1 DEF ReadBack, Allowed, Early, Late, Asking
      <4> QED
        BY <1>0, <3>1, <3>3, <4>2, QuietStep
    <3> QED
      BY <2>5, <3>2, <3>3 DEF ReadBack
  <2>6. CASE \/ DispatchTooLate(s) \/ RefusedBeforeSend(s) \/ ThrewBeforeSend(s)
             \/ Answered(s) \/ NotAnswered(s) \/ Rejected(s)
             \/ SettleUncertainLink(s) \/ Recorded(s) \/ Crash(s)
    <3>1. UNCHANGED <<now, rowVars, request, view, givenUp>>
      BY <2>6 DEF DispatchTooLate, RefusedBeforeSend, ThrewBeforeSend, Answered,
                  NotAnswered, Rejected, SettleUncertainLink, Recorded, Crash
    <3>2. PICK pc \in PC, n \in {0, 1} :
             /\ Goto(s, Past(pc, n))
             /\ pc \notin Early \cup Asking
             /\ s \in Sent => pc \in Late
             /\ pc = "link" => s \in Created
      BY <2>6, <2>b DEF DispatchTooLate, RefusedBeforeSend, ThrewBeforeSend, Answered,
                  NotAnswered, Rejected, SettleUncertainLink, Recorded, Crash,
                  PC, Early, Late, Asking, Sent, Created
    <3> QED
      BY <2>1, <3>1, <3>2
  <2>7. ASSUME Claimable, ClaimRow(s), run[s].pc = "take", NEW there \in RunState,
               Goto(s, there), there \in {Sending(s, "send", 1), Past("ended", 0)},
               UNCHANGED <<now, request, view, givenUp>>
        PROVE  IndInv'
    <3>1. /\ run'[s] = there
          /\ \A t \in Sender \ {s} : run'[t] = run[t]
      BY <1>0, <2>7, GotoValue DEF TypeOK
    <3>2. /\ Sent' = Sent /\ Created' = Created
          /\ Sent \subseteq givenUp
          /\ s \notin Sent /\ s \notin givenUp
      BY <2>7, <2>b
         DEF Sent, Created, Claimable, IndInv, SentCreatesAreHeld, Early, Late
    <3>3. /\ there.pc \in {"send", "ended"}
          /\ there.pc = "send" => there.start = run[s].start
      BY <2>7, <2>d, PointFields DEF Sending
    <3>4. ClocksInOrder'
      BY <2>7, <2>b, <3>1, <3>3, <1>0
         DEF IndInv, ClocksInOrder, DeadlinePassed, Claimable, ClaimRow
    <3>5. ClaimsAndSends'
      BY <2>7, <3>1, <3>2, <3>3, <1>0 DEF IndInv, ClaimsAndSends, Claimable, ClaimRow
    <3>6. ItemsAreLinked' /\ GivenUpForGood'
      BY <2>7, <3>1, <3>2, <3>3
         DEF IndInv, ItemsAreLinked, GivenUpForGood, Claimable, ClaimRow
    <3> QED
      BY <1>0, <2>7, <3>2, <3>4, <3>5, <3>6
         DEF IndInv, LinkExcludesClaim, SentCreatesAreHeld
  <2>8. CASE TakeClaim(s) \/ TakeClaimAnswerLost(s)
    <3>1. Sending(s, "send", 1) \in RunState /\ Past("ended", 0) \in RunState
      BY <2>a, <2>c, PointType DEF Sending, PC
    <3> QED
      BY <2>7, <2>8, <3>1 DEF TakeClaim, TakeClaimAnswerLost
  (* Before its deadline the sender holds the claim, so the create is held. *)
  <2>9. CASE Dispatch(s)
    <3> DEFINE there == Sending(s, "await", run[s].tries)
    <3>1. /\ there.pc = "await" /\ there.start = run[s].start
          /\ run'[s] = there
          /\ \A t \in Sender \ {s} : run'[t] = run[t]
      BY <1>0, <2>9, PointFields, GotoValue DEF Dispatch, Sending, TypeOK
    <3>2. s \notin Sent /\ Sent' = Sent \cup {s} /\ Created' = Created
      BY <1>0, <2>9, <2>b DEF Dispatch, Sent, Created, TypeOK, Late
    <3>3. /\ now' = now /\ link' = link /\ claim' = claim /\ claimedAt' = claimedAt
          /\ view' = view /\ givenUp' = givenUp /\ claim = s
      BY <2>9, <2>b DEF Dispatch, rowVars, Asking
    <3>4. ClocksInOrder'
      BY <2>9, <3>1, <3>3 DEF Dispatch, IndInv, ClocksInOrder, DeadlinePassed
    <3>5. ClaimsAndSends'
      BY <3>1, <3>2, <3>3 DEF IndInv, ClaimsAndSends
    <3>6. ItemsAreLinked' /\ GivenUpForGood'
      BY <3>1, <3>2, <3>3 DEF IndInv, ItemsAreLinked, GivenUpForGood
    <3> QED
      BY <1>0, <3>2, <3>3, <3>4, <3>5, <3>6
         DEF IndInv, LinkExcludesClaim, SentCreatesAreHeld
  (* Back to the request, the start of the deadline kept. *)
  <2>10. CASE Unauthorized(s)
    <3> DEFINE there == Sending(s, "send", 2)
    <3>1. there \in RunState /\ there.pc = "send" /\ there.start = run[s].start
      <4>1. "send" \in PC /\ 0 \in Nat /\ 2 \in Nat
        BY DEF PC
      <4>2. there \in RunState
        BY <2>a, <4>1, PointType DEF Sending
      <4> QED
        BY <4>2, PointFields DEF Sending
    <3>2. s \notin Sent
      BY <2>10 DEF Unauthorized, Sent
    <3>3. Allowed(s, there)
      BY <2>10, <3>1, <3>2 DEF Unauthorized, Allowed, Early, Asking
    <3> QED
      BY <1>0, <2>10, <3>3, QuietStep DEF Unauthorized
  <2>11. CASE Release(s)
    <3>1. CASE UNCHANGED rowVars
      BY <2>1, <2>11, <2>b, <3>1 DEF Release, PC, Early, Late, Asking
    <3>2. CASE claim = s /\ claim' = NoOne /\ claimedAt' = 0 /\ UNCHANGED link
      <4>1. /\ run'[s].pc = "ended"
            /\ \A t \in Sender \ {s} : run'[t] = run[t]
        BY <1>0, <2>11, <2>d, GotoValue, <2>c DEF Release, TypeOK, PC
      <4>2. s \notin Sent /\ Sent' = Sent /\ Created' = Created
        BY <2>11, <2>b DEF Release, Late, Sent, Created
      <4>3. ClocksInOrder'
        BY <2>11, <3>2, <4>1 DEF Release, IndInv, ClocksInOrder, DeadlinePassed
      <4>4. ClaimsAndSends'
        BY <2>11, <3>2, <4>1, <4>2 DEF Release, IndInv, ClaimsAndSends
      <4>5. ItemsAreLinked' /\ GivenUpForGood'
        BY <1>0, <2>11, <3>2, <4>1, <4>2
           DEF Release, IndInv, ItemsAreLinked, GivenUpForGood, TypeOK
      <4> QED
        BY <1>0, <2>11, <3>2, <4>2, <4>3, <4>4, <4>5
           DEF Release, IndInv, LinkExcludesClaim, SentCreatesAreHeld
    <3> QED
      BY <2>11, <3>1, <3>2 DEF Release
  <2>12. ASSUME SettleClaim(s), run[s].pc = "link", NEW there \in RunState,
                Goto(s, there), there.pc \in Late \ Asking,
                UNCHANGED <<now, request, view, givenUp>>
         PROVE  IndInv'
    <3>1. /\ run'[s].pc \in Late \ Asking
          /\ \A t \in Sender \ {s} : run'[t] = run[t]
      BY <1>0, <2>12, GotoValue DEF TypeOK
    <3>2. Sent' = Sent /\ Created' = Created /\ s \in Created
      BY <2>12, <2>b DEF Sent, Created
    <3>3. ClocksInOrder'
      BY <2>12, <3>1
         DEF SettleClaim, IndInv, ClocksInOrder, DeadlinePassed, Late, Asking
    <3>4. ClaimsAndSends'
      BY <2>12, <3>1, <3>2 DEF SettleClaim, IndInv, ClaimsAndSends, Late
    <3>5. ItemsAreLinked' /\ GivenUpForGood'
      BY <1>0, <2>12, <3>1, <3>2
         DEF SettleClaim, IndInv, ItemsAreLinked, GivenUpForGood, TypeOK, Late, Asking
    <3> QED
      BY <1>0, <2>12, <3>2, <3>3, <3>4, <3>5
         DEF SettleClaim, IndInv, LinkExcludesClaim, SentCreatesAreHeld
  <2>13. CASE LinkWrite(s)
    BY <2>12, <2>13, <2>c, <2>d DEF LinkWrite, PC, Late, Asking
  <2>14. CASE LinkWriteFails(s)
    <3>1. PICK pc \in {"link", "uncertain", "orphaned"}, n \in {0, run[s].tries + 1} :
             Goto(s, Past(pc, n))
      BY <2>14 DEF LinkWriteFails, AfterFailedTry
    <3>2. Past(pc, n) \in RunState /\ Past(pc, n).pc \in Late \ Asking
      BY <2>c, <2>d DEF PC, Late, Asking
    <3>3. /\ UNCHANGED <<now, request, view, givenUp>> /\ run[s].pc = "link"
          /\ UNCHANGED rowVars \/ SettleClaim(s)
      BY <2>14, Zenon DEF LinkWriteFails
    <3>4. CASE UNCHANGED rowVars
      BY <2>1, <2>b, <3>1, <3>3, <3>4 DEF PC, Early, Late, Asking
    <3>5. CASE SettleClaim(s)
      BY <2>12, <3>1, <3>2, <3>3, <3>5
    <3> QED
      BY <3>3, <3>4, <3>5
  <2> QED
    BY <1>3, <2>2, <2>3, <2>4, <2>5, <2>6, <2>8, <2>9, <2>10, <2>11, <2>13,
       <2>14 DEF SenderStep
<1>4. ASSUME NEW u \in User, UserStep(u)
      PROVE  IndInv'
  <2>1. now' = now /\ run' = run /\ Sent' = Sent /\ Created' = Created
    BY <1>4 DEF UserStep, LoadRow, ReadCutoff, UnlinkAndRecreate, ClearPmCreateClaim,
                LinkToExisting, UnlinkOnly, Refused, EditLink, Sent, Created
  (* A view keeps to clock readings of the past. *)
  <2>2. \A v \in User : view'[v].clock <= now
    <3>1. \A v \in User : view[v].clock <= now /\ 0 <= now
      BY <1>0 DEF IndInv, ClocksInOrder, TypeOK
    <3>2. CASE LoadRow(u) \/ ReadCutoff(u)
      BY <1>0, <3>1, <3>2 DEF LoadRow, ReadCutoff, TypeOK
    <3>3. CASE Done(u) \/ view' = view
      BY <1>0, <3>1, <3>3 DEF Done, NoView, TypeOK
    <3> QED
      BY <1>4, <3>2, <3>3 DEF UserStep, UnlinkAndRecreate, ClearPmCreateClaim,
                LinkToExisting, UnlinkOnly, Refused, EditLink
  <2>3. CASE UNCHANGED <<rowVars, givenUp>>
    BY <1>0, <2>1, <2>2, <2>3
       DEF rowVars, IndInv, ClocksInOrder, DeadlinePassed, ClaimsAndSends,
           ItemsAreLinked, GivenUpForGood, LinkExcludesClaim, SentCreatesAreHeld
  (* A recovery that clears a held claim finds its holder past its deadline. *)
  <2>4. ASSUME Recoverable(u), NEW i \in Nameable \cup {NoOne}, DropRow(i)
        PROVE  IndInv'
    <3>1. \A s \in Sender : run[s].pc \in Asking => DeadlinePassed(s)
      <4> SUFFICES ASSUME NEW s \in Sender, run[s].pc \in Asking, claim = s
                   PROVE  DeadlinePassed(s)
        BY DEF IndInv, ClocksInOrder, Asking
      <4>1. run[s].start <= claimedAt /\ view[u].clock <= now
        BY DEF IndInv, ClocksInOrder, Asking
      <4>2. claimedAt + RecoveryMinAge <= view[u].clock
        BY <2>4 DEF Recoverable
      <4>3. /\ run[s].start \in Nat /\ claimedAt \in Nat
            /\ view[u].clock \in Nat /\ now \in Nat
        BY <1>0 DEF TypeOK, RunState
      <4> QED
        BY <4>1, <4>2, <4>3 DEF DeadlinePassed
    <3>2. ClocksInOrder'
      BY <2>1, <2>2, <2>4, <3>1
         DEF IndInv, ClocksInOrder, DeadlinePassed, DropRow, Asking
    <3>3. ClaimsAndSends'
      BY <2>1, <2>4 DEF IndInv, ClaimsAndSends, DropRow, GiveUp
    <3>4. ItemsAreLinked' /\ GivenUpForGood'
      BY <1>0, <2>1, <2>4
         DEF IndInv, ItemsAreLinked, GivenUpForGood, DropRow, Nameable, TypeOK
    <3> QED
      BY <1>0, <2>1, <2>4, <3>2, <3>3, <3>4
         DEF IndInv, DropRow, GiveUp, LinkExcludesClaim, SentCreatesAreHeld
  <2>5. CASE \/ UnlinkAndRecreate(u) \/ ClearPmCreateClaim(u) \/ LinkToExisting(u)
    BY <2>4, <2>5 DEF UnlinkAndRecreate, ClearPmCreateClaim, LinkToExisting,
                      CanUnlink, CanClear, CanRelink, DropRow
  (* What a user takes off the row without its claim is an item, not a promise. *)
  <2>6. ASSUME link' \in Nameable \cup {NoOne}, GiveUp({link}, link'),
               claim' = claim, claimedAt' = claimedAt
        PROVE  IndInv'
    <3>1. ClocksInOrder'
      BY <2>1, <2>2, <2>6 DEF IndInv, ClocksInOrder, DeadlinePassed
    <3>2. ClaimsAndSends'
      BY <2>1, <2>6 DEF IndInv, ClaimsAndSends, GiveUp
    <3>3. ItemsAreLinked' /\ GivenUpForGood'
      BY <1>0, <2>1, <2>6
         DEF IndInv, ItemsAreLinked, GivenUpForGood, GiveUp, Nameable, TypeOK
    <3> QED
      BY <1>0, <2>1, <2>6, <3>1, <3>2, <3>3
         DEF IndInv, GiveUp, LinkExcludesClaim, SentCreatesAreHeld
  <2>7. CASE UnlinkOnly(u) \/ EditLink(u)
    BY <2>6, <2>7 DEF UnlinkOnly, EditLink
  <2> QED
    BY <1>4, <2>3, <2>5, <2>7 DEF UserStep, LoadRow, ReadCutoff, Refused
<1>5. CASE UNCHANGED vars
  BY <1>0, <1>5
     DEF vars, IndInv, ClocksInOrder, DeadlinePassed, ClaimsAndSends, ItemsAreLinked,
         GivenUpForGood, LinkExcludesClaim, SentCreatesAreHeld, Sent, Created
<1> QED
  BY <1>1, <1>2, <1>3, <1>4, <1>5 DEF Next

(***************************************************************************)
(* IndInv holds of every reachable state.                                  *)
(***************************************************************************)
THEOREM InvHolds == Spec => []IndInv
<1>1. Init => IndInv
  <2> SUFFICES ASSUME Init PROVE IndInv
    OBVIOUS
  <2>1. \A s \in Sender : run[s].pc = "idle" /\ s \notin Sent
    BY DEF Init, Past, At, Sent
  <2>2. TypeOK /\ \A u \in User : view[u].clock <= now
    BY TypeInit DEF Init, NoView
  <2>3. /\ ClocksInOrder /\ ClaimsAndSends /\ ItemsAreLinked
        /\ GivenUpForGood /\ LinkExcludesClaim
    BY ValueAssumption, <2>1, <2>2
       DEF Init, ClocksInOrder, ClaimsAndSends, ItemsAreLinked, GivenUpForGood,
           LinkExcludesClaim
  <2> QED
    BY <2>1, <2>2, <2>3 DEF Init, IndInv, SentCreatesAreHeld, Sent
<1> QED
  BY <1>1, InvStep, PTL DEF Spec

(***************************************************************************)
(* A sender that can still hand its create to the PM tool, for the first   *)
(* or the second time, holds the claim, for every send timeout and every   *)
(* recovery age no shorter than it.                                        *)
(***************************************************************************)
THEOREM SendNeedsClaimHolds == Spec => []SendNeedsClaim
<1>1. IndInv => SendNeedsClaim
  BY DEF IndInv, ClocksInOrder, SendNeedsClaim, CanStillSend
<1> QED
  BY <1>1, InvHolds, PTL

(***************************************************************************)
(* A create that was sent, and neither refused by the PM tool nor given up *)
(* by a user, is the row's link or still holds its claim, whatever crashed *)
(* or failed in between.                                                   *)
(***************************************************************************)
THEOREM SentCreatesAreHeldHolds == Spec => []SentCreatesAreHeld
<1>1. IndInv => SentCreatesAreHeld
  BY DEF IndInv
<1> QED
  BY <1>1, InvHolds, PTL

-----------------------------------------------------------------------------
(* A step of the protocol is a step of PmCreateOnce, or a stutter. *)
LEMMA OnceStep ==
    ASSUME IndInv, [Next]_vars
    PROVE  [Once!Next]_Once!vars
<1> USE DEF Once!vars
<1>0. TypeOK
  BY DEF IndInv
<1>1. ASSUME NEW s \in Sender, SenderStep(s), ~Dispatch(s)
      PROVE  UNCHANGED <<Sent, givenUp>>
  BY <1>1 DEF SenderStep, StartSendDeadline, ReadDatabaseClock, TakeClaim,
     TakeClaimAnswerLost, MissClaim, ReadBack, DispatchTooLate, RefusedBeforeSend,
     ThrewBeforeSend, Answered, NotAnswered, Rejected, Unauthorized, Release,
     LinkWrite, LinkWriteFails, SettleUncertainLink, Recorded, Crash, Sent
(* No create the row still holds is behind a row whose claim the sender has. *)
<1>2. ASSUME NEW s \in Sender, Dispatch(s)
      PROVE  Once!SendCreate(s)
  <2>1. s \notin Sent /\ Sent' = Sent \cup {s} /\ givenUp' = givenUp
    BY <1>0, <1>2 DEF Dispatch, Sent, TypeOK, IndInv, ClaimsAndSends
  <2>2. claim = s
    BY <1>2 DEF Dispatch, IndInv, ClocksInOrder
  <2>3. Sent \subseteq givenUp
    BY <2>1, <2>2, ValueAssumption
       DEF IndInv, LinkExcludesClaim, SentCreatesAreHeld, Sent
  <2>4. s \notin givenUp
    BY <2>1, <2>2, CreatedIsSent DEF IndInv, GivenUpForGood
  <2> QED
    BY <2>1, <2>3, <2>4 DEF Once!SendCreate
<1>3. ASSUME NEW s \in Sender, ToolHandles(s)
      PROVE  Once!Refuse(s) \/ UNCHANGED <<Sent, givenUp>>
  <2>1. s \in Sent /\ givenUp' = givenUp /\ Sent' \in {Sent, Sent \ {s}}
    BY <1>0, <1>3 DEF ToolHandles, Sent, TypeOK
  <2> QED
    BY <2>1 DEF Once!Refuse
(* What a user's write gives up was sent. *)
<1>4. ASSUME NEW u \in User, UserStep(u)
      PROVE  \E S \in SUBSET Sender : Once!GiveUp(S)
  <2>1. Sent' = Sent /\ Sent \subseteq Sender
    BY <1>4 DEF UserStep, LoadRow, ReadCutoff, UnlinkAndRecreate, ClearPmCreateClaim,
                LinkToExisting, UnlinkOnly, Refused, EditLink, Sent
  <2>2. (\E dropped, kept : GiveUp(dropped, kept)) \/ givenUp' = givenUp
    BY <1>4, Zenon DEF UserStep, LoadRow, ReadCutoff, UnlinkAndRecreate,
                ClearPmCreateClaim, LinkToExisting, UnlinkOnly, Refused, EditLink,
                DropRow
  <2>3. givenUp \subseteq givenUp' /\ givenUp' \ givenUp \subseteq Sent
    BY <2>2 DEF GiveUp
  <2>4. Once!GiveUp(givenUp' \ givenUp)
    BY <2>1, <2>3 DEF Once!GiveUp
  <2> QED
    BY <2>1, <2>3, <2>4
<1>5. CASE Tick \/ UNCHANGED vars
  BY <1>5 DEF Tick, vars, Sent
<1> QED
  BY <1>1, <1>2, <1>3, <1>4, <1>5 DEF Next, Once!Next

(***************************************************************************)
(* The claim protocol implements PmCreateOnce: a sender asks the PM tool   *)
(* for an item only after every create sent before was refused by the tool *)
(* or given up by a user.                                                  *)
(***************************************************************************)
THEOREM ImplementsOnce == Spec => CreatesOnce
<1>1. Init => Once!Init
  BY DEF Init, Once!Init, Sent
<1> QED
  BY <1>1, OnceStep, InvHolds, PTL DEF Spec, CreatesOnce, Once!Spec
=============================================================================
